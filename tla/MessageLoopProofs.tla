-------------------------- MODULE MessageLoopProofs --------------------------
(***************************************************************************)
(* Proofs about the message loop for every number of threads, handlers and *)
(* messages: who owns a message, whom it is for, in which order the        *)
(* messages of one sender are queued, and that the loop does not sleep on  *)
(* a message.                                                              *)
(***************************************************************************)
EXTENDS MessageLoop, Integers, SeqFacts

Distinct(q) == \A j, k \in DOMAIN q : q[j] = q[k] => j = k

-----------------------------------------------------------------------------
(* The set of messages in a list.                                          *)

LEMMA IndexFacts ==
    ASSUME NEW q \in Seq(Ids)
    PROVE  /\ Len(q) \in Nat /\ DOMAIN q = 1 .. Len(q) /\ (q = <<>> <=> Len(q) = 0)
           /\ \A j \in 1 .. Len(q) : q[j] \in Ids
           /\ ToSet(q) = {q[j] : j \in 1 .. Len(q)} /\ ToSet(q) \subseteq Ids
  <1>1. Len(q) \in Nat /\ DOMAIN q = 1 .. Len(q) /\ (q = <<>> <=> Len(q) = 0)
    BY LenProperties, EmptySeq
  <1>2. \A j \in 1 .. Len(q) : q[j] \in Ids
    BY ElementOfSeq
  <1> QED BY <1>1, <1>2 DEF ToSet

LEMMA InsertedElements ==
    ASSUME NEW q \in Seq(Ids), NEW p \in 1 .. Len(q) + 1, NEW m \in Ids
    PROVE  /\ InsertAt(q, p, m) \in Seq(Ids)
           /\ Len(InsertAt(q, p, m)) = Len(q) + 1
           /\ \A j \in 1 .. Len(q) + 1 :
                InsertAt(q, p, m)[j] = IF j < p THEN q[j] ELSE IF j = p THEN m ELSE q[j - 1]
  BY InsertAtFacts

LEMMA InsertedFacts ==
    ASSUME NEW q \in Seq(Ids), Distinct(q), NEW p \in 1 .. Len(q) + 1, NEW m \in Ids, m \notin ToSet(q)
    PROVE  /\ InsertAt(q, p, m) \in Seq(Ids)
           /\ InsertAt(q, p, m) # <<>>
           /\ Distinct(InsertAt(q, p, m))
           /\ ToSet(InsertAt(q, p, m)) = ToSet(q) \cup {m}
  <1>0. PICK r : r = InsertAt(q, p, m)
    OBVIOUS
  <1>1. /\ r \in Seq(Ids) /\ Len(r) = Len(q) + 1
        /\ \A j \in 1 .. Len(q) + 1 : r[j] = IF j < p THEN q[j] ELSE IF j = p THEN m ELSE q[j - 1]
    <2>1. /\ InsertAt(q, p, m) \in Seq(Ids)
          /\ Len(InsertAt(q, p, m)) = Len(q) + 1
          /\ \A j \in 1 .. Len(q) + 1 :
               InsertAt(q, p, m)[j] = IF j < p THEN q[j] ELSE IF j = p THEN m ELSE q[j - 1]
      BY InsertedElements
    <2> QED BY <1>0, <2>1
  <1>2. /\ Len(q) \in Nat /\ p \in Nat /\ DOMAIN q = 1 .. Len(q) /\ DOMAIN r = 1 .. Len(q) + 1
        /\ ToSet(q) = {q[j] : j \in 1 .. Len(q)} /\ ToSet(r) = {r[j] : j \in 1 .. Len(q) + 1}
        /\ r # <<>>
    BY <1>1, IndexFacts
  <1> DEFINE Old(j) == IF j < p THEN j ELSE j - 1
  <1>3. ASSUME NEW j \in 1 .. Len(q) + 1, j # p
        PROVE  Old(j) \in 1 .. Len(q) /\ r[j] = q[Old(j)] /\ r[j] # m
    <2>1. Old(j) \in 1 .. Len(q)
      BY <1>2, <1>3
    <2>2. r[j] = q[Old(j)]
      BY <1>1, <1>3
    <2> HIDE DEF Old
    <2> QED BY <1>2, <2>1, <2>2
  <1>4. r[p] = m
    BY <1>1, <1>2
  <1>5. ASSUME NEW j \in 1 .. Len(q) + 1, NEW k \in 1 .. Len(q) + 1, r[j] = r[k]
        PROVE  j = k
    <2>1. CASE j = p \/ k = p
      BY <1>3, <1>4, <1>5, <2>1
    <2>2. CASE j # p /\ k # p
      <3>1. Old(j) = Old(k)
        BY <1>2, <1>3, <1>5, <2>2 DEF Distinct
      <3> QED BY <1>2, <2>2, <3>1
    <2> QED BY <2>1, <2>2
  <1>6. ToSet(r) \subseteq ToSet(q) \cup {m}
    BY <1>2, <1>3, <1>4
  <1>7. ASSUME NEW i \in 1 .. Len(q)
        PROVE  \E j \in 1 .. Len(q) + 1 : r[j] = q[i]
    <2>1. CASE i < p
      BY <1>1, <1>2, <2>1
    <2>2. CASE ~(i < p)
      <3> DEFINE j == i + 1
      <3>1. j \in 1 .. Len(q) + 1 /\ ~(j < p) /\ j # p /\ j - 1 = i
        BY <1>2, <2>2
      <3> HIDE DEF j
      <3> QED BY <1>1, <3>1
    <2> QED BY <2>1, <2>2
  <1>8. m \in ToSet(r)
    BY <1>2, <1>4
  <1>9. ToSet(q) \cup {m} \subseteq ToSet(r)
    BY <1>2, <1>7, <1>8
  <1> QED BY <1>0, <1>1, <1>2, <1>5, <1>6, <1>9 DEF Distinct

\* Taking out position j leaves the messages elsewhere, in their order.
LEMMA RemovedFacts ==
    ASSUME NEW q \in Seq(Ids), Distinct(q), NEW p \in 1 .. Len(q)
    PROVE  /\ RemoveAt(q, p) \in Seq(Ids)
           /\ Len(RemoveAt(q, p)) = Len(q) - 1
           /\ Distinct(RemoveAt(q, p))
           /\ ToSet(RemoveAt(q, p)) = ToSet(q) \ {q[p]}
           /\ \A j, k \in 1 .. Len(q) - 1 : j < k =>
                \E i, n \in 1 .. Len(q) : /\ i < n
                                          /\ RemoveAt(q, p)[j] = q[i] /\ RemoveAt(q, p)[k] = q[n]
  <1> DEFINE r == RemoveAt(q, p)
  <1>1. /\ r \in Seq(Ids) /\ Len(r) = Len(q) - 1
        /\ \A j \in 1 .. Len(q) - 1 : r[j] = IF j < p THEN q[j] ELSE q[j + 1]
    BY RemoveAtFacts
  <1> HIDE DEF r
  <1>2. /\ Len(q) \in Nat /\ p \in Nat /\ DOMAIN q = 1 .. Len(q) /\ DOMAIN r = 1 .. Len(q) - 1
        /\ ToSet(q) = {q[j] : j \in 1 .. Len(q)} /\ ToSet(r) = {r[j] : j \in 1 .. Len(q) - 1}
    <2>1. Len(q) \in Nat /\ DOMAIN q = 1 .. Len(q) /\ ToSet(q) = {q[j] : j \in 1 .. Len(q)}
      BY IndexFacts
    <2>2. DOMAIN r = 1 .. Len(r) /\ ToSet(r) = {r[j] : j \in 1 .. Len(r)}
      BY <1>1, IndexFacts
    <2> QED BY <1>1, <2>1, <2>2
  <1> DEFINE Old(j) == IF j < p THEN j ELSE j + 1
  <1>3. ASSUME NEW j \in 1 .. Len(q) - 1
        PROVE  Old(j) \in 1 .. Len(q) /\ Old(j) # p /\ r[j] = q[Old(j)]
    <2>1. Old(j) \in 1 .. Len(q) /\ Old(j) # p
      BY <1>2
    <2>2. r[j] = q[Old(j)]
      BY <1>1
    <2> QED BY <2>1, <2>2
  <1>4. \A j, k \in 1 .. Len(q) - 1 : (j < k => Old(j) < Old(k)) /\ (Old(j) = Old(k) => j = k)
    BY <1>2
  <1>5. ASSUME NEW i \in 1 .. Len(q), i # p
        PROVE  \E j \in 1 .. Len(q) - 1 : Old(j) = i
    <2>1. CASE i < p
      BY <1>2, <2>1
    <2>2. CASE i > p
      <3>1. i - 1 \in 1 .. Len(q) - 1 /\ Old(i - 1) = i
        BY <1>2, <2>2
      <3> QED BY <3>1
    <2> QED BY <1>2, <1>5, <2>1, <2>2
  <1> HIDE DEF Old
  <1>6. Distinct(r)
    BY <1>2, <1>3, <1>4 DEF Distinct
  <1>7. ToSet(r) = ToSet(q) \ {q[p]}
    <2>1. ToSet(r) \subseteq ToSet(q) \ {q[p]}
      BY <1>2, <1>3 DEF Distinct
    <2>2. ASSUME NEW x \in ToSet(q), x # q[p]
          PROVE  x \in ToSet(r)
      <3>1. PICK i \in 1 .. Len(q) : x = q[i] /\ i # p
        BY <1>2, <2>2
      <3>2. PICK j \in 1 .. Len(q) - 1 : Old(j) = i
        BY <1>5, <3>1
      <3> QED BY <1>2, <1>3, <3>1, <3>2
    <2> QED BY <2>1, <2>2
  <1>8. \A j, k \in 1 .. Len(q) - 1 : j < k =>
          \E i, n \in 1 .. Len(q) : i < n /\ r[j] = q[i] /\ r[k] = q[n]
    BY <1>3, <1>4
  <1> QED BY <1>1, <1>6, <1>7, <1>8 DEF r

LEMMA TailIsRemoval ==
    ASSUME NEW q \in Seq(Ids), q # <<>>
    PROVE  Tail(q) = RemoveAt(q, 1) /\ 1 \in 1 .. Len(q) /\ Head(q) = q[1]
  <1>1. Len(q) \in Nat /\ Len(q) >= 1
    BY IndexFacts
  <1>2. 1 \in 1 .. Len(q) /\ Head(q) = q[1]
    BY <1>1
  <1>3. /\ Tail(q) \in Seq(Ids) /\ Len(Tail(q)) = Len(q) - 1
        /\ \A j \in 1 .. Len(q) - 1 : Tail(q)[j] = q[j + 1]
    BY HeadTailProperties
  <1> DEFINE r == RemoveAt(q, 1)
  <1>4. /\ r \in Seq(Ids) /\ Len(r) = Len(q) - 1
        /\ \A j \in 1 .. Len(q) - 1 : r[j] = q[j + 1]
    <2>1. /\ r \in Seq(Ids) /\ Len(r) = Len(q) - 1
          /\ \A j \in 1 .. Len(q) - 1 : r[j] = IF j < 1 THEN q[j] ELSE q[j + 1]
      BY <1>2, RemoveAtFacts
    <2> HIDE DEF r
    <2>2. \A j \in 1 .. Len(q) - 1 : ~(j < 1)
      BY <1>1
    <2> QED BY <2>1, <2>2
  <1> HIDE DEF r
  <1>5. \A j \in 1 .. Len(Tail(q)) : Tail(q)[j] = r[j]
    BY <1>1, <1>3, <1>4
  <1>6. Tail(q) = r
    BY <1>3, <1>4, <1>5, SeqEqual
  <1> QED BY <1>2, <1>6 DEF r

-----------------------------------------------------------------------------
(* Who owns a message.                                                     *)

Free == fresh \cup pool \cup (Heap \ live)

\* A message is free, queued (Q), with a sender (C) or dispatched (c), and only one of these.
Owners(F, Q, C, c) ==
    /\ Q \cap F = {} /\ C \cap F = {} /\ Q \cap C = {}
    /\ c \notin Q \cup C \cup F
    /\ F \cup Q \cup C \cup ({c} \ {Null}) = Ids

Outs == {NoOut} \cup [id : Ids, when : Nat]

\* The part of the types that ownership needs.
Shapes ==
    /\ fresh \subseteq Static /\ pool \subseteq Static /\ live \subseteq Heap /\ fresh \cap pool = {}
    /\ queue \in Seq(Ids) /\ Distinct(queue)
    /\ out \in [Threads -> Outs]
    /\ \A t, u \in Threads : out[t] # NoOut /\ out[t].id = out[u].id => t = u
    /\ current \in Ids \cup {Null} /\ (current # Null <=> loop = "dispatch")
    /\ loop \in {"unstarted", "next", "poll", "wait", "dispatch"}
    /\ loop = "wait" => queue = <<>>
    /\ now \in Nat /\ now > 0

OInv == Shapes /\ Owners(Free, ToSet(queue), Composing, current)

LEMMA NullIsNoMessage == Null \notin Ids /\ NoOut.id = Null /\ Static \cap Heap = {}
  BY LoopConstants DEF Ids, NoOut

LEMMA OutFacts ==
    ASSUME OInv
    PROVE  \A t \in Threads : out[t] # NoOut =>
              /\ out[t].id \in Ids /\ out[t].id \in Composing /\ out[t].when \in Nat
              /\ out[t] \in [id : Ids, when : Nat]
  BY DEF OInv, Shapes, Outs, Composing

LEMMA ObtainFacts ==
    ASSUME OInv, NEW m \in Ids, Obtain(m)
    PROVE  /\ m \in Free /\ Free' = Free \ {m}
           /\ fresh' \subseteq Static /\ pool' \subseteq Static /\ live' \subseteq Heap
           /\ fresh' \cap pool' = {}
  <1>1. m \in Free
    BY DEF Obtain, Obtainable, Free
  <1>2. /\ fresh' = fresh \ {m} /\ pool' = pool \ {m}
        /\ live' = IF m \in Heap THEN live \cup {m} ELSE live
    BY DEF Obtain
  <1>3. Free' = Free \ {m}
    BY <1>2, NullIsNoMessage DEF Free, OInv, Shapes, Ids
  <1> QED BY <1>1, <1>2, <1>3 DEF OInv, Shapes, Ids

LEMMA RecycleFacts ==
    ASSUME OInv, NEW m \in Ids, m \notin Free, Recycle(m)
    PROVE  /\ Free' = Free \cup {m}
           /\ fresh' \subseteq Static /\ pool' \subseteq Static /\ live' \subseteq Heap
           /\ fresh' \cap pool' = {}
  <1>1. /\ fresh' = fresh /\ live' = live \ {m}
        /\ pool' = IF m \in Heap THEN pool ELSE pool \cup {m}
    BY DEF Recycle
  <1>2. Free' = Free \cup {m}
    BY <1>1, NullIsNoMessage DEF Free, OInv, Shapes, Ids
  <1> QED BY <1>1, <1>2, NullIsNoMessage DEF OInv, Shapes, Ids, Free

\* A thread begins to send: a free message becomes its own.
LEMMA ComposeOwns ==
    ASSUME OInv, NEW t \in Threads, NEW m \in Ids, NEW fields, NEW d \in Delays \cup {AtFront},
           Compose(t, m, fields, d)
    PROVE  OInv'
  <1>1. /\ out[t] = NoOut /\ UNCHANGED <<queue, loop, current, now>>
        /\ out' = [out EXCEPT ![t] = [id |-> m, when |-> IF d = AtFront THEN 0 ELSE now + d]]
        /\ Obtain(m)
    BY DEF Compose, Calls, loopVars
  <1> DEFINE o == [id |-> m, when |-> IF d = AtFront THEN 0 ELSE now + d]
  <1>2. o \in [id : Ids, when : Nat] /\ o.id = m
    BY LoopConstants DEF OInv, Shapes
  <1>3. o # NoOut /\ o \in Outs
    BY <1>2, NullIsNoMessage DEF Outs
  <1> HIDE DEF o
  <1>4. /\ out' \in [Threads -> Outs] /\ out'[t] = o
        /\ \A u \in Threads : u # t => out'[u] = out[u]
    BY <1>1, <1>3 DEF OInv, Shapes, o
  <1>5. m \in Free /\ Free' = Free \ {m} /\ m \notin Composing
    BY <1>1, ObtainFacts DEF OInv, Owners
  <1>6. Composing' = Composing \cup {m}
    BY <1>1, <1>2, <1>3, <1>4 DEF Composing
  <1>7. \A u, v \in Threads : out'[u] # NoOut /\ out'[u].id = out'[v].id => u = v
    <2>1. \A u \in Threads : u # t /\ out[u] # NoOut => out[u].id # m
      BY <1>5, OutFacts
    <2>2. \A u \in Threads : out[u] = NoOut => out[u].id # m
      BY NullIsNoMessage
    <2> QED BY <1>2, <1>4, <2>1, <2>2 DEF OInv, Shapes
  <1>8. Shapes'
    BY <1>1, <1>4, <1>7, ObtainFacts DEF OInv, Shapes, Distinct
  <1>9. Owners(Free', ToSet(queue), Composing', current)
    BY <1>5, <1>6 DEF OInv, Owners
  <1> QED BY <1>1, <1>8, <1>9 DEF OInv, Owners

\* The place enqueueMessage finds, and what the list is afterwards.
LEMMA EnqueueFacts ==
    ASSUME OInv, NEW t \in Threads, EnqueueMessage(t)
    PROVE  /\ out[t] # NoOut /\ out[t].id \in Ids /\ out[t].id \notin ToSet(queue)
           /\ out' = [out EXCEPT ![t] = NoOut]
           /\ \E p \in 1 .. Len(queue) + 1 :
                IsPlace(p, out[t].when) /\ queue' = InsertAt(queue, p, out[t].id)
           /\ queue' \in Seq(Ids) /\ Distinct(queue') /\ queue' # <<>>
           /\ ToSet(queue') = ToSet(queue) \cup {out[t].id}
  <1>1. /\ out[t] # NoOut /\ out' = [out EXCEPT ![t] = NoOut]
        /\ \E p \in 1 .. Len(queue) + 1 :
             IsPlace(p, out[t].when) /\ queue' = InsertAt(queue, p, out[t].id)
    BY DEF EnqueueMessage
  <1>2. out[t].id \in Ids /\ out[t].id \notin ToSet(queue)
    BY <1>1, OutFacts DEF OInv, Owners
  <1>3. /\ queue' \in Seq(Ids) /\ Distinct(queue') /\ queue' # <<>>
        /\ ToSet(queue') = ToSet(queue) \cup {out[t].id}
    BY <1>1, <1>2, InsertedFacts DEF OInv, Shapes
  <1> QED BY <1>1, <1>2, <1>3

LEMMA EnqueueOwns ==
    ASSUME OInv, NEW t \in Threads, EnqueueMessage(t)
    PROVE  OInv'
  <1> DEFINE m == out[t].id
  <1>1. /\ UNCHANGED <<fresh, pool, live, current, now>>
        /\ loop' = IF loop = "wait" THEN "next" ELSE loop
    BY DEF EnqueueMessage, poolVars, Signal
  <1>2. /\ out[t] # NoOut /\ m \in Composing /\ m \in Ids
        /\ out' = [out EXCEPT ![t] = NoOut]
        /\ queue' \in Seq(Ids) /\ Distinct(queue') /\ ToSet(queue') = ToSet(queue) \cup {m}
    BY EnqueueFacts, OutFacts
  <1>3. /\ out' \in [Threads -> Outs] /\ out'[t] = NoOut
        /\ \A u \in Threads : u # t => out'[u] = out[u]
    BY <1>2 DEF OInv, Shapes, Outs
  <1>4. Composing' = Composing \ {m}
    <2>1. \A u \in Threads : u # t /\ out[u] # NoOut => out[u].id # m
      BY <1>2 DEF OInv, Shapes
    <2> QED BY <1>3, <2>1 DEF Composing
  <1>5. \A u, v \in Threads : out'[u] # NoOut /\ out'[u].id = out'[v].id => u = v
    BY <1>3, OutFacts, NullIsNoMessage DEF OInv, Shapes
  <1>6. loop' \in {"unstarted", "next", "poll", "wait", "dispatch"} /\ loop' # "wait"
        /\ (current # Null <=> loop' = "dispatch")
    BY <1>1 DEF OInv, Shapes
  <1>7. Distinct(queue)'
    BY <1>2 DEF Distinct
  <1>8. Shapes'
    BY <1>1, <1>2, <1>3, <1>5, <1>6, <1>7 DEF OInv, Shapes
  <1>9. Owners(Free, ToSet(queue'), Composing', current)
    BY <1>2, <1>4 DEF OInv, Owners
  <1>10. Owners(Free, ToSet(queue), Composing, current)'
    BY <1>1, <1>9 DEF Free, Owners, ToSet
  <1> QED BY <1>8, <1>10 DEF OInv

\* One message goes from the list to the free ones; the others keep their order.
LEMMA RemoveOneFacts ==
    ASSUME OInv, RemoveOne
    PROVE  \E j \in 1 .. Len(queue) :
              /\ queue[j] \in doomed /\ queue[j] \in ToSet(queue) /\ queue[j] \in Ids
              /\ queue' = RemoveAt(queue, j) /\ Recycle(queue[j])
              /\ doomed' = doomed \ {queue[j]}
              /\ holder' = IF doomed = {queue[j]} THEN Null ELSE holder
              /\ queue' \in Seq(Ids) /\ Distinct(queue')
              /\ ToSet(queue') = ToSet(queue) \ {queue[j]}
  <1>1. PICK j \in 1 .. Len(queue) :
              /\ queue[j] \in doomed
              /\ queue' = RemoveAt(queue, j) /\ Recycle(queue[j])
              /\ doomed' = doomed \ {queue[j]}
              /\ holder' = IF doomed = {queue[j]} THEN Null ELSE holder
    BY DEF RemoveOne
  <1>2. queue[j] \in ToSet(queue) /\ queue[j] \in Ids
    BY IndexFacts DEF OInv, Shapes
  <1>3. queue' \in Seq(Ids) /\ Distinct(queue') /\ ToSet(queue') = ToSet(queue) \ {queue[j]}
    BY <1>1, RemovedFacts DEF OInv, Shapes
  <1> QED BY <1>1, <1>2, <1>3

LEMMA RemoveOneOwns ==
    ASSUME OInv, RemoveOne
    PROVE  OInv'
  <1>1. PICK m \in Ids :
           /\ m \in ToSet(queue) /\ Recycle(m)
           /\ queue' \in Seq(Ids) /\ Distinct(queue')
           /\ ToSet(queue') = ToSet(queue) \ {m}
    BY RemoveOneFacts
  <1>2. UNCHANGED <<loop, current, out, now>>
    BY DEF RemoveOne, loopVars
  <1>3. m \notin Free
    BY <1>1 DEF OInv, Owners
  <1>4. loop # "wait"
    <2>1. queue # <<>>
      <3>1. ToSet(<<>>) = {}
        BY DEF ToSet
      <3> QED BY <1>1, <3>1
    <2> QED BY <2>1 DEF OInv, Shapes
  <1>5. Composing' = Composing
    BY <1>2 DEF Composing
  <1>6. Shapes'
    BY <1>1, <1>2, <1>3, <1>4, RecycleFacts DEF OInv, Shapes, Distinct
  <1>7. Owners(Free', ToSet(queue'), Composing', current')
    BY <1>1, <1>2, <1>3, <1>5, RecycleFacts DEF OInv, Owners
  <1> QED BY <1>6, <1>7 DEF OInv, Owners, ToSet

\* The loop takes the first message.
LEMMA PullFacts ==
    ASSUME OInv, Pull
    PROVE  /\ queue # <<>> /\ queue' = RemoveAt(queue, 1) /\ current' = queue[1]
           /\ 1 \in 1 .. Len(queue) /\ queue[1] \in ToSet(queue) /\ queue[1] \in Ids
           /\ queue' \in Seq(Ids) /\ Distinct(queue')
           /\ ToSet(queue') = ToSet(queue) \ {queue[1]}
           /\ loop' = "dispatch"
  <1>1. queue # <<>> /\ current' = Head(queue) /\ queue' = Tail(queue) /\ loop' = "dispatch"
    BY DEF Pull
  <1>2. queue' = RemoveAt(queue, 1) /\ current' = queue[1] /\ 1 \in 1 .. Len(queue)
    BY <1>1, TailIsRemoval DEF OInv, Shapes
  <1>3. queue[1] \in ToSet(queue) /\ queue[1] \in Ids
    BY <1>2, IndexFacts DEF OInv, Shapes
  <1>4. queue \in Seq(Ids) /\ Distinct(queue)
    BY DEF OInv, Shapes
  <1>5. /\ queue' \in Seq(Ids) /\ Distinct(queue')
        /\ ToSet(queue') = ToSet(queue) \ {queue[1]}
    BY <1>2, <1>4, RemovedFacts
  <1> QED BY <1>1, <1>2, <1>3, <1>5

LEMMA PullOwns ==
    ASSUME OInv, Pull
    PROVE  OInv'
  <1>1. UNCHANGED <<fresh, pool, live, out, now>> /\ loop = "next"
    BY DEF Pull, poolVars, sendVars
  <1>2. Free' = Free /\ Composing' = Composing
    BY <1>1 DEF Free, Composing
  <1>3. current = Null
    BY <1>1 DEF OInv, Shapes
  <1>4. Shapes'
    BY <1>1, PullFacts, NullIsNoMessage DEF OInv, Shapes, Distinct
  <1>5. Owners(Free', ToSet(queue'), Composing', current')
    BY <1>2, <1>3, PullFacts, NullIsNoMessage DEF OInv, Owners
  <1> QED BY <1>4, <1>5 DEF OInv, Owners, ToSet

\* The dispatched message is recycled.
LEMMA DispatchedOwns ==
    ASSUME OInv, Dispatched
    PROVE  OInv'
  <1>1. /\ loop = "dispatch" /\ loop' = "next" /\ current' = Null /\ Recycle(current)
        /\ UNCHANGED <<queue, out, now>>
    BY DEF Dispatched
  <1>2. current \in Ids /\ current \notin Free
    BY <1>1 DEF OInv, Shapes, Owners
  <1>3. Composing' = Composing /\ ToSet(queue') = ToSet(queue)
    BY <1>1 DEF Composing
  <1>4. Shapes'
    BY <1>1, <1>2, RecycleFacts DEF OInv, Shapes, Distinct
  <1>5. Null \notin ToSet(queue) \cup Composing \cup Free
    <2>1. ToSet(queue) \subseteq Ids /\ Composing \subseteq Ids /\ Free \subseteq Ids
      BY IndexFacts, OutFacts DEF OInv, Shapes, Composing, Free, Ids
    <2> QED BY <2>1, NullIsNoMessage
  <1>6. Owners(Free', ToSet(queue'), Composing', current')
    BY <1>1, <1>2, <1>3, <1>5, RecycleFacts, NullIsNoMessage DEF OInv, Owners
  <1> QED BY <1>4, <1>6 DEF OInv, Owners, ToSet

\* Steps that move no message.
LEMMA OthersOwn ==
    ASSUME OInv, UNCHANGED <<fresh, pool, live, queue, out, current>>,
           loop' \in {"unstarted", "next", "poll", "wait", "dispatch"},
           loop' = "dispatch" <=> loop = "dispatch", loop' = "wait" => queue = <<>>,
           now' \in Nat, now' > 0
    PROVE  OInv'
  <1>1. Free' = Free /\ Composing' = Composing
    BY DEF Free, Composing
  <1>2. Shapes'
    BY DEF OInv, Shapes, Distinct
  <1>3. Owners(Free', ToSet(queue'), Composing', current')
    BY <1>1 DEF OInv, Owners
  <1> QED BY <1>2, <1>3 DEF OInv, Owners, ToSet

LEMMA OwnersInit == Init => OInv
  <1> SUFFICES ASSUME Init
               PROVE  OInv
    OBVIOUS
  <1>1. /\ fresh = Static /\ pool = {} /\ live = {} /\ queue = <<>> /\ loop = "unstarted"
        /\ current = Null /\ out = [t \in Threads |-> NoOut] /\ now = 1
    BY DEF Init
  <1>2. queue \in Seq(Ids) /\ DOMAIN queue = {} /\ ToSet(queue) = {}
    BY <1>1, EmptySeq, IndexFacts DEF ToSet
  <1>3. Composing = {}
    BY <1>1 DEF Composing
  <1>4. Free = Ids
    BY <1>1 DEF Free, Ids
  <1>5. Shapes
    BY <1>1, <1>2 DEF Shapes, Distinct, Outs
  <1>6. Owners(Free, ToSet(queue), Composing, current)
    BY <1>1, <1>2, <1>3, <1>4, NullIsNoMessage DEF Owners
  <1> QED BY <1>5, <1>6 DEF OInv

\* However a message is filled, a send is a Compose.
LEMMA SendIsCompose ==
    ASSUME NEW t \in Threads, Send(t)
    PROVE  \E m \in Ids, d \in Delays \cup {AtFront} : \E fields : Compose(t, m, fields, d)
  <1>1. PICK h \in Handlers, d \in Delays \cup {AtFront} :
          \/ \E w \in Whats, a \in Args, o \in Objs \cup {Null} : SendMessage(t, h, w, a, o, d)
          \/ \E w \in Whats : SendEmptyMessage(t, h, w, d)
          \/ \E r \in Runs, o \in Objs \cup {Null} : Post(t, h, r, o, d)
    BY DEF Send
  <1>2. CASE \E w \in Whats, a \in Args, o \in Objs \cup {Null} : SendMessage(t, h, w, a, o, d)
    BY <1>2 DEF SendMessage
  <1>3. CASE \E w \in Whats : SendEmptyMessage(t, h, w, d)
    BY <1>3 DEF SendEmptyMessage
  <1>4. CASE \E r \in Runs, o \in Objs \cup {Null} : Post(t, h, r, o, d)
    BY <1>4 DEF Post
  <1> QED BY <1>1, <1>2, <1>3, <1>4

LEMMA OwnersStep == OInv /\ [Next]_vars => OInv'
  <1> SUFFICES ASSUME OInv, [Next]_vars
               PROVE  OInv'
    OBVIOUS
  <1>0. now \in Nat /\ now > 0 /\ loop \in {"unstarted", "next", "poll", "wait", "dispatch"}
        /\ (loop = "wait" => queue = <<>>)
    BY DEF OInv, Shapes
  <1>1. CASE UNCHANGED vars
    BY <1>0, <1>1, OthersOwn DEF vars, poolVars, loopVars, sendVars
  <1>2. ASSUME NEW t \in Threads, Send(t)
        PROVE  OInv'
    BY <1>2, SendIsCompose, ComposeOwns
  <1>3. ASSUME NEW t \in Threads, EnqueueMessage(t)
        PROVE  OInv'
    BY <1>3, EnqueueOwns
  <1>4. ASSUME NEW t \in Threads, RemoveMessages(t)
        PROVE  OInv'
    BY <1>0, <1>4, OthersOwn
    DEF RemoveMessages, RemoveWhat, RemoveCode, RemoveCallbacks, RemoveCallbacksAndMessages,
        RemoveBegin, poolVars, loopVars, sendVars
  <1>5. ASSUME NEW h \in Handlers, Destroy(h)
        PROVE  OInv'
    BY <1>0, <1>5, OthersOwn DEF Destroy, RemoveBegin, poolVars, loopVars, sendVars
  <1>6. CASE Start \/ PollSleep \/ PollWake \/ Wait \/ Spurious
    BY <1>0, <1>6, OthersOwn
    DEF Start, PollSleep, PollWake, Wait, Spurious, poolVars, loopVars, sendVars
  <1>7. CASE Tick
    BY <1>0, <1>7, OthersOwn DEF Tick, poolVars, loopVars, sendVars
  <1> QED
    BY <1>1, <1>2, <1>3, <1>4, <1>5, <1>6, <1>7, RemoveOneOwns, PullOwns, DispatchedOwns
    DEF Next, LoopThread

LEMMA OwnersInvariance == Spec => []OInv
  BY OwnersInit, OwnersStep, PTL DEF Spec

\* A message is never in two hands nor lost between two, for any number of
\* threads, messages and sends.
THEOREM OneHandAtATime == Spec => []OneOwner
  <1>1. OInv => OneOwner
    <2> SUFFICES ASSUME OInv
                 PROVE  OneOwner
      OBVIOUS
    <2>1. Static \cup live = fresh \cup pool \cup ToSet(queue) \cup Composing \cup ({current} \ {Null})
      BY NullIsNoMessage DEF OInv, Shapes, Owners, Free, Ids
    <2> QED BY <2>1 DEF OInv, Shapes, Owners, Free, OneOwner, Distinct
  <1> QED BY <1>1, OwnersInvariance, PTL

\* The loop does not wait on its condition variable while a message is queued.
THEOREM WakeupsReachTheLoop == Spec => []NoLostWakeup
  <1>1. OInv => NoLostWakeup
    BY DEF OInv, Shapes, NoLostWakeup
  <1> QED BY <1>1, OwnersInvariance, PTL

-----------------------------------------------------------------------------
(* Types.                                                                  *)

Asks == [by : Threads \cup {Null}, delay : Delays \cup {AtFront, 0}, nth : Nat]

\* What ownership says nothing about.
Kinds ==
    /\ msg \in [Ids -> Fields]
    /\ wakeAt \in Nat
    /\ holder \in Threads \cup {Null} /\ doomed \subseteq Ids
    /\ alive \subseteq Handlers
    /\ ask \in [Ids -> Asks]

LEMMA ClearedKind ==
    ASSUME msg \in [Ids -> Fields], NEW m \in Ids
    PROVE  Cleared(m) \in Fields
  <1>1. Blank \in Fields
    BY LoopConstants DEF Blank, Fields
  <1>2. msg[m] \in Fields
    OBVIOUS
  <1>3. [msg[m] EXCEPT !.target = Null, !.obj = Null, !.callback = Null, !.when = 0] \in Fields
    BY <1>2 DEF Fields
  <1> QED BY <1>1, <1>3 DEF Cleared

LEMMA RecycledKinds ==
    ASSUME msg \in [Ids -> Fields], ask \in [Ids -> Asks], NEW m \in Ids, Recycle(m)
    PROVE  /\ msg' \in [Ids -> Fields] /\ ask' \in [Ids -> Asks]
           /\ msg' = [msg EXCEPT ![m] = Cleared(m)] /\ ask' = [ask EXCEPT ![m] = NoAsk]
           /\ \A n \in Ids : n # m => msg'[n] = msg[n] /\ ask'[n] = ask[n]
  <1>1. msg' = [msg EXCEPT ![m] = Cleared(m)] /\ ask' = [ask EXCEPT ![m] = NoAsk]
    BY DEF Recycle
  <1>2. NoAsk \in Asks
    BY DEF NoAsk, Asks
  <1> QED BY <1>1, <1>2, ClearedKind

LEMMA SendFills ==
    ASSUME msg \in [Ids -> Fields], NEW t \in Threads, Send(t)
    PROVE  \E m \in Ids, d \in Delays \cup {AtFront}, fields \in Fields : Compose(t, m, fields, d)
  <1>1. PICK h \in Handlers, d \in Delays \cup {AtFront} :
          \/ \E w \in Whats, a \in Args, o \in Objs \cup {Null} : SendMessage(t, h, w, a, o, d)
          \/ \E w \in Whats : SendEmptyMessage(t, h, w, d)
          \/ \E r \in Runs, o \in Objs \cup {Null} : Post(t, h, r, o, d)
    BY DEF Send
  <1>2. ASSUME NEW w \in Whats, NEW a \in Args, NEW o \in Objs \cup {Null}, SendMessage(t, h, w, a, o, d)
        PROVE  \E m \in Ids, fields \in Fields : Compose(t, m, fields, d)
    <2>1. PICK m \in Ids :
            Compose(t, m, [msg[m] EXCEPT !.target = h, !.what = w, !.arg = a, !.obj = o], d)
      BY <1>2 DEF SendMessage
    <2>2. [msg[m] EXCEPT !.target = h, !.what = w, !.arg = a, !.obj = o] \in Fields
      BY DEF Fields
    <2> QED BY <2>1, <2>2
  <1>3. ASSUME NEW w \in Whats, SendEmptyMessage(t, h, w, d)
        PROVE  \E m \in Ids, fields \in Fields : Compose(t, m, fields, d)
    <2>1. PICK m \in Ids : Compose(t, m, [msg[m] EXCEPT !.target = h, !.what = w], d)
      BY <1>3 DEF SendEmptyMessage
    <2>2. [msg[m] EXCEPT !.target = h, !.what = w] \in Fields
      BY DEF Fields
    <2> QED BY <2>1, <2>2
  <1>4. ASSUME NEW r \in Runs, NEW o \in Objs \cup {Null}, Post(t, h, r, o, d)
        PROVE  \E m \in Ids, fields \in Fields : Compose(t, m, fields, d)
    <2>1. PICK m \in Ids : Compose(t, m, [msg[m] EXCEPT !.target = h, !.callback = r, !.obj = o], d)
      BY <1>4 DEF Post
    <2>2. [msg[m] EXCEPT !.target = h, !.callback = r, !.obj = o] \in Fields
      BY DEF Fields
    <2> QED BY <2>1, <2>2
  <1> QED BY <1>1, <1>2, <1>3, <1>4

\* What a send does to the records.
LEMMA ComposeFacts ==
    ASSUME OInv, Kinds, NEW t \in Threads, NEW m \in Ids, NEW fields \in Fields,
           NEW d \in Delays \cup {AtFront}, Compose(t, m, fields, d)
    PROVE  /\ Kinds' /\ m \in Free
           /\ out[t] = NoOut /\ out'[t] # NoOut /\ out'[t].id = m
           /\ out'[t].when = IF d = AtFront THEN 0 ELSE now + d
           /\ \A u \in Threads : u # t => out'[u] = out[u]
           /\ msg'[m] = fields /\ fields.target \in alive
           /\ ask'[m].by = t /\ ask'[m].delay = d
           /\ \A n \in Ids : ask[n].by = t => ask[n].nth < ask'[m].nth
           /\ \A n \in Ids : n # m => msg'[n] = msg[n] /\ ask'[n] = ask[n]
           /\ UNCHANGED <<queue, alive, now, holder, doomed>>
  <1>1. /\ out[t] = NoOut /\ fields.target \in alive /\ m \in Free
        /\ UNCHANGED <<queue, alive, now, holder, doomed, wakeAt>>
    BY ObtainFacts DEF Compose, Calls, loopVars, removeVars
  <1>2. PICK turn \in Nat :
          /\ out' = [out EXCEPT ![t] = [id |-> m, when |-> IF d = AtFront THEN 0 ELSE now + d]]
          /\ msg' = [msg EXCEPT ![m] = fields]
          /\ IsTurn(t, turn)
          /\ ask' = [ask EXCEPT ![m] = [by |-> t, delay |-> d, nth |-> turn]]
    <2>1. \A turn \in 0 .. MaxTurn : turn \in Nat
      OBVIOUS
    <2> QED BY <2>1 DEF Compose
  <1>3. [by |-> t, delay |-> d, nth |-> turn] \in Asks
    BY DEF Asks
  <1>4. /\ msg' \in [Ids -> Fields] /\ msg'[m] = fields
        /\ ask' \in [Ids -> Asks] /\ ask'[m] = [by |-> t, delay |-> d, nth |-> turn]
        /\ \A n \in Ids : n # m => msg'[n] = msg[n] /\ ask'[n] = ask[n]
    BY <1>2, <1>3 DEF Kinds
  <1>5. /\ ask'[m].by = t /\ ask'[m].delay = d
        /\ \A n \in Ids : ask[n].by = t => ask[n].nth < ask'[m].nth
    BY <1>2, <1>4 DEF IsTurn
  <1>6. /\ out'[t].id = m /\ out'[t].when = IF d = AtFront THEN 0 ELSE now + d
        /\ \A u \in Threads : u # t => out'[u] = out[u]
    BY <1>2 DEF OInv, Shapes
  <1>7. out'[t] # NoOut
    BY <1>6, NullIsNoMessage
  <1>8. Kinds'
    BY <1>1, <1>4 DEF Kinds
  <1> QED BY <1>1, <1>4, <1>5, <1>6, <1>7, <1>8

\* What an insertion does to the records.
LEMMA EnqueueRecords ==
    ASSUME OInv, Kinds, NEW t \in Threads, EnqueueMessage(t)
    PROVE  /\ Kinds' /\ holder = Null /\ out'[t] = NoOut
           /\ \A u \in Threads : u # t => out'[u] = out[u]
           /\ msg'[out[t].id].when = out[t].when
           /\ msg'[out[t].id].target = msg[out[t].id].target
           /\ \A n \in Ids : n # out[t].id => msg'[n] = msg[n]
           /\ UNCHANGED <<current, ask, alive, now, holder, doomed>>
  <1> DEFINE m == out[t].id
  <1>1. /\ m \in Ids /\ out[t].when \in Nat /\ holder = Null
        /\ out' = [out EXCEPT ![t] = NoOut]
        /\ msg' = [msg EXCEPT ![m].when = out[t].when]
        /\ UNCHANGED <<current, wakeAt, ask, alive, now, holder, doomed>>
    BY OutFacts DEF EnqueueMessage, MutexFree, removeVars
  <1>2. out'[t] = NoOut /\ \A u \in Threads : u # t => out'[u] = out[u]
    BY <1>1 DEF OInv, Shapes
  <1>3. msg[m] \in Fields
    BY <1>1 DEF Kinds
  <1>4. [msg[m] EXCEPT !.when = out[t].when] \in Fields
    BY <1>1, <1>3 DEF Fields
  <1>5. msg' = [msg EXCEPT ![m] = [msg[m] EXCEPT !.when = out[t].when]]
    BY <1>1
  <1> HIDE DEF m
  <1>6. /\ msg'[m] = [msg[m] EXCEPT !.when = out[t].when]
        /\ \A n \in Ids : n # m => msg'[n] = msg[n]
        /\ msg' \in [Ids -> Fields]
    BY <1>1, <1>4, <1>5 DEF Kinds
  <1>7. msg'[m].when = out[t].when /\ msg'[m].target = msg[m].target
    BY <1>3, <1>6 DEF Fields
  <1>8. Kinds'
    BY <1>1, <1>6 DEF Kinds
  <1> QED BY <1>1, <1>2, <1>6, <1>7, <1>8 DEF m

\* Whatever a removal looks for, it finds it in the list and takes the lock.
LEMMA RemovalFacts ==
    ASSUME NEW t \in Threads, RemoveMessages(t)
    PROVE  /\ holder = Null /\ holder' = t /\ doomed' \subseteq ToSet(queue)
           /\ UNCHANGED <<msg, fresh, pool, live, queue, loop, current, wakeAt, out, ask, alive, now>>
  BY DEF RemoveMessages, RemoveWhat, RemoveCode, RemoveCallbacks, RemoveCallbacksAndMessages,
         RemoveBegin, MutexFree, ByWhat, ByCode, ByCallback, OfHandler, poolVars, loopVars, sendVars

\* A handler goes with all that is queued for it.
LEMMA DestroyFacts ==
    ASSUME NEW h \in Handlers, Destroy(h)
    PROVE  /\ holder = Null /\ out[Loop] = NoOut
           /\ \A t \in Senders : out[t] # NoOut => msg[out[t].id].target # h
           /\ alive' = alive \ {h}
           /\ \/ holder' = Loop
              \/ UNCHANGED <<holder, doomed>> /\ OfHandler(h, Null) = {}
           /\ holder' = Loop => doomed' = OfHandler(h, Null)
           /\ OfHandler(h, Null) = {m \in ToSet(queue) : msg[m].target = h}
           /\ UNCHANGED <<msg, fresh, pool, live, queue, loop, current, wakeAt, out, ask, now>>
  <1>1. OfHandler(h, Null) = {m \in ToSet(queue) : msg[m].target = h}
    BY DEF OfHandler, ObjMatches
  <1>2. holder = Null /\ out[Loop] = NoOut
    BY DEF Destroy, RemoveBegin, Calls, MutexFree
  <1>3. Loop # Null
    BY LoopConstants
  <1> QED BY <1>1, <1>2, <1>3 DEF Destroy, RemoveBegin, poolVars, loopVars, sendVars, removeVars

LEMMA KindsInit == Init => Kinds
  <1>1. Blank \in Fields /\ NoAsk \in Asks
    BY LoopConstants DEF Blank, Fields, NoAsk, Asks
  <1> QED BY <1>1 DEF Init, Kinds

LEMMA QueuedAreMessages == ASSUME OInv PROVE ToSet(queue) \subseteq Ids
  BY IndexFacts DEF OInv, Shapes

LEMMA KindsStep == OInv /\ Kinds /\ [Next]_vars => Kinds'
  <1> SUFFICES ASSUME OInv, Kinds, [Next]_vars
               PROVE  Kinds'
    OBVIOUS
  <1>1. CASE UNCHANGED vars
    BY <1>1 DEF Kinds, vars, removeVars, sendVars
  <1>2. ASSUME NEW t \in Threads, Send(t)
        PROVE  Kinds'
    <2>1. msg \in [Ids -> Fields]
      BY DEF Kinds
    <2> QED BY <1>2, <2>1, SendFills, ComposeFacts
  <1>3. ASSUME NEW t \in Threads, EnqueueMessage(t)
        PROVE  Kinds'
    BY <1>3, EnqueueRecords
  <1>4. ASSUME NEW t \in Threads, RemoveMessages(t)
        PROVE  Kinds'
    BY <1>4, RemovalFacts, QueuedAreMessages DEF Kinds
  <1>5. ASSUME NEW h \in Handlers, Destroy(h)
        PROVE  Kinds'
    <2>1. /\ UNCHANGED <<msg, wakeAt, ask>> /\ alive' \subseteq Handlers
          /\ holder' \in Threads \cup {Null} /\ doomed' \subseteq Ids
      BY <1>5, DestroyFacts, QueuedAreMessages DEF Kinds, Threads
    <2> QED BY <2>1 DEF Kinds
  <1>6. CASE RemoveOne
    <2>1. PICK m \in Ids :
            /\ Recycle(m) /\ doomed' = doomed \ {m}
            /\ holder' = IF doomed = {m} THEN Null ELSE holder
      BY <1>6, RemoveOneFacts
    <2>2. UNCHANGED <<wakeAt, alive>>
      BY <1>6 DEF RemoveOne, loopVars
    <2>3. msg' \in [Ids -> Fields] /\ ask' \in [Ids -> Asks]
      BY <2>1, RecycledKinds DEF Kinds
    <2> QED BY <2>1, <2>2, <2>3 DEF Kinds
  <1>7. CASE Dispatched
    <2>1. /\ current \in Ids /\ Recycle(current)
          /\ UNCHANGED <<wakeAt, alive, holder, doomed>>
      BY <1>7 DEF Dispatched, OInv, Shapes, removeVars
    <2>2. msg' \in [Ids -> Fields] /\ ask' \in [Ids -> Asks]
      BY <2>1, RecycledKinds DEF Kinds
    <2> QED BY <2>1, <2>2 DEF Kinds
  <1>8. CASE PollSleep
    <2>1. wakeAt' \in Nat /\ UNCHANGED <<msg, holder, doomed, alive, ask>>
      BY <1>8, LoopConstants DEF PollSleep, OInv, Shapes, removeVars, sendVars
    <2> QED BY <2>1 DEF Kinds
  <1>9. CASE Start \/ Pull \/ PollWake \/ Wait \/ Spurious \/ Tick
    <2>1. wakeAt' \in Nat /\ UNCHANGED <<msg, holder, doomed, alive, ask>>
      BY <1>9 DEF Start, Pull, PollWake, Wait, Spurious, Tick, Kinds, removeVars, sendVars, loopVars
    <2> QED BY <2>1 DEF Kinds
  <1> QED
    BY <1>1, <1>2, <1>3, <1>4, <1>5, <1>6, <1>7, <1>8, <1>9 DEF Next, LoopThread

LEMMA KindsInvariance == Spec => [](OInv /\ Kinds)
  <1>1. Init => OInv /\ Kinds
    BY OwnersInit, KindsInit
  <1>2. (OInv /\ Kinds) /\ [Next]_vars => (OInv /\ Kinds)'
    BY OwnersStep, KindsStep
  <1> QED BY <1>1, <1>2, PTL DEF Spec

\* Every variable keeps to its type, the list to a list of messages.
THEOREM TypeCorrect == Spec => []TypeOK
  <1>1. OInv /\ Kinds => TypeOK
    <2> SUFFICES ASSUME OInv, Kinds
                 PROVE  TypeOK
      OBVIOUS
    <2>1. out \in [Threads -> [id : Ids \cup {Null}, when : Nat]]
      <3>1. Outs \subseteq [id : Ids \cup {Null}, when : Nat]
        BY DEF Outs, NoOut
      <3> QED BY <3>1 DEF OInv, Shapes
    <2>2. ask \in [Ids -> [by : Threads \cup {Null}, delay : Delays \cup {AtFront, 0}, nth : Nat]]
      BY DEF Kinds, Asks
    <2> QED BY <2>1, <2>2 DEF TypeOK, OInv, Shapes, Kinds
  <1> QED BY <1>1, KindsInvariance, PTL

-----------------------------------------------------------------------------
(* No message outlives the handler it is for.                              *)

Targets ==
    /\ \A t \in Threads : out[t] # NoOut => msg[out[t].id].target \in alive
    /\ holder = Null => doomed = {}
    /\ \A m \in ToSet(queue) : msg[m].target \in alive \/ m \in doomed

LEMMA Apart ==
    ASSUME OInv
    PROVE  /\ \A t \in Threads : out[t] # NoOut => out[t].id \notin ToSet(queue) \cup Free \cup {current}
           /\ ToSet(queue) \cap Free = {} /\ current \notin ToSet(queue)
  BY OutFacts DEF OInv, Owners

LEMMA TargetsStep == OInv /\ Kinds /\ Targets /\ [Next]_vars => Targets'
  <1> SUFFICES ASSUME OInv, Kinds, Targets, [Next]_vars
               PROVE  Targets'
    OBVIOUS
  <1>0. /\ msg \in [Ids -> Fields] /\ ask \in [Ids -> Asks]
        /\ ToSet(queue) \subseteq Ids
        /\ \A t \in Threads : out[t] # NoOut => out[t].id \in Ids
    BY QueuedAreMessages, OutFacts DEF Kinds
  <1>1. CASE UNCHANGED <<msg, queue, out, alive, holder, doomed>>
    BY <1>1 DEF Targets, ToSet
  <1>2. ASSUME NEW t \in Threads, Send(t)
        PROVE  Targets'
    <2>1. PICK m \in Ids, d \in Delays \cup {AtFront}, fields \in Fields : Compose(t, m, fields, d)
      BY <1>0, <1>2, SendFills
    <2>2. /\ m \in Free /\ out'[t].id = m /\ msg'[m] = fields /\ fields.target \in alive
          /\ UNCHANGED <<queue, alive, holder, doomed>>
      BY <2>1, ComposeFacts
    <2>5. \A u \in Threads : u # t => out'[u] = out[u]
      BY <2>1, ComposeFacts, Zenon
    <2>6. \A n \in Ids : n # m => msg'[n] = msg[n]
      BY <2>1 DEF Compose, Kinds
    <2>3. \A u \in Threads : out'[u] # NoOut => msg'[out'[u].id].target \in alive
      BY <1>0, <2>2, <2>5, <2>6, Apart DEF Targets
    <2>4. \A n \in ToSet(queue) : msg'[n].target \in alive \/ n \in doomed
      BY <1>0, <2>2, <2>6, Apart DEF Targets
    <2> QED BY <2>2, <2>3, <2>4 DEF Targets, ToSet
  <1>3. ASSUME NEW t \in Threads, EnqueueMessage(t)
        PROVE  Targets'
    <2>1. /\ out[t] # NoOut /\ out[t].id \in Ids /\ holder = Null /\ out'[t] = NoOut
          /\ \A u \in Threads : u # t => out'[u] = out[u]
          /\ msg'[out[t].id].target = msg[out[t].id].target
          /\ \A n \in Ids : n # out[t].id => msg'[n] = msg[n]
          /\ UNCHANGED <<alive, holder, doomed>>
          /\ ToSet(queue') = ToSet(queue) \cup {out[t].id}
      BY <1>3, EnqueueRecords, EnqueueFacts
    <2>2. \A u \in Threads : out'[u] # NoOut => msg'[out'[u].id].target \in alive
      BY <1>0, <2>1 DEF Targets
    <2>3. \A n \in ToSet(queue') : msg'[n].target \in alive \/ n \in doomed
      BY <1>0, <2>1 DEF Targets
    <2> QED BY <2>1, <2>2, <2>3 DEF Targets, ToSet
  <1>4. ASSUME NEW t \in Threads, RemoveMessages(t)
        PROVE  Targets'
    <2>1. /\ holder = Null /\ holder' = t /\ t # Null
          /\ UNCHANGED <<msg, queue, out, alive>>
      BY <1>4, RemovalFacts, LoopConstants DEF Threads
    <2> QED BY <2>1 DEF Targets, ToSet
  <1>5. ASSUME NEW h \in Handlers, Destroy(h)
        PROVE  Targets'
    <2> DEFINE For == {m \in ToSet(queue) : msg[m].target = h}
    <2>0. /\ out[Loop] = NoOut /\ \A t \in Senders : out[t] # NoOut => msg[out[t].id].target # h
          /\ UNCHANGED <<msg, queue, out>> /\ alive' = alive \ {h}
          /\ holder = Null
          /\ holder' = Loop \/ (UNCHANGED <<holder, doomed>> /\ OfHandler(h, Null) = {})
          /\ holder' = Loop => doomed' = OfHandler(h, Null)
          /\ OfHandler(h, Null) = For
      BY <1>5, DestroyFacts
    <2>1. /\ \A t \in Threads : out[t] # NoOut => msg[out[t].id].target # h
          /\ UNCHANGED <<msg, queue, out>> /\ alive' = alive \ {h}
          /\ holder = Null /\ Loop # Null
          /\ \/ holder' = Loop /\ doomed' = For
             \/ UNCHANGED <<holder, doomed>> /\ For = {}
      BY <2>0, LoopConstants DEF Threads
    <2>2. \A m \in ToSet(queue) : msg[m].target \in alive
      BY <2>1 DEF Targets
    <2>3. \A m \in ToSet(queue) : msg[m].target \in alive' \/ m \in doomed'
      BY <2>1, <2>2
    <2>4. holder' = Null => doomed' = {}
      BY <2>1 DEF Targets
    <2> QED BY <2>1, <2>3, <2>4 DEF Targets, ToSet
  <1>6. CASE RemoveOne
    <2>1. PICK m \in Ids :
            /\ m \in ToSet(queue) /\ Recycle(m) /\ ToSet(queue') = ToSet(queue) \ {m}
            /\ doomed' = doomed \ {m} /\ holder' = IF doomed = {m} THEN Null ELSE holder
            /\ holder # Null
      BY <1>6, RemoveOneFacts DEF RemoveOne
    <2>2. UNCHANGED <<out, alive>> /\ \A n \in Ids : n # m => msg'[n] = msg[n]
      BY <1>0, <1>6, <2>1, RecycledKinds DEF RemoveOne
    <2>3. \A u \in Threads : out'[u] # NoOut => msg'[out'[u].id].target \in alive
      BY <1>0, <2>1, <2>2, Apart DEF Targets
    <2>4. \A n \in ToSet(queue') : msg'[n].target \in alive \/ n \in doomed'
      BY <1>0, <2>1, <2>2 DEF Targets
    <2> QED BY <2>1, <2>2, <2>3, <2>4 DEF Targets, ToSet
  <1>7. CASE Pull
    <2>1. UNCHANGED <<msg, out, alive, holder, doomed>> /\ ToSet(queue') \subseteq ToSet(queue)
      BY <1>7, PullFacts DEF Pull, removeVars, sendVars
    <2> QED BY <2>1 DEF Targets, ToSet
  <1>8. CASE Dispatched
    <2>1. /\ current \in Ids /\ Recycle(current)
          /\ UNCHANGED <<queue, out, alive, holder, doomed>>
      BY <1>8 DEF Dispatched, OInv, Shapes, removeVars
    <2>2. \A n \in Ids : n # current => msg'[n] = msg[n]
      BY <1>0, <2>1, RecycledKinds
    <2>3. \A u \in Threads : out'[u] # NoOut => msg'[out'[u].id].target \in alive
      BY <1>0, <2>1, <2>2, Apart DEF Targets
    <2>4. \A n \in ToSet(queue) : msg'[n].target \in alive \/ n \in doomed
      BY <1>0, <2>2, Apart DEF Targets
    <2> QED BY <2>1, <2>3, <2>4 DEF Targets, ToSet
  <1>9. CASE UNCHANGED vars \/ Start \/ PollSleep \/ PollWake \/ Wait \/ Spurious \/ Tick
    BY <1>1, <1>9
    DEF vars, Start, PollSleep, PollWake, Wait, Spurious, Tick, removeVars, sendVars, loopVars
  <1> QED BY <1>2, <1>3, <1>4, <1>5, <1>6, <1>7, <1>8, <1>9 DEF Next, LoopThread

LEMMA TargetsInvariance == Spec => [](OInv /\ Kinds /\ Targets)
  <1>1. Init => Targets
    <2>1. <<>> \in Seq(Ids) /\ ToSet(<<>>) = {}
      BY DEF ToSet
    <2> QED BY <2>1 DEF Init, Targets
  <1>2. (OInv /\ Kinds /\ Targets) /\ [Next]_vars => (OInv /\ Kinds /\ Targets)'
    BY OwnersStep, KindsStep, TargetsStep
  <1> QED BY <1>1, <1>2, OwnersInit, KindsInit, PTL DEF Spec

\* A handler's destructor leaves no message behind for it, whoever is sending
\* and removing meanwhile, so none is dispatched to a destroyed handler.
THEOREM NoMessageForTheDead == Spec => []TargetsAlive
  <1>1. OInv /\ Targets => TargetsAlive
    BY IndexFacts DEF OInv, Shapes, Targets, TargetsAlive
  <1> QED BY <1>1, TargetsInvariance, PTL

-----------------------------------------------------------------------------
(* The order of the list.                                                  *)

Before(q, a, b) == \E j, k \in DOMAIN q : j < k /\ q[j] = a /\ q[k] = b

LEMMA BeforeIsIn ==
    ASSUME NEW q \in Seq(Ids), NEW a, NEW b, Before(q, a, b)
    PROVE  a \in ToSet(q) /\ b \in ToSet(q) /\ a \in Ids /\ b \in Ids
  BY IndexFacts DEF Before

\* A message that is inserted before position p is before those from p on and
\* behind the others, which keep their order.
LEMMA InsertedBefore ==
    ASSUME NEW q \in Seq(Ids), NEW p \in 1 .. Len(q) + 1, NEW m \in Ids
    PROVE  \A a, b \in Ids : Before(InsertAt(q, p, m), a, b) =>
             \/ Before(q, a, b)
             \/ a = m /\ \E n \in 1 .. Len(q) : n >= p /\ b = q[n]
             \/ b = m /\ \E i \in 1 .. Len(q) : i < p /\ a = q[i]
  <1>0. PICK r : r = InsertAt(q, p, m)
    OBVIOUS
  <1>1. /\ r \in Seq(Ids) /\ Len(r) = Len(q) + 1
        /\ \A j \in 1 .. Len(q) + 1 : r[j] = IF j < p THEN q[j] ELSE IF j = p THEN m ELSE q[j - 1]
    <2>1. /\ InsertAt(q, p, m) \in Seq(Ids)
          /\ Len(InsertAt(q, p, m)) = Len(q) + 1
          /\ \A j \in 1 .. Len(q) + 1 :
               InsertAt(q, p, m)[j] = IF j < p THEN q[j] ELSE IF j = p THEN m ELSE q[j - 1]
      BY InsertedElements
    <2> QED BY <1>0, <2>1
  <1>2. SUFFICES ASSUME NEW a \in Ids, NEW b \in Ids, Before(r, a, b)
                 PROVE  \/ Before(q, a, b)
                        \/ a = m /\ \E n \in 1 .. Len(q) : n >= p /\ b = q[n]
                        \/ b = m /\ \E i \in 1 .. Len(q) : i < p /\ a = q[i]
    BY <1>0
  <1>3. /\ Len(q) \in Nat /\ p \in Nat /\ DOMAIN q = 1 .. Len(q) /\ DOMAIN r = 1 .. Len(q) + 1
    BY <1>1, IndexFacts
  <1>4. PICK j \in 1 .. Len(q) + 1, k \in 1 .. Len(q) + 1 : j < k /\ r[j] = a /\ r[k] = b
    BY <1>2, <1>3 DEF Before
  <1>5. CASE k < p
    <2>1. a = q[j] /\ b = q[k] /\ j \in 1 .. Len(q) /\ k \in 1 .. Len(q)
      BY <1>1, <1>3, <1>4, <1>5
    <2> QED BY <1>3, <1>4, <2>1 DEF Before
  <1>6. CASE k = p
    <2>1. b = m /\ a = q[j] /\ j \in 1 .. Len(q) /\ j < p
      BY <1>1, <1>3, <1>4, <1>6
    <2> QED BY <2>1
  <1>7. CASE k > p
    <2>1. b = q[k - 1] /\ k - 1 \in 1 .. Len(q) /\ k - 1 >= p
      BY <1>1, <1>3, <1>4, <1>7
    <2>2. CASE j < p
      <3>1. a = q[j] /\ j \in 1 .. Len(q) /\ j < k - 1
        BY <1>1, <1>3, <1>4, <1>7, <2>2
      <3> QED BY <1>3, <2>1, <3>1 DEF Before
    <2>3. CASE j = p
      <3>1. a = m
        BY <1>1, <1>3, <1>4, <2>3
      <3> QED BY <2>1, <3>1
    <2>4. CASE j > p
      <3>1. a = q[j - 1] /\ j - 1 \in 1 .. Len(q) /\ j - 1 < k - 1
        BY <1>1, <1>3, <1>4, <2>4
      <3> QED BY <1>3, <2>1, <3>1 DEF Before
    <2> QED BY <1>3, <2>2, <2>3, <2>4
  <1> QED BY <1>3, <1>5, <1>6, <1>7

LEMMA RemovedBefore ==
    ASSUME NEW q \in Seq(Ids), Distinct(q), NEW p \in 1 .. Len(q)
    PROVE  \A a, b \in Ids : Before(RemoveAt(q, p), a, b) => Before(q, a, b)
  <1> DEFINE r == RemoveAt(q, p)
  <1>1. /\ r \in Seq(Ids) /\ Len(r) = Len(q) - 1
        /\ \A j \in 1 .. Len(q) - 1 : r[j] = IF j < p THEN q[j] ELSE q[j + 1]
    BY RemoveAtFacts
  <1>2. SUFFICES ASSUME NEW a \in Ids, NEW b \in Ids, Before(r, a, b)
                 PROVE  Before(q, a, b)
    OBVIOUS
  <1> HIDE DEF r
  <1>3. DOMAIN q = 1 .. Len(q) /\ DOMAIN r = 1 .. Len(q) - 1
    BY <1>1, IndexFacts
  <1>4. PICK j \in 1 .. Len(q) - 1, k \in 1 .. Len(q) - 1 : j < k /\ r[j] = a /\ r[k] = b
    BY <1>2, <1>3 DEF Before
  <1> DEFINE i == IF j < p THEN j ELSE j + 1
             n == IF k < p THEN k ELSE k + 1
  <1>5. i \in 1 .. Len(q) /\ n \in 1 .. Len(q) /\ i < n
    BY <1>4, IndexFacts
  <1>6. r[j] = q[i] /\ r[k] = q[n]
    BY <1>1, <1>4
  <1> HIDE DEF i, n
  <1> QED BY <1>3, <1>4, <1>5, <1>6 DEF Before

\* When message m, asked for with its delay, may be due: its time was read not
\* later than now, and is 0 only in front of all.
Due(m, w) ==
    /\ ask[m].delay = AtFront <=> w = 0
    /\ ask[m].delay # AtFront => w <= now + ask[m].delay

\* m was sent no later than n, if n is due at w.
NotAfter(m, n, w) ==
    ask[m].delay # AtFront /\ ask[n].delay # AtFront =>
        msg[m].when + ask[n].delay <= w + ask[m].delay

InTurn(a, b) ==
    ask[a].by = ask[b].by /\ ask[a].nth > ask[b].nth =>
        ask[a].delay = AtFront \/ (ask[b].delay # AtFront /\ ask[a].delay < ask[b].delay)

QueuedOk == \A m \in ToSet(queue) : Due(m, msg[m].when)

\* A sender's next message is its newest, and none it has queued was sent later.
SendingOk ==
    \A t \in Threads : out[t] # NoOut =>
        /\ Due(out[t].id, out[t].when)
        /\ ask[out[t].id].by = t
        /\ \A m \in ToSet(queue) : ask[m].by = t =>
             ask[m].nth < ask[out[t].id].nth /\ NotAfter(m, out[t].id, out[t].when)

\* Sorted by time, and one sender's messages in turn.
OrderOk ==
    \A a, b \in Ids : Before(queue, a, b) => msg[a].when <= msg[b].when /\ InTurn(a, b)

InOrder == QueuedOk /\ SendingOk /\ OrderOk

LEMMA AskFacts ==
    ASSUME Kinds
    PROVE  \A m \in Ids : /\ ask[m].nth \in Nat /\ msg[m].when \in Nat
                          /\ ask[m].delay # AtFront => ask[m].delay \in Nat
                          /\ ask[m].by # Null => ask[m].by \in Threads
  <1>1. \A m \in Ids : ask[m] \in Asks /\ msg[m] \in Fields
    BY DEF Kinds
  <1>2. \A x \in Asks : x.nth \in Nat /\ x.delay \in Delays \cup {AtFront, 0} /\ x.by \in Threads \cup {Null}
    BY DEF Asks
  <1>4. \A d \in Delays \cup {AtFront, 0} : d # AtFront => d \in Nat
    BY LoopConstants
  <1>3. \A x \in Fields : x.when \in Nat
    BY DEF Fields
  <1> QED BY <1>1, <1>2, <1>3, <1>4

\* Steps that send and insert nothing: what stays queued keeps its records and its order.
LEMMA OrderKept ==
    ASSUME OInv, Kinds, InOrder, queue' \in Seq(Ids), ToSet(queue') \subseteq ToSet(queue),
           \A a, b \in Ids : Before(queue', a, b) => Before(queue, a, b),
           \A m \in ToSet(queue') : msg'[m] = msg[m] /\ ask'[m] = ask[m],
           \A t \in Threads : out[t] # NoOut => ask'[out[t].id] = ask[out[t].id],
           out' = out, now' \in Nat, now' >= now
    PROVE  InOrder'
  <1>1. ToSet(queue) \subseteq Ids /\ now \in Nat
    BY QueuedAreMessages DEF OInv, Shapes
  <1>2. \A m \in Ids, w \in Nat : Due(m, w) /\ ask'[m] = ask[m] => Due(m, w)'
    BY <1>1, AskFacts DEF Due
  <1>3. QueuedOk'
    <2> SUFFICES ASSUME NEW m \in ToSet(queue')
                 PROVE  Due(m, msg[m].when)'
      BY DEF QueuedOk, ToSet
    <2>1. m \in Ids /\ Due(m, msg[m].when)
      BY <1>1 DEF InOrder, QueuedOk
    <2>2. msg'[m] = msg[m] /\ ask'[m] = ask[m] /\ msg[m].when \in Nat
      BY <2>1, AskFacts
    <2> QED BY <1>1, <2>1, <2>2, AskFacts DEF Due
  <1>4. SendingOk'
    <2> SUFFICES ASSUME NEW t \in Threads, out[t] # NoOut
                 PROVE  /\ Due(out[t].id, out[t].when)'
                        /\ ask'[out[t].id].by = t
                        /\ \A m \in ToSet(queue') : ask'[m].by = t =>
                             ask'[m].nth < ask'[out[t].id].nth /\ NotAfter(m, out[t].id, out[t].when)'
      BY DEF SendingOk, ToSet
    <2>1. /\ Due(out[t].id, out[t].when) /\ ask[out[t].id].by = t
          /\ \A m \in ToSet(queue) : ask[m].by = t =>
               ask[m].nth < ask[out[t].id].nth /\ NotAfter(m, out[t].id, out[t].when)
          /\ ask'[out[t].id] = ask[out[t].id] /\ out[t].id \in Ids /\ out[t].when \in Nat
      BY OutFacts DEF InOrder, SendingOk
    <2>2. Due(out[t].id, out[t].when)'
      BY <1>1, <2>1, AskFacts DEF Due
    <2>3. \A m \in ToSet(queue') : ask'[m].by = t =>
            ask'[m].nth < ask'[out[t].id].nth /\ NotAfter(m, out[t].id, out[t].when)'
      BY <2>1 DEF NotAfter
    <2> QED BY <2>1, <2>2, <2>3
  <1>5. OrderOk'
    <2> SUFFICES ASSUME NEW a \in Ids, NEW b \in Ids, Before(queue', a, b)
                 PROVE  msg'[a].when <= msg'[b].when /\ InTurn(a, b)'
      BY DEF OrderOk, Before
    <2>1. a \in ToSet(queue') /\ b \in ToSet(queue')
      BY BeforeIsIn
    <2>2. msg'[a] = msg[a] /\ ask'[a] = ask[a] /\ msg'[b] = msg[b] /\ ask'[b] = ask[b]
      BY <2>1
    <2>3. msg[a].when <= msg[b].when /\ InTurn(a, b)
      BY DEF InOrder, OrderOk
    <2> QED BY <2>2, <2>3 DEF InTurn
  <1> QED BY <1>3, <1>4, <1>5 DEF InOrder

LEMMA ComposeInOrder ==
    ASSUME OInv, Kinds, InOrder, NEW t \in Threads, NEW m \in Ids, NEW fields \in Fields,
           NEW d \in Delays \cup {AtFront}, Compose(t, m, fields, d)
    PROVE  InOrder'
  <1>1. /\ m \in Free /\ out[t] = NoOut /\ out'[t].id = m
        /\ out'[t].when = IF d = AtFront THEN 0 ELSE now + d
        /\ ask'[m].by = t /\ ask'[m].delay = d
        /\ \A n \in Ids : ask[n].by = t => ask[n].nth < ask'[m].nth
        /\ UNCHANGED <<queue, now>>
    BY ComposeFacts DEF Kinds
  <1>2. \A u \in Threads : u # t => out'[u] = out[u]
    BY DEF Compose, Kinds, OInv, Shapes
  <1>3. \A n \in Ids : n # m => msg'[n] = msg[n] /\ ask'[n] = ask[n]
    BY DEF Compose, Kinds
  <1>4. /\ ToSet(queue) \subseteq Ids /\ now \in Nat /\ now > 0
        /\ m \notin ToSet(queue)
        /\ \A u \in Threads : out[u] # NoOut => out[u].id \in Ids /\ out[u].id # m
    BY <1>1, QueuedAreMessages, Apart, OutFacts DEF OInv, Shapes, Kinds
  <1>5. \A n \in ToSet(queue) : n \in Ids /\ msg'[n] = msg[n] /\ ask'[n] = ask[n]
    BY <1>3, <1>4
  <1>6. QueuedOk'
    <2> SUFFICES ASSUME NEW n \in ToSet(queue)
                 PROVE  Due(n, msg[n].when)'
      BY <1>1 DEF QueuedOk, ToSet
    <2>1. Due(n, msg[n].when)
      BY DEF InOrder, QueuedOk
    <2> QED BY <1>1, <1>5, <2>1 DEF Due
  <1>7. SendingOk'
    <2> SUFFICES ASSUME NEW u \in Threads, out'[u] # NoOut
                 PROVE  /\ Due(out[u].id, out[u].when)'
                        /\ ask'[out'[u].id].by = u
                        /\ \A n \in ToSet(queue) : ask'[n].by = u =>
                             ask'[n].nth < ask'[out'[u].id].nth /\ NotAfter(n, out[u].id, out[u].when)'
      BY <1>1 DEF SendingOk, ToSet
    <2>1. CASE u # t
      <3>1. /\ out'[u] = out[u] /\ ask'[out[u].id] = ask[out[u].id]
        BY <1>2, <1>3, <1>4, <2>1
      <3>2. /\ Due(out[u].id, out[u].when) /\ ask[out[u].id].by = u
            /\ \A n \in ToSet(queue) : ask[n].by = u =>
                 ask[n].nth < ask[out[u].id].nth /\ NotAfter(n, out[u].id, out[u].when)
        BY <3>1 DEF InOrder, SendingOk
      <3>3. Due(out[u].id, out[u].when)'
        BY <1>1, <3>1, <3>2 DEF Due
      <3>4. \A n \in ToSet(queue) : ask'[n].by = u =>
              ask'[n].nth < ask'[out'[u].id].nth /\ NotAfter(n, out[u].id, out[u].when)'
        BY <1>5, <3>1, <3>2 DEF NotAfter
      <3> QED BY <3>1, <3>2, <3>3, <3>4
    <2>2. CASE u = t
      <3>1. d # AtFront => d \in Nat
        BY LoopConstants
      <3>2. AtFront \notin Nat
        BY LoopConstants
      <3>3. ask'[m].by = t /\ ask'[m].delay = d
        BY <1>1
      <3>4. Due(out[u].id, out[u].when)'
        BY <1>1, <1>4, <2>2, <3>1, <3>3 DEF Due
      <3>5. ASSUME NEW n \in ToSet(queue), ask'[n].by = t
            PROVE  ask'[n].nth < ask'[m].nth /\ NotAfter(n, out[t].id, out[t].when)'
        <4>1. ask'[n] = ask[n] /\ msg'[n] = msg[n] /\ n \in Ids
          BY <1>5
        <4>2. ask[n].nth < ask'[m].nth /\ Due(n, msg[n].when)
          BY <1>1, <3>5, <4>1 DEF InOrder, QueuedOk
        <4>3. msg[n].when \in Nat /\ (ask[n].delay # AtFront => ask[n].delay \in Nat)
          BY <4>1, AskFacts
        <4>4. NotAfter(n, out[t].id, out[t].when)'
          BY <1>1, <1>4, <3>1, <3>3, <4>1, <4>2, <4>3 DEF Due, NotAfter
        <4> QED BY <4>1, <4>2, <4>4
      <3> QED BY <1>1, <2>2, <3>3, <3>4, <3>5
    <2> QED BY <2>1, <2>2
  <1>8. OrderOk'
    <2> SUFFICES ASSUME NEW a \in Ids, NEW b \in Ids, Before(queue, a, b)
                 PROVE  msg'[a].when <= msg'[b].when /\ InTurn(a, b)'
      BY <1>1 DEF OrderOk, Before
    <2>0. queue \in Seq(Ids)
      BY DEF OInv, Shapes
    <2>1. a \in ToSet(queue) /\ b \in ToSet(queue)
      BY <2>0, BeforeIsIn
    <2>2. msg[a].when <= msg[b].when /\ InTurn(a, b)
      BY DEF InOrder, OrderOk
    <2> QED BY <1>5, <2>1, <2>2 DEF InTurn
  <1> QED BY <1>6, <1>7, <1>8 DEF InOrder

LEMMA EnqueueInOrder ==
    ASSUME OInv, Kinds, InOrder, NEW t \in Threads, EnqueueMessage(t)
    PROVE  InOrder'
  <1> DEFINE m == out[t].id
             w == out[t].when
  <1>1. /\ out[t] # NoOut /\ m \in Ids /\ m \notin ToSet(queue) /\ w \in Nat
        /\ out'[t] = NoOut /\ msg'[m].when = w
        /\ UNCHANGED <<ask, now>>
        /\ queue' \in Seq(Ids) /\ ToSet(queue') = ToSet(queue) \cup {m}
    BY EnqueueFacts, EnqueueRecords, OutFacts
  <1>2. /\ \A u \in Threads : u # t => out'[u] = out[u]
        /\ \A n \in Ids : n # m => msg'[n] = msg[n]
    BY EnqueueRecords
  <1>3. PICK p \in 1 .. Len(queue) + 1 : IsPlace(p, w) /\ queue' = InsertAt(queue, p, m)
    BY EnqueueFacts
  <1>4. /\ Due(m, w) /\ ask[m].by = t
        /\ \A n \in ToSet(queue) : ask[n].by = t => ask[n].nth < ask[m].nth /\ NotAfter(n, m, w)
    BY <1>1 DEF InOrder, SendingOk
  <1>5. ToSet(queue) \subseteq Ids /\ queue \in Seq(Ids) /\ now \in Nat
    BY QueuedAreMessages DEF OInv, Shapes
  <1>6. \A n \in ToSet(queue) : n # m /\ n \in Ids /\ msg'[n] = msg[n]
    BY <1>1, <1>2, <1>5
  <1> HIDE DEF m, w
  <1>7. QueuedOk'
    <2> SUFFICES ASSUME NEW n \in ToSet(queue) \cup {m}
                 PROVE  Due(n, msg[n].when)'
      BY <1>1 DEF QueuedOk, ToSet
    <2>1. CASE n = m
      BY <1>1, <1>4, <2>1, AskFacts DEF Due
    <2>2. CASE n \in ToSet(queue)
      <3>1. Due(n, msg[n].when)
        BY <2>2 DEF InOrder, QueuedOk
      <3> QED BY <1>1, <1>6, <2>2, <3>1 DEF Due
    <2> QED BY <2>1, <2>2
  <1>8. SendingOk'
    <2> SUFFICES ASSUME NEW u \in Threads, out'[u] # NoOut
                 PROVE  /\ Due(out[u].id, out[u].when)'
                        /\ ask[out'[u].id].by = u
                        /\ \A n \in ToSet(queue) \cup {m} : ask[n].by = u =>
                             ask[n].nth < ask[out'[u].id].nth /\ NotAfter(n, out[u].id, out[u].when)'
      BY <1>1 DEF SendingOk, ToSet
    <2>1. u # t /\ out'[u] = out[u]
      BY <1>1, <1>2
    <2>2. /\ Due(out[u].id, out[u].when) /\ ask[out[u].id].by = u
          /\ \A n \in ToSet(queue) : ask[n].by = u =>
               ask[n].nth < ask[out[u].id].nth /\ NotAfter(n, out[u].id, out[u].when)
      BY <2>1 DEF InOrder, SendingOk
    <2>3. Due(out[u].id, out[u].when)'
      BY <1>1, <2>1, <2>2 DEF Due
    <2>4. \A n \in ToSet(queue) \cup {m} : ask[n].by = u =>
            ask[n].nth < ask[out[u].id].nth /\ NotAfter(n, out[u].id, out[u].when)'
      BY <1>1, <1>4, <1>6, <2>1, <2>2 DEF NotAfter
    <2> QED BY <2>1, <2>2, <2>3, <2>4
  <1>9. OrderOk'
    <2> SUFFICES ASSUME NEW a \in Ids, NEW b \in Ids, Before(queue', a, b)
                 PROVE  msg'[a].when <= msg'[b].when /\ InTurn(a, b)
      BY <1>1 DEF OrderOk, Before, InTurn
    <2>0. Before(InsertAt(queue, p, m), a, b)
      BY <1>3
    <2>1. CASE Before(queue, a, b)
      <3>1. a \in ToSet(queue) /\ b \in ToSet(queue)
        BY <1>5, <2>1, BeforeIsIn
      <3>2. msg[a].when <= msg[b].when /\ InTurn(a, b)
        BY <2>1 DEF InOrder, OrderOk
      <3> QED BY <1>6, <3>1, <3>2
    <2>2. CASE a = m /\ \E n \in 1 .. Len(queue) : n >= p /\ b = queue[n]
      <3>1. PICK n \in 1 .. Len(queue) : n >= p /\ b = queue[n]
        BY <2>2
      <3>2. b \in ToSet(queue) /\ Len(queue) \in Nat /\ DOMAIN queue = 1 .. Len(queue)
        BY <1>5, <3>1, IndexFacts
      <3>3. msg'[a].when = w /\ msg'[b].when = msg[b].when /\ msg[b].when \in Nat /\ ask[b].nth \in Nat
            /\ (ask[b].delay # AtFront => ask[b].delay \in Nat)
            /\ (ask[m].delay # AtFront => ask[m].delay \in Nat) /\ ask[m].nth \in Nat
        BY <1>1, <1>6, <2>2, <3>2, AskFacts
      <3>4. CASE w = 0
        <4>1. ask[m].delay = AtFront
          BY <1>4, <3>4 DEF Due
        <4> QED BY <2>2, <3>3, <3>4, <4>1 DEF InTurn
      <3>5. CASE w # 0
        <4>1. p <= Len(queue) /\ msg[queue[p]].when > w /\ p \in 1 .. Len(queue)
          BY <1>3, <3>1, <3>2, <3>5 DEF IsPlace
        <4>2. msg[b].when > w
          <5>1. CASE n = p
            BY <3>1, <4>1, <5>1
          <5>2. CASE n # p
            <6>1. Before(queue, queue[p], b)
              BY <3>1, <3>2, <4>1, <5>2 DEF Before
            <6>2. queue[p] \in Ids /\ msg[queue[p]].when \in Nat
              BY <1>5, <4>1, ElementOfSeq, AskFacts
            <6>3. msg[queue[p]].when <= msg[b].when
              BY <6>1, <6>2 DEF InOrder, OrderOk
            <6> QED BY <1>1, <3>3, <4>1, <6>2, <6>3
          <5> QED BY <5>1, <5>2
        <4>3. Due(b, msg[b].when)
          BY <3>2 DEF InOrder, QueuedOk
        <4>4. ask[b].delay # AtFront /\ ask[m].delay # AtFront
          BY <1>1, <1>4, <3>3, <3>5, <4>2, <4>3 DEF Due
        <4>5. ask[b].by = t => NotAfter(b, m, w)
          BY <1>4, <3>2
        <4>6. ask[b].by = t => ask[m].delay < ask[b].delay
          BY <1>1, <3>3, <4>2, <4>4, <4>5 DEF NotAfter
        <4>7. InTurn(a, b)
          BY <1>4, <2>2, <4>4, <4>6 DEF InTurn
        <4> QED BY <1>1, <3>3, <4>2, <4>7
      <3> QED BY <3>4, <3>5
    <2>3. CASE b = m /\ \E i \in 1 .. Len(queue) : i < p /\ a = queue[i]
      <3>1. PICK i \in 1 .. Len(queue) : i < p /\ a = queue[i]
        BY <2>3
      <3>2. a \in ToSet(queue) /\ Len(queue) \in Nat
        BY <1>5, <3>1, IndexFacts
      <3>3. msg'[b].when = w /\ msg'[a].when = msg[a].when /\ ask[a].nth \in Nat /\ ask[m].nth \in Nat
        BY <1>1, <1>6, <2>3, <3>2, AskFacts
      <3>4. w # 0 /\ msg[a].when <= w
        <4>1. p # 1 /\ i \in 1 .. p - 1
          BY <3>1, <3>2
        <4> QED BY <1>3, <3>1, <4>1 DEF IsPlace
      <3>5. InTurn(a, b)
        BY <1>4, <2>3, <3>2, <3>3 DEF InTurn
      <3> QED BY <3>3, <3>4, <3>5
    <2> QED BY <1>1, <1>5, <2>0, <2>1, <2>2, <2>3, InsertedBefore
  <1> QED BY <1>7, <1>8, <1>9 DEF InOrder

LEMMA InOrderStep == OInv /\ Kinds /\ InOrder /\ [Next]_vars => InOrder'
  <1> SUFFICES ASSUME OInv, Kinds, InOrder, [Next]_vars
               PROVE  InOrder'
    OBVIOUS
  <1>0. /\ msg \in [Ids -> Fields] /\ ask \in [Ids -> Asks] /\ now \in Nat
        /\ queue \in Seq(Ids) /\ Distinct(queue) /\ ToSet(queue) \subseteq Ids
    BY QueuedAreMessages DEF Kinds, OInv, Shapes
  <1>1. CASE UNCHANGED <<msg, queue, out, ask>> /\ now' \in Nat /\ now' >= now
    BY <1>0, <1>1, OrderKept DEF ToSet, Before
  <1>2. ASSUME NEW t \in Threads, Send(t)
        PROVE  InOrder'
    BY <1>0, <1>2, SendFills, ComposeInOrder
  <1>3. ASSUME NEW t \in Threads, EnqueueMessage(t)
        PROVE  InOrder'
    BY <1>3, EnqueueInOrder
  <1>4. ASSUME NEW t \in Threads, RemoveMessages(t)
        PROVE  InOrder'
    BY <1>0, <1>1, <1>4, RemovalFacts
  <1>5. ASSUME NEW h \in Handlers, Destroy(h)
        PROVE  InOrder'
    BY <1>0, <1>1, <1>5, DestroyFacts
  <1>6. CASE RemoveOne
    <2>1. PICK j \in 1 .. Len(queue) :
            /\ queue[j] \in ToSet(queue) /\ queue[j] \in Ids
            /\ queue' = RemoveAt(queue, j) /\ Recycle(queue[j])
            /\ queue' \in Seq(Ids) /\ ToSet(queue') = ToSet(queue) \ {queue[j]}
      BY <1>6, RemoveOneFacts
    <2>2. UNCHANGED <<out, now>>
      BY <1>6 DEF RemoveOne
    <2>3. \A n \in Ids : n # queue[j] => msg'[n] = msg[n] /\ ask'[n] = ask[n]
      BY <1>0, <2>1, RecycledKinds
    <2>4. \A a, b \in Ids : Before(queue', a, b) => Before(queue, a, b)
      BY <1>0, <2>1, RemovedBefore
    <2>5. \A t \in Threads : out[t] # NoOut => out[t].id \in Ids /\ out[t].id # queue[j]
      BY <2>1, OutFacts, Apart
    <2>6. \A n \in ToSet(queue') : msg'[n] = msg[n] /\ ask'[n] = ask[n]
      BY <1>0, <2>1, <2>3
    <2>7. \A t \in Threads : out[t] # NoOut => ask'[out[t].id] = ask[out[t].id]
      BY <2>3, <2>5
    <2>8. ToSet(queue') \subseteq ToSet(queue) /\ now' \in Nat /\ now' >= now
      BY <1>0, <2>1, <2>2
    <2> QED BY <2>1, <2>2, <2>4, <2>6, <2>7, <2>8, OrderKept
  <1>7. CASE Pull
    <2>1. /\ queue' \in Seq(Ids) /\ ToSet(queue') \subseteq ToSet(queue)
          /\ queue' = RemoveAt(queue, 1) /\ 1 \in 1 .. Len(queue)
          /\ UNCHANGED <<msg, out, ask, now>>
      BY <1>7, PullFacts DEF Pull, sendVars
    <2>2. \A a, b \in Ids : Before(queue', a, b) => Before(queue, a, b)
      BY <1>0, <2>1, RemovedBefore
    <2> QED BY <1>0, <2>1, <2>2, OrderKept
  <1>8. CASE Dispatched
    <2>1. current \in Ids /\ Recycle(current) /\ UNCHANGED <<queue, out, now>>
      BY <1>8 DEF Dispatched, OInv, Shapes
    <2>2. \A n \in Ids : n # current => msg'[n] = msg[n] /\ ask'[n] = ask[n]
      BY <1>0, <2>1, RecycledKinds
    <2>3. \A t \in Threads : out[t] # NoOut => out[t].id \in Ids /\ out[t].id # current
      BY OutFacts, Apart
    <2>4. /\ \A n \in ToSet(queue) : msg'[n] = msg[n] /\ ask'[n] = ask[n]
          /\ \A t \in Threads : out[t] # NoOut => ask'[out[t].id] = ask[out[t].id]
      BY <1>0, <2>2, <2>3, Apart
    <2> QED BY <1>0, <2>1, <2>4, OrderKept DEF ToSet, Before
  <1>9. CASE UNCHANGED vars \/ Start \/ PollSleep \/ PollWake \/ Wait \/ Spurious \/ Tick
    BY <1>0, <1>1, <1>9
    DEF vars, Start, PollSleep, PollWake, Wait, Spurious, Tick, sendVars, loopVars
  <1> QED BY <1>2, <1>3, <1>4, <1>5, <1>6, <1>7, <1>8, <1>9 DEF Next, LoopThread

LEMMA InOrderInit == Init => InOrder
  <1> SUFFICES ASSUME Init
               PROVE  InOrder
    OBVIOUS
  <1>1. queue = <<>> /\ \A t \in Threads : out[t] = NoOut
    BY DEF Init
  <1>2. ToSet(queue) = {} /\ DOMAIN queue = {}
    BY <1>1 DEF ToSet
  <1> QED BY <1>1, <1>2 DEF InOrder, QueuedOk, SendingOk, OrderOk, Before

LEMMA InOrderInvariance == Spec => [](OInv /\ Kinds /\ InOrder)
  <1>1. (OInv /\ Kinds /\ InOrder) /\ [Next]_vars => (OInv /\ Kinds /\ InOrder)'
    BY OwnersStep, KindsStep, InOrderStep
  <1> QED BY <1>1, OwnersInit, KindsInit, InOrderInit, PTL DEF Spec

\* Although a sender reads the clock long before it takes the lock, and others
\* send, remove and dispatch meanwhile, its messages are queued in the order in
\* which it sent them, but for delays and the front of the queue.
THEOREM SendersAreInOrder == Spec => []SenderFifo
  <1>1. OInv /\ Kinds /\ InOrder => SenderFifo
    <2> SUFFICES ASSUME OInv, Kinds, InOrder, NEW j \in DOMAIN queue, NEW k \in DOMAIN queue, j < k
                 PROVE  InTurn(queue[j], queue[k])
      BY DEF SenderFifo, InTurn
    <2>1. queue[j] \in Ids /\ queue[k] \in Ids
      BY IndexFacts DEF OInv, Shapes
    <2>2. Before(queue, queue[j], queue[k])
      BY DEF Before
    <2> QED BY <2>1, <2>2 DEF InOrder, OrderOk
  <1> QED BY <1>1, InOrderInvariance, PTL

-----------------------------------------------------------------------------
(* The list is a delay queue.                                              *)

Pendings == [m \in ToSet(queue) |-> msg[m].when]

LEMMA StepRefines ==
    ASSUME OInv, Kinds, InOrder, OInv', Kinds', [Next]_vars
    PROVE  [DQ!DQNext]_<<Pendings, current, now>>
  <1>0. /\ msg \in [Ids -> Fields] /\ ask \in [Ids -> Asks] /\ now \in Nat
        /\ queue \in Seq(Ids) /\ ToSet(queue) \subseteq Ids
        /\ DOMAIN Pendings = ToSet(queue)
        /\ \A m \in ToSet(queue) : Pendings[m] = msg[m].when
    BY QueuedAreMessages DEF Kinds, OInv, Shapes, Pendings
  <1>1. CASE UNCHANGED <<current, now, queue>> /\ \A m \in ToSet(queue) : msg'[m] = msg[m]
    BY <1>0, <1>1 DEF Pendings, ToSet
  <1>2. ASSUME NEW t \in Threads, Send(t)
        PROVE  [DQ!DQNext]_<<Pendings, current, now>>
    <2>1. PICK m \in Ids, d \in Delays \cup {AtFront}, fields \in Fields : Compose(t, m, fields, d)
      BY <1>0, <1>2, SendFills
    <2>2. m \notin ToSet(queue)
      BY <2>1, ComposeFacts, Apart
    <2>3. UNCHANGED <<current, now, queue>> /\ msg' = [msg EXCEPT ![m] = fields]
      BY <2>1 DEF Compose, loopVars
    <2> QED BY <1>0, <1>1, <2>2, <2>3
  <1>3. ASSUME NEW t \in Threads, EnqueueMessage(t)
        PROVE  DQ!DQNext
    <2>0. PICK m \in Ids : m = out[t].id
      BY <1>3, EnqueueFacts
    <2>1. /\ m \in Ids /\ m \notin ToSet(queue) /\ m # current
          /\ ToSet(queue') = ToSet(queue) \cup {m} /\ UNCHANGED <<current, now>>
      BY <1>3, <2>0, EnqueueFacts, EnqueueRecords, Apart
    <2>2. \A n \in Ids : n # m => msg'[n] = msg[n]
      BY <1>3, <2>0, EnqueueRecords
    <2>3. \A n \in Ids : msg'[n].when \in Nat
      BY DEF Kinds, Fields
    <2>4. Pendings' = [n \in ToSet(queue) \cup {m} |-> msg'[n].when]
      BY <2>1 DEF Pendings, ToSet
    <2>5. /\ Pendings' \in [DOMAIN Pendings \cup {m} -> Nat]
          /\ \A n \in DOMAIN Pendings : Pendings'[n] = Pendings[n]
      BY <1>0, <2>1, <2>2, <2>3, <2>4
    <2>6. DQ!Put(m)
      BY <1>0, <2>1, <2>5 DEF DQ!Put, Pendings
    <2> QED BY <2>1, <2>6 DEF DQ!DQNext
  <1>4. ASSUME NEW t \in Threads, RemoveMessages(t)
        PROVE  [DQ!DQNext]_<<Pendings, current, now>>
    BY <1>1, <1>4, RemovalFacts
  <1>5. ASSUME NEW h \in Handlers, Destroy(h)
        PROVE  [DQ!DQNext]_<<Pendings, current, now>>
    BY <1>1, <1>5, DestroyFacts
  <1>6. CASE RemoveOne
    <2>1. PICK m \in Ids :
            m \in ToSet(queue) /\ Recycle(m) /\ ToSet(queue') = ToSet(queue) \ {m}
      BY <1>6, RemoveOneFacts
    <2>2. UNCHANGED <<current, now>>
      BY <1>6 DEF RemoveOne, loopVars
    <2>3. \A n \in Ids : n # m => msg'[n] = msg[n]
      BY <1>0, <2>1, RecycledKinds
    <2>4. Pendings' = [n \in ToSet(queue) \ {m} |-> msg'[n].when]
      BY <2>1 DEF Pendings, ToSet
    <2>5. Pendings' = [n \in DOMAIN Pendings \ {m} |-> Pendings[n]]
      BY <1>0, <2>3, <2>4
    <2>6. DQ!Discard(m)
      BY <1>0, <2>1, <2>2, <2>5 DEF DQ!Discard, DQ!Without, Pendings
    <2> QED BY <2>6 DEF DQ!DQNext
  <1>7. CASE Pull
    <2>0. PICK m \in Ids : m = queue[1]
      BY <1>7, PullFacts
    <2>1. /\ m \in ToSet(queue) /\ m \in Ids /\ ToSet(queue') = ToSet(queue) \ {m}
          /\ current' = m /\ 1 \in 1 .. Len(queue)
      BY <1>7, <2>0, PullFacts
    <2>2. UNCHANGED <<msg, now>> /\ current = Null /\ msg[m].when <= now
      <3>1. UNCHANGED <<msg, now>> /\ loop = "next" /\ now >= msg[Head(queue)].when /\ queue # <<>>
        BY <1>7 DEF Pull
      <3> QED BY <1>0, <2>0, <2>1, <3>1, TailIsRemoval, AskFacts DEF OInv, Shapes
    <2>3. \A n \in ToSet(queue) : msg[m].when <= msg[n].when
      <3> SUFFICES ASSUME NEW n \in ToSet(queue)
                   PROVE  msg[m].when <= msg[n].when
        OBVIOUS
      <3>1. PICK k \in 1 .. Len(queue) : n = queue[k]
        BY <1>0, IndexFacts
      <3>2. CASE k = 1
        BY <2>0, <2>1, <3>1, <3>2, AskFacts
      <3>3. CASE k # 1
        <4>1. Before(queue, m, n)
          BY <1>0, <2>0, <2>1, <3>1, <3>3, IndexFacts DEF Before
        <4> QED BY <1>0, <2>1, <4>1 DEF InOrder, OrderOk
      <3> QED BY <3>2, <3>3
    <2>4. Pendings' = [n \in ToSet(queue) \ {m} |-> msg[n].when]
      BY <2>1, <2>2 DEF Pendings, ToSet
    <2>5. Pendings' = [n \in DOMAIN Pendings \ {m} |-> Pendings[n]]
      BY <1>0, <2>4
    <2>6. Pendings[m] <= now /\ \A n \in DOMAIN Pendings : Pendings[m] <= Pendings[n]
      BY <1>0, <2>1, <2>2, <2>3
    <2>7. DQ!Take(m)
      BY <1>0, <2>1, <2>2, <2>5, <2>6 DEF DQ!Take, DQ!Without, Pendings
    <2> QED BY <2>1, <2>7 DEF DQ!DQNext
  <1>8. CASE Dispatched
    <2>1. /\ current \in Ids /\ Recycle(current) /\ UNCHANGED <<queue, now>> /\ current' = Null
      BY <1>8 DEF Dispatched, OInv, Shapes
    <2>2. \A n \in ToSet(queue) : msg'[n] = msg[n]
      BY <1>0, <2>1, RecycledKinds, Apart
    <2>3. Pendings' = Pendings /\ current # Null
      BY <1>0, <2>1, <2>2, NullIsNoMessage DEF Pendings, ToSet
    <2>4. DQ!Finish
      BY <2>1, <2>3 DEF DQ!Finish, Pendings
    <2> QED BY <2>4 DEF DQ!DQNext
  <1>9. CASE Tick
    <2>1. now' = now + 1 /\ UNCHANGED <<current, queue, msg>>
      BY <1>9 DEF Tick, loopVars
    <2>2. DQ!Pass
      BY <1>0, <2>1 DEF DQ!Pass, ToSet
    <2> QED BY <2>2 DEF DQ!DQNext
  <1>10. CASE UNCHANGED vars \/ Start \/ PollSleep \/ PollWake \/ Wait \/ Spurious
    BY <1>1, <1>10 DEF vars, Start, PollSleep, PollWake, Wait, Spurious, loopVars
  <1> QED
    BY <1>2, <1>3, <1>4, <1>5, <1>6, <1>7, <1>8, <1>9, <1>10 DEF Next, LoopThread

\* The list, with its pool, its locks and any number of callers, behaves as a
\* delay queue: what is dispatched is due, and nothing queued was due sooner.
THEOREM ImplementsDelays == Spec => ImplementsDelayQueue
  <1>1. Init => DQ!DQInit
    <2> SUFFICES ASSUME Init
                 PROVE  DQ!DQInit
      OBVIOUS
    <2>1. ToSet(queue) = {} /\ current = Null /\ now \in Nat
      BY DEF Init, ToSet
    <2>2. [m \in ToSet(queue) |-> msg[m].when] = [m \in {} |-> 0]
      BY <2>1
    <2> QED BY <2>1, <2>2 DEF DQ!DQInit
  <1>2. (OInv /\ Kinds /\ InOrder) /\ (OInv /\ Kinds /\ InOrder)' /\ [Next]_vars
        => [DQ!DQNext]_(DQ!dqVars)
    BY StepRefines DEF DQ!dqVars, Pendings
  <1> QED
    BY <1>1, <1>2, InOrderInvariance, PTL
    DEF Spec, ImplementsDelayQueue, DQ!DQSpec
=============================================================================
