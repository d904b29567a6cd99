------------------------- MODULE Tr069SessionProofs -------------------------
(***************************************************************************)
(* Proofs about the TR-069 agent for every set of downloads, every number  *)
(* of attempts and every budget: what a restart may and may not lose.      *)
(* Tr069Session has three independent inductive invariants, one about the  *)
(* order to reboot, one about the records of bootstrap and reboot, one     *)
(* about the queue of loads and its copy on the disk.                      *)
(***************************************************************************)
EXTENDS Tr069Session, SeqFacts

States == {"init", "start", "complete"}
Load == [id : Loads, st : States]

-----------------------------------------------------------------------------
(* A reboot order reboots the box once.                                    *)

\* The invariant is inductive as it stands: only a Reboot of the server leaves an order
\* standing, and a restart resumes with a finished one.
THEOREM RebootsOnce == Spec => []NoRebootLoop
  <1>1. Init => NoRebootLoop
    BY DEF Init, NoRebootLoop
  <1>2. NoRebootLoop /\ [Next]_vars => NoRebootLoop'
    <2> SUFFICES ASSUME NoRebootLoop, [Next]_vars
                 PROVE  NoRebootLoop'
      OBVIOUS
    <2> USE DEF NoRebootLoop, record, history
    <2>1. CASE UNCHANGED vars
      BY <2>1 DEF vars
    <2>2. CASE Activate \/ Suspend \/ PostEvent \/ Periodic \/ SetUrl \/ LoadDue \/ LoadOntime
      BY <2>2 DEF Activate, Suspend, PostEvent, Periodic, SetUrl, LoadDue, LoadOntime
    <2>3. CASE Dial \/ Unreachable \/ (\E server \in Servers : Connected(server))
      BY <2>3 DEF Dial, Unreachable, Connected
    <2>4. CASE InformResponse \/ TransferCompleteResponse \/ TransferRefused
      BY <2>4 DEF InformResponse, TransferCompleteResponse, TransferRefused
    <2>5. CASE \E l \in Loads, delayed \in BOOLEAN : Download(l, delayed)
      BY <2>5 DEF Download
    <2>6. CASE Reboot \/ FactoryReset \/ Empty \/ Broken \/ TaskTail
      BY <2>6 DEF Reboot, FactoryReset, Empty, Broken, TaskTail
    <2>7. ASSUME NEW type, Restart(type)
          PROVE  NoRebootLoop'
      BY <2>7 DEF Restart, Resumed
    <2>8. CASE PowerCycle \/ Upgraded
      BY <2>7, <2>8 DEF PowerCycle, Upgraded
    <2>9. CASE LoadEnded
      BY <2>9 DEF LoadEnded
    <2> QED BY <2>1, <2>2, <2>3, <2>4, <2>5, <2>6, <2>8, <2>9 DEF Next
  <1> QED BY <1>1, <1>2, PTL DEF Spec

-----------------------------------------------------------------------------
(* Records survive.                                                        *)

\* What is recorded in memory and not on the disk is marked for saving.
RInv ==
    /\ RecordsSurvive
    /\ {bootstrap, sysReset, save, disk.bootstrap} \subseteq BOOLEAN
    /\ ~save => Recorded(bootstrap, reboot) \subseteq Recorded(disk.bootstrap, disk.reboot)

LEMMA RecordsInit == Init => RInv
  <1> SUFFICES ASSUME Init
               PROVE  RInv
    OBVIOUS
  <1>1. /\ bootstrap = FALSE /\ sysReset = FALSE /\ save = FALSE /\ reboot = "null"
        /\ disk.bootstrap = FALSE /\ disk.reboot = "null" /\ owedEvents = {"BOOTSTRAP"}
    BY DEF Init, Stored
  <1>2. Recorded(FALSE, "null") = {"BOOTSTRAP"}
    BY DEF Recorded
  <1> QED BY <1>1, <1>2 DEF RInv, RecordsSurvive

\* A restart takes its records from the disk; an order to reboot is still recorded when it
\* has become a finished one.
LEMMA RecordsRestart ==
    ASSUME RInv, NEW type, Restart(type)
    PROVE  RInv'
  <1>1. /\ bootstrap' = disk.bootstrap /\ reboot' = Resumed /\ sysReset' = FALSE /\ save' = FALSE
        /\ owedEvents' = owedEvents
        /\ \/ disk' = disk
           \/ disk'.bootstrap = disk.bootstrap /\ disk'.reboot = Resumed
    BY DEF Restart, Stored
  <1>2. Recorded(disk.bootstrap, Resumed) = Recorded(disk.bootstrap, disk.reboot)
    BY DEF Recorded, Resumed
  <1> QED BY <1>1, <1>2 DEF RInv, RecordsSurvive

LEMMA RecordsTail ==
    ASSUME RInv, TaskTail
    PROVE  RInv'
  <1>1. /\ bootstrap' = (bootstrap /\ ~sysReset) /\ reboot' = reboot
        /\ sysReset' = FALSE /\ save' = FALSE /\ disk' = Saves
        /\ owedEvents' = owedEvents \cup Recorded(bootstrap', reboot)
    BY DEF TaskTail, record
  <1>2. CASE sysReset
    BY <1>1, <1>2 DEF Saves, Stored, RInv, RecordsSurvive, Recorded
  <1>3. CASE ~sysReset /\ save
    BY <1>1, <1>3 DEF Saves, Stored, RInv, RecordsSurvive, Recorded
  <1>4. CASE ~sysReset /\ ~save
    BY <1>1, <1>4 DEF Saves, RInv, RecordsSurvive
  <1> QED BY <1>2, <1>3, <1>4

LEMMA RecordsStep == RInv /\ [Next]_vars => RInv'
  <1> SUFFICES ASSUME RInv, [Next]_vars
               PROVE  RInv'
    OBVIOUS
  <1> USE DEF RInv, RecordsSurvive, record, history
  <1>1. CASE UNCHANGED vars
    BY <1>1 DEF vars
  <1>2. CASE Activate \/ Suspend \/ PostEvent \/ Periodic \/ LoadDue \/ LoadOntime
    BY <1>2 DEF Activate, Suspend, PostEvent, Periodic, LoadDue, LoadOntime
  <1>3. CASE SetUrl
    BY <1>3 DEF SetUrl, Recorded
  <1>4. CASE Dial \/ Unreachable \/ (\E server \in Servers : Connected(server))
    BY <1>4 DEF Dial, Unreachable, Connected
  <1>5. CASE InformResponse
    BY <1>5 DEF InformResponse, Recorded
  <1>6. CASE TransferCompleteResponse \/ TransferRefused
    BY <1>6 DEF TransferCompleteResponse, TransferRefused
  <1>7. CASE \E l \in Loads, delayed \in BOOLEAN : Download(l, delayed)
    BY <1>7 DEF Download
  <1>8. CASE Reboot
    BY <1>8 DEF Reboot, Recorded
  <1>9. CASE FactoryReset \/ Empty \/ Broken
    BY <1>9 DEF FactoryReset, Empty, Broken
  <1>10. CASE TaskTail
    BY <1>10, RecordsTail
  <1>11. CASE PowerCycle \/ Upgraded
    BY <1>11, RecordsRestart DEF PowerCycle, Upgraded
  <1>12. CASE LoadEnded
    <2>1. /\ disk'.bootstrap = bootstrap /\ disk'.reboot = reboot /\ save' = FALSE
          /\ UNCHANGED <<bootstrap, reboot, sysReset, owedEvents>>
      BY <1>12 DEF LoadEnded, Stored
    <2>2. owedEvents \subseteq Recorded(bootstrap, reboot)
      OBVIOUS
    <2> QED BY <2>1, <2>2
  <1> QED
    BY <1>1, <1>2, <1>3, <1>4, <1>5, <1>6, <1>7, <1>8, <1>9, <1>10, <1>11, <1>12 DEF Next

\* What a session left to be announced is still recorded, in memory and on the disk, until an
\* Inform is answered, wherever the power fails.
THEOREM RecordsAreKept == Spec => []RecordsSurvive
  <1>1. RInv => RecordsSurvive
    BY DEF RInv
  <1> QED BY <1>1, RecordsInit, RecordsStep, PTL DEF Spec

-----------------------------------------------------------------------------
(* Queues of loads.                                                        *)

AtTheHead(q) == \A i \in DOMAIN q : i > 1 => q[i].st = "init"

LEMMA LoadFacts ==
    ASSUME NEW q \in Seq(Load)
    PROVE  /\ Len(q) \in Nat /\ DOMAIN q = 1 .. Len(q)
           /\ q = <<>> <=> Len(q) = 0
           /\ \A i \in 1 .. Len(q) : q[i] \in Load /\ q[i].id \in Loads /\ q[i].st \in States
  <1>1. Len(q) \in Nat /\ DOMAIN q = 1 .. Len(q) /\ (q = <<>> <=> Len(q) = 0)
    BY LenProperties, EmptySeq
  <1>2. \A i \in 1 .. Len(q) : q[i] \in Load
    BY ElementOfSeq
  <1> QED BY <1>1, <1>2 DEF Load

LEMMA HeadAsFacts ==
    ASSUME NEW q \in Seq(Load), q # <<>>, NEW st \in States
    PROVE  /\ HeadAs(q, st) \in Seq(Load)
           /\ Len(HeadAs(q, st)) = Len(q)
           /\ Ids(HeadAs(q, st)) = Ids(q)
           /\ HeadAs(q, st)[1].st = st
           /\ AtTheHead(q) => AtTheHead(HeadAs(q, st))
  <1> DEFINE h == HeadAs(q, st)
  <1>1. Len(q) \in Nat /\ Len(q) >= 1 /\ DOMAIN q = 1 .. Len(q)
    BY LoadFacts
  <1>2. DOMAIN h = 1 .. Len(q)
    BY <1>1 DEF HeadAs
  <1>3. \A i \in 1 .. Len(q) : /\ h[i].id = q[i].id
                               /\ h[i] \in Load
                               /\ i > 1 => h[i] = q[i]
    <2> SUFFICES ASSUME NEW i \in 1 .. Len(q)
                 PROVE  h[i].id = q[i].id /\ h[i] \in Load /\ (i > 1 => h[i] = q[i])
      OBVIOUS
    <2>1. q[i] \in Load
      BY LoadFacts
    <2>2. h[i] = IF i = 1 THEN [q[i] EXCEPT !.st = st] ELSE q[i]
      BY <1>1 DEF HeadAs
    <2> QED BY <2>1, <2>2 DEF Load
  <1>4. h \in [1 .. Len(q) -> Load]
    BY <1>1, <1>2, <1>3 DEF HeadAs
  <1>5. h \in Seq(Load) /\ Len(h) = Len(q)
    BY <1>1, <1>2, <1>4, SeqDef, LenProperties
  <1>6. Ids(h) = Ids(q)
    BY <1>1, <1>2, <1>3 DEF Ids
  <1>7. AtTheHead(q) => AtTheHead(h)
    BY <1>1, <1>2, <1>3 DEF AtTheHead
  <1>8. h[1].st = st
    <2>1. q[1] \in Load /\ h[1] = [q[1] EXCEPT !.st = st]
      BY <1>1, LoadFacts DEF HeadAs
    <2> QED BY <2>1 DEF Load
  <1> QED BY <1>5, <1>6, <1>7, <1>8

LEMMA TailLoadFacts ==
    ASSUME NEW q \in Seq(Load), q # <<>>, AtTheHead(q)
    PROVE  /\ Tail(q) \in Seq(Load)
           /\ Len(Tail(q)) = Len(q) - 1
           /\ Ids(Tail(q)) \subseteq Ids(q)
           /\ Ids(q) \ {q[1].id} \subseteq Ids(Tail(q))
           /\ \A i \in DOMAIN Tail(q) : Tail(q)[i].st = "init"
  <1> DEFINE t == Tail(q)
  <1>1. Len(q) \in Nat /\ Len(q) >= 1 /\ DOMAIN q = 1 .. Len(q)
    BY LoadFacts
  <1>2. t \in Seq(Load) /\ Len(t) = Len(q) - 1 /\ \A i \in 1 .. Len(q) - 1 : t[i] = q[i + 1]
    BY HeadTailProperties
  <1>3. DOMAIN t = 1 .. Len(q) - 1
    BY <1>2, LoadFacts
  <1>4. \A i \in 1 .. Len(q) - 1 : i + 1 \in 1 .. Len(q) /\ i + 1 > 1
    BY <1>1
  <1>5. Ids(t) \subseteq Ids(q)
    BY <1>1, <1>2, <1>3, <1>4 DEF Ids
  <1>6. ASSUME NEW x \in Ids(q), x # q[1].id
        PROVE  x \in Ids(t)
    <2>1. PICK i \in 1 .. Len(q) : q[i].id = x
      BY <1>1 DEF Ids
    <2>2. i # 1
      BY <1>6, <2>1
    <2> DEFINE j == i - 1
    <2>3. j \in 1 .. Len(q) - 1 /\ j + 1 = i
      BY <1>1, <2>2
    <2>4. t[j] = q[i]
      BY <1>2, <2>3
    <2> HIDE DEF j
    <2> QED BY <1>3, <2>1, <2>3, <2>4 DEF Ids
  <1>7. \A i \in DOMAIN t : t[i].st = "init"
    BY <1>1, <1>2, <1>3, <1>4 DEF AtTheHead
  <1> QED BY <1>2, <1>5, <1>6, <1>7

\* A load that is inserted behind those that are due leaves a load at work at the head.
LEMMA InsertLoadFacts ==
    ASSUME NEW q \in Seq(Load), NEW l \in Loads, NEW p \in 0 .. Len(q), AtTheHead(q),
           q # <<>> /\ q[1].st # "init" => p > 0
    PROVE  LET r == InsertAt(q, p + 1, [id |-> l, st |-> "init"]) IN
           /\ r \in Seq(Load)
           /\ Len(r) = Len(q) + 1
           /\ Ids(q) \subseteq Ids(r)
           /\ AtTheHead(r)
           /\ r[1].st # "init" => q # <<>> /\ r[1] = q[1]
  <1> DEFINE e == [id |-> l, st |-> "init"]
             r == InsertAt(q, p + 1, e)
  <1>1. Len(q) \in Nat /\ DOMAIN q = 1 .. Len(q) /\ e \in Load /\ e.st = "init"
    BY LoadFacts DEF Load, States
  <1>2. p + 1 \in 1 .. Len(q) + 1
    BY <1>1
  <1>3. /\ r \in Seq(Load) /\ Len(r) = Len(q) + 1
        /\ \A j \in 1 .. Len(q) + 1 : r[j] = IF j < p + 1 THEN q[j] ELSE IF j = p + 1 THEN e ELSE q[j - 1]
    <2> DEFINE k == p + 1
    <2>1. k \in 1 .. Len(q) + 1 /\ e \in Load
      BY <1>1, <1>2
    <2> HIDE DEF k, e
    <2>3. k \in 1 .. Len(q) + 1 /\ e \in Load /\ q \in Seq(Load)
      BY <2>1
    <2>2. /\ InsertAt(q, k, e) \in Seq(Load) /\ Len(InsertAt(q, k, e)) = Len(q) + 1
          /\ \A j \in 1 .. Len(q) + 1 :
               InsertAt(q, k, e)[j] = IF j < k THEN q[j] ELSE IF j = k THEN e ELSE q[j - 1]
      BY <2>3, InsertAtFacts
    <2> QED BY <2>2 DEF k
  <1> HIDE DEF r, e
  <1>4. DOMAIN r = 1 .. Len(q) + 1
    BY <1>3, LoadFacts
  <1>5. ASSUME NEW x \in Ids(q)
        PROVE  x \in Ids(r)
    <2>1. PICK i \in 1 .. Len(q) : q[i].id = x
      BY <1>1 DEF Ids
    <2>2. \E j \in 1 .. Len(q) + 1 : r[j] = q[i]
      <3>1. CASE i < p + 1
        BY <1>1, <1>3, <3>1
      <3>2. CASE ~(i < p + 1)
        <4> DEFINE j == i + 1
        <4>1. j \in 1 .. Len(q) + 1 /\ ~(j < p + 1) /\ j # p + 1 /\ j - 1 = i
          BY <1>1, <3>2
        <4> HIDE DEF j
        <4> QED BY <1>3, <4>1
      <3> QED BY <3>1, <3>2
    <2> QED BY <1>4, <2>1, <2>2 DEF Ids
  <1>6. ASSUME NEW j \in 1 .. Len(q) + 1, j > 1
        PROVE  r[j].st = "init"
    <2>1. CASE j < p + 1
      <3>1. j \in 1 .. Len(q) /\ r[j] = q[j]
        BY <1>1, <1>3, <1>6, <2>1
      <3> QED BY <1>1, <1>6, <3>1 DEF AtTheHead
    <2>2. CASE j = p + 1
      BY <1>1, <1>3, <2>2
    <2>3. CASE j > p + 1
      <3> DEFINE i == j - 1
      <3>1. i \in 1 .. Len(q) /\ r[j] = q[i] /\ (i = 1 => p = 0)
        BY <1>1, <1>3, <2>3
      <3> HIDE DEF i
      <3>2. CASE i > 1
        BY <1>1, <3>1, <3>2 DEF AtTheHead
      <3>3. CASE ~(i > 1)
        <4>1. i = 1 /\ p = 0 /\ q # <<>>
          BY <1>1, <3>1, <3>3, LoadFacts
        <4> QED BY <3>1, <4>1
      <3> QED BY <3>2, <3>3
    <2> QED BY <1>1, <2>1, <2>2, <2>3
  <1>7. r[1].st # "init" => q # <<>> /\ r[1] = q[1]
    <2>1. CASE p = 0
      BY <1>1, <1>3, <2>1
    <2>2. CASE p > 0
      <3>1. r[1] = q[1] /\ Len(q) # 0
        BY <1>1, <1>3, <2>2
      <3> QED BY <3>1, LoadFacts
    <2> QED BY <2>1, <2>2
  <1>8. AtTheHead(r)
    BY <1>4, <1>6 DEF AtTheHead
  <1>9. Ids(q) \subseteq Ids(r)
    BY <1>5
  <1> QED BY <1>3, <1>7, <1>8, <1>9 DEF r, e

\* f numbers the members of R from the smallest to the largest.
Enumerates(f, k, R) ==
    /\ f \in [1 .. k -> R]
    /\ \A i, j \in 1 .. k : i < j => f[i] < f[j]
    /\ \A p \in R : \E i \in 1 .. k : f[i] = p

\* Any set of places can be put in order: the smallest bound below which it cannot be would
\* itself be one more place behind those that can.
LEMMA Enumerable ==
    ASSUME NEW n \in Nat, NEW R \in SUBSET (1 .. n)
    PROVE  \E k \in 0 .. n : \E f : Enumerates(f, k, R)
  <1> DEFINE Below(m) == {p \in R : p <= m}
             Done(m) == \E k \in 0 .. m : \E f : Enumerates(f, k, Below(m))
             T == {m \in 0 .. n : ~Done(m)}
  <1>0. \A p \in R : p \in 1 .. n /\ p \in Nat /\ p >= 1
    OBVIOUS
  <1>1. Done(0)
    <2>1. Below(0) = {}
      <3>1. \A p \in R : ~(p <= 0)
        BY <1>0
      <3> QED BY <3>1, Zenon
    <2>2. 1 .. 0 = {} /\ 0 \in 0 .. 0
      OBVIOUS
    <2>3. [i \in 1 .. 0 |-> 0] \in [1 .. 0 -> {}]
      BY <2>2
    <2>4. Enumerates([i \in 1 .. 0 |-> 0], 0, {})
      BY <2>2, <2>3 DEF Enumerates
    <2> QED BY <2>1, <2>2, <2>4
  <1>2. ASSUME NEW m \in 1 .. n, Done(m - 1)
        PROVE  Done(m)
    <2>0. PICK k \in 0 .. m - 1 : \E f : Enumerates(f, k, Below(m - 1))
      BY <1>2
    <2>1. PICK f : k \in 0 .. m - 1 /\ Enumerates(f, k, Below(m - 1))
      BY <2>0
    <2>2. k \in 0 .. m /\ k + 1 \in 0 .. m
      BY <2>1
    <2>3. CASE m \notin R
      <3>1. Below(m) = Below(m - 1)
        <4>1. \A p \in R : p <= m <=> p <= m - 1
          BY <1>0, <2>3
        <4> QED BY <4>1
      <3> QED BY <2>1, <2>2, <3>1
    <2>4. CASE m \in R
      <3>1. PICK g : g = [i \in 1 .. k + 1 |-> IF i <= k THEN f[i] ELSE m]
        OBVIOUS
      <3>2. \A i \in 1 .. k : f[i] \in R /\ f[i] \in Nat /\ f[i] <= m - 1 /\ f[i] < m
        <4>1. \A i \in 1 .. k : f[i] \in Below(m - 1)
          BY <2>1 DEF Enumerates
        <4>2. \A p \in R : p \in Nat /\ (p <= m - 1 => p < m)
          BY <1>0
        <4> QED BY <4>1, <4>2
      <3>3. /\ g[k + 1] = m
            /\ \A i \in 1 .. k : g[i] = f[i] /\ i \in 1 .. k + 1
            /\ \A i \in 1 .. k + 1 : i \in 1 .. k \/ i = k + 1
        BY <3>1
      <3>4. Below(m) = Below(m - 1) \cup {m}
        <4>1. \A p \in R : p <= m <=> p <= m - 1 \/ p = m
          BY <1>0
        <4> QED BY <2>4, <4>1
      <3>5. \A i \in 1 .. k + 1 : g[i] \in Below(m)
        <4>1. \A i \in 1 .. k : f[i] \in Below(m)
          BY <3>2
        <4>2. m \in Below(m)
          BY <2>4
        <4> QED BY <3>3, <4>1, <4>2
      <3>6. g \in [1 .. k + 1 -> Below(m)]
        BY <3>1, <3>5
      <3>7. ASSUME NEW i \in 1 .. k + 1, NEW j \in 1 .. k + 1, i < j
            PROVE  g[i] < g[j]
        <4>1. i \in 1 .. k /\ g[i] = f[i]
          BY <2>1, <3>3, <3>7
        <4>2. CASE j \in 1 .. k
          BY <2>1, <3>3, <3>7, <4>1, <4>2 DEF Enumerates
        <4>3. CASE j = k + 1
          BY <3>2, <3>3, <4>1, <4>3
        <4> QED BY <3>3, <4>2, <4>3
      <3>8. ASSUME NEW p \in Below(m)
            PROVE  \E i \in 1 .. k + 1 : g[i] = p
        <4>1. CASE p = m
          BY <2>1, <3>3, <4>1
        <4>2. CASE p # m
          <5>1. p \in Below(m - 1)
            BY <3>4, <4>2
          <5>2. PICK i \in 1 .. k : f[i] = p
            BY <2>1, <5>1 DEF Enumerates
          <5> QED BY <3>3, <5>2
        <4> QED BY <4>1, <4>2
      <3>9. Enumerates(g, k + 1, Below(m))
        BY <3>6, <3>7, <3>8 DEF Enumerates
      <3> QED BY <2>2, <3>9
    <2> QED BY <2>3, <2>4
  <1> HIDE DEF Done
  <1>3. T = {}
    <2> SUFFICES ASSUME T # {} PROVE FALSE
      OBVIOUS
    <2>1. PICK m \in T : \A i \in T : m <= i
      <3>1. T \in SUBSET Nat
        OBVIOUS
      <3> QED BY <3>1, LeastExists
    <2>2. m # 0
      BY <1>1, <2>1
    <2>3. m \in 1 .. n /\ m - 1 \in 0 .. n /\ ~(m <= m - 1)
      BY <2>1, <2>2
    <2>4. Done(m - 1)
      BY <2>1, <2>3
    <2> QED BY <1>2, <2>1, <2>3, <2>4
  <1>4. Done(n) /\ Below(n) = R
    <2>1. n \in 0 .. n /\ \A p \in R : p <= n
      BY <1>0
    <2> QED BY <1>3, <2>1
  <1> QED BY <1>4 DEF Done

LEMMA PlacesFacts ==
    ASSUME disk.queue \in Seq(Load)
    PROVE  \E k \in 0 .. Len(disk.queue) : Enumerates(Places, k, Readable)
  <1>1. PICK n : n = Len(disk.queue)
    OBVIOUS
  <1>2. n \in Nat /\ Readable \in SUBSET (1 .. n)
    BY <1>1, LoadFacts DEF Readable
  <1>0. PICK k \in 0 .. n : \E f : Enumerates(f, k, Readable)
    BY <1>2, Enumerable
  <1>3. PICK f : k \in 0 .. n /\ Enumerates(f, k, Readable)
    BY <1>0
  <1>4. DOMAIN f = 1 .. k /\ f \in SeqOf(Readable, n) /\ InOrder(f)
    BY <1>3 DEF Enumerates, SeqOf, InOrder
  <1>5. Places \in SeqOf(Readable, n) /\ InOrder(Places)
    BY <1>1, <1>4 DEF Places
  <1>6. PICK m \in 0 .. n : Places \in [1 .. m -> Readable]
    BY <1>5 DEF SeqOf
  <1>7. DOMAIN Places = 1 .. m
    BY <1>6
  <1> QED BY <1>1, <1>5, <1>6, <1>7 DEF Enumerates, InOrder

Distinct(q) == \A i, j \in DOMAIN q : q[i].id = q[j].id => i = j

\* A restart brings back the legible loads of the disk, in their order.
LEMMA ReloadedFacts ==
    ASSUME disk.queue \in Seq(Load), AtTheHead(disk.queue)
    PROVE  /\ Reloaded \in Seq(Load)
           /\ Ids(Reloaded) = Ids(disk.queue) \cap Legible
           /\ AtTheHead(Reloaded)
           /\ Distinct(disk.queue) => Distinct(Reloaded)
  <1>1. PICK q : q = disk.queue
    OBVIOUS
  <1>2. q \in Seq(Load) /\ Len(q) \in Nat /\ DOMAIN q = 1 .. Len(q)
    BY <1>1, LoadFacts
  <1>3. PICK k \in 0 .. Len(q) : Enumerates(Places, k, Readable)
    BY <1>1, PlacesFacts
  <1>4. PICK f : f = Places
    OBVIOUS
  <1>5. /\ f \in [1 .. k -> Readable] /\ DOMAIN f = 1 .. k
        /\ \A i, j \in 1 .. k : i < j => f[i] < f[j]
        /\ \A p \in Readable : \E i \in 1 .. k : f[i] = p
    BY <1>3, <1>4 DEF Enumerates
  <1>6. Readable = {p \in 1 .. Len(q) : q[p].id \in Legible}
    BY <1>1, <1>2 DEF Readable
  <1>7. \A i \in 1 .. k : f[i] \in 1 .. Len(q) /\ q[f[i]].id \in Legible
    BY <1>5, <1>6
  <1>8. PICK r : r = Reloaded
    OBVIOUS
  <1>9. r = [i \in 1 .. k |-> [q[f[i]] EXCEPT !.st = IF @ = "start" THEN "init" ELSE @]]
    BY <1>1, <1>4, <1>5, <1>8 DEF Reloaded
  <1>10. \A i \in 1 .. k :
           /\ r[i] \in Load /\ r[i].id = q[f[i]].id
           /\ q[f[i]].st = "init" => r[i].st = "init"
    <2> SUFFICES ASSUME NEW i \in 1 .. k
                 PROVE  /\ r[i] \in Load /\ r[i].id = q[f[i]].id
                        /\ q[f[i]].st = "init" => r[i].st = "init"
      OBVIOUS
    <2>1. q[f[i]] \in Load
      BY <1>2, <1>7, LoadFacts
    <2>2. r[i] = [q[f[i]] EXCEPT !.st = IF @ = "start" THEN "init" ELSE @]
      BY <1>9
    <2> QED BY <2>1, <2>2 DEF Load, States
  <1>11. DOMAIN r = 1 .. k
    BY <1>9
  <1>12. r \in Seq(Load)
    <2>1. r \in [1 .. k -> Load]
      BY <1>9, <1>10, <1>11
    <2> QED BY <1>3, <2>1, SeqDef
  <1>13. Ids(r) = Ids(q) \cap Legible
    <2>1. \A i \in 1 .. k : r[i].id \in Ids(q) /\ r[i].id \in Legible
      BY <1>2, <1>7, <1>10 DEF Ids
    <2>2. ASSUME NEW x \in Ids(q), x \in Legible
          PROVE  \E i \in 1 .. k : r[i].id = x
      <3>1. PICK p \in 1 .. Len(q) : q[p].id = x
        BY <1>2 DEF Ids
      <3>2. p \in Readable
        BY <1>6, <2>2, <3>1
      <3>3. PICK i \in 1 .. k : f[i] = p
        BY <1>5, <3>2
      <3> QED BY <1>10, <3>1, <3>3
    <2> QED BY <1>11, <2>1, <2>2 DEF Ids
  <1>14. AtTheHead(r)
    <2> SUFFICES ASSUME NEW i \in 1 .. k, i > 1
                 PROVE  r[i].st = "init"
      BY <1>11 DEF AtTheHead
    <2>1. 1 \in 1 .. k /\ f[1] \in 1 .. Len(q) /\ f[i] \in 1 .. Len(q)
      BY <1>3, <1>7
    <2>2. f[1] < f[i]
      BY <1>5, <2>1
    <2>3. q[f[i]].st = "init"
      BY <1>1, <1>2, <2>1, <2>2 DEF AtTheHead
    <2> QED BY <1>10, <2>3
  <1>15. ASSUME Distinct(q), NEW i \in 1 .. k, NEW j \in 1 .. k, r[i].id = r[j].id
         PROVE  i = j
    <2>1. f[i] \in 1 .. Len(q) /\ f[j] \in 1 .. Len(q) /\ q[f[i]].id = q[f[j]].id
      BY <1>7, <1>10, <1>15
    <2>2. f[i] = f[j]
      BY <1>2, <1>15, <2>1 DEF Distinct
    <2>3. ~(i < j) /\ ~(j < i)
      BY <1>5, <2>1, <2>2
    <2> QED BY <1>3, <2>3
  <1>16. Distinct(q) => Distinct(r)
    BY <1>11, <1>15 DEF Distinct
  <1> QED BY <1>1, <1>8, <1>12, <1>13, <1>14, <1>16

-----------------------------------------------------------------------------
(* Loads survive.                                                          *)

\* A load at the head that has been started was due, so that no later order comes before it;
\* what is queued in memory and not on the disk is marked for saving.
QInv ==
    /\ queue \in Seq(Load) /\ disk.queue \in Seq(Load)
    /\ ndue \in 0 .. Len(queue)
    /\ save \in BOOLEAN
    /\ AtTheHead(queue) /\ AtTheHead(disk.queue)
    /\ queue # <<>> /\ queue[1].st # "init" => ndue > 0
    /\ pc = "transfer" => queue # <<>> /\ queue[1].st = "complete"
    /\ LoadsSurvive
    /\ ~save => Ids(queue) \subseteq Ids(disk.queue)

\* The invariant of the next state, conjunct by conjunct.
LEMMA NextQueues ==
    ASSUME queue' \in Seq(Load), disk'.queue \in Seq(Load), ndue' \in 0 .. Len(queue'),
           save' \in BOOLEAN, AtTheHead(queue'), AtTheHead(disk'.queue),
           queue' # <<>> /\ queue'[1].st # "init" => ndue' > 0,
           pc' = "transfer" => queue' # <<>> /\ queue'[1].st = "complete",
           owedLoads' \subseteq Ids(queue'), owedLoads' \subseteq Ids(disk'.queue),
           ~save' => Ids(queue') \subseteq Ids(disk'.queue)
    PROVE  QInv'
  <1>1. AtTheHead(queue)' /\ AtTheHead(disk.queue)'
    BY DEF AtTheHead
  <1>2. LoadsSurvive'
    BY DEF LoadsSurvive, Ids
  <1>3. (~save => Ids(queue) \subseteq Ids(disk.queue))'
    BY DEF Ids
  <1> QED BY <1>1, <1>2, <1>3 DEF QInv

LEMMA QueuesInit == Init => QInv
  <1> SUFFICES ASSUME Init
               PROVE  QInv
    OBVIOUS
  <1>1. /\ queue = <<>> /\ disk.queue = <<>> /\ ndue = 0 /\ save = FALSE /\ owedLoads = {}
        /\ pc = "wait"
    BY DEF Init, Stored
  <1>2. <<>> \in Seq(Load) /\ Len(<<>>) = 0 /\ DOMAIN <<>> = {}
    BY EmptySeq, LoadFacts
  <1>3. AtTheHead(<<>>)
    BY <1>2 DEF AtTheHead
  <1>4. ndue \in 0 .. Len(queue)
    BY <1>1, <1>2
  <1>5. LoadsSurvive
    BY <1>1 DEF LoadsSurvive
  <1>6. ~save => Ids(queue) \subseteq Ids(disk.queue)
    BY <1>1
  <1> QED BY <1>1, <1>2, <1>3, <1>4, <1>5, <1>6 DEF QInv

\* A step that leaves the queue alone, and asks for a save at most.
LEMMA QueuesApart ==
    ASSUME QInv, UNCHANGED <<queue, ndue, disk, owedLoads>>, save' \in BOOLEAN, save => save',
           pc' = "transfer" => HeadIs(queue, "complete")
    PROVE  QInv'
  <1>1. pc' = "transfer" => queue # <<>> /\ queue[1].st = "complete"
    BY DEF HeadIs
  <1> QED BY <1>1, NextQueues DEF QInv, LoadsSurvive

LEMMA QueuesLoadDue ==
    ASSUME QInv, LoadDue
    PROVE  QInv'
  <1>1. ndue' \in 0 .. Len(queue) /\ ndue' > 0
    BY LoadFacts DEF QInv, LoadDue
  <1>2. UNCHANGED <<pc, queue, disk, save, owedLoads>>
    BY DEF LoadDue, record, history
  <1> QED BY <1>1, <1>2, NextQueues DEF QInv, LoadsSurvive

\* The head changes its state and nothing else changes.
LEMMA QueuesHead ==
    ASSUME QInv, LoadOntime
    PROVE  QInv'
  <1>1. pc' = "wait" /\ ndue > 0 /\ UNCHANGED <<ndue, disk, save, owedLoads>>
    BY DEF LoadOntime, record, history
  <1>2. CASE queue' = queue
    BY <1>1, <1>2, NextQueues DEF QInv, LoadsSurvive
  <1>3. ASSUME NEW st \in States, queue # <<>>, queue' = HeadAs(queue, st)
        PROVE  QInv'
    <2>1. /\ queue' \in Seq(Load) /\ Len(queue') = Len(queue)
          /\ Ids(queue') = Ids(queue) /\ AtTheHead(queue')
      BY <1>3, HeadAsFacts DEF QInv
    <2> QED BY <1>1, <2>1, NextQueues DEF QInv, LoadsSurvive
  <1> QED BY <1>2, <1>3 DEF LoadOntime, HeadIs, States

LEMMA QueuesAcknowledged ==
    ASSUME QInv, TransferCompleteResponse
    PROVE  QInv'
  <1>1. /\ pc = "transfer" /\ queue' = Tail(queue) /\ ndue' = ndue - 1 /\ pc' = Say(Tail(queue))
        /\ owedLoads' = owedLoads \ {queue[1].id} /\ UNCHANGED <<disk, save>>
    BY DEF TransferCompleteResponse, record
  <1>2. queue # <<>> /\ queue[1].st = "complete" /\ ndue > 0
    BY <1>1 DEF QInv
  <1>3. /\ queue' \in Seq(Load) /\ Len(queue') = Len(queue) - 1
        /\ Ids(queue') \subseteq Ids(queue) /\ Ids(queue) \ {queue[1].id} \subseteq Ids(queue')
        /\ \A i \in DOMAIN queue' : queue'[i].st = "init"
    BY <1>1, <1>2, TailLoadFacts DEF QInv
  <1>4. ndue' \in 0 .. Len(queue')
    BY <1>1, <1>2, <1>3, LoadFacts DEF QInv
  <1>5. queue' # <<>> => queue'[1].st = "init"
    <2>1. queue' # <<>> => 1 \in DOMAIN queue'
      BY <1>3, LoadFacts
    <2> QED BY <1>3, <2>1
  <1>6. pc' # "transfer"
    BY <1>1, <1>5 DEF Say, HeadIs
  <1>7. AtTheHead(queue')
    BY <1>3 DEF AtTheHead
  <1>8. owedLoads' \subseteq Ids(queue') /\ owedLoads' \subseteq Ids(disk'.queue)
    BY <1>1, <1>3 DEF QInv, LoadsSurvive
  <1>9. ~save' => Ids(queue') \subseteq Ids(disk'.queue)
    BY <1>1, <1>3 DEF QInv
  <1> QED BY <1>1, <1>3, <1>4, <1>5, <1>6, <1>7, <1>8, <1>9, NextQueues DEF QInv

LEMMA QueuesOrdered ==
    ASSUME QInv, NEW l \in Loads, NEW delayed \in BOOLEAN, Download(l, delayed)
    PROVE  QInv'
  <1>1. /\ pc' = "open" /\ save' = TRUE /\ UNCHANGED <<disk, owedLoads>>
        /\ ndue' = IF delayed THEN ndue ELSE ndue + 1
    BY DEF Download, history
  <1>2. PICK p \in Place(delayed) : queue' = InsertAt(queue, p + 1, [id |-> l, st |-> "init"])
    BY DEF Download
  <1>3. p \in 0 .. Len(queue) /\ p >= ndue /\ ndue \in 0 .. Len(queue) /\ Len(queue) \in Nat
    BY <1>2, LoadFacts DEF QInv, Place
  <1>4. queue # <<>> /\ queue[1].st # "init" => p > 0
    BY <1>3 DEF QInv
  <1>5. /\ queue' \in Seq(Load) /\ Len(queue') = Len(queue) + 1
        /\ Ids(queue) \subseteq Ids(queue') /\ AtTheHead(queue')
        /\ queue'[1].st # "init" => queue # <<>> /\ queue'[1] = queue[1]
    BY <1>2, <1>3, <1>4, InsertLoadFacts DEF QInv
  <1>6. ndue' \in 0 .. Len(queue') /\ ndue' >= ndue
    BY <1>1, <1>3, <1>5
  <1>7. queue' # <<>> /\ queue'[1].st # "init" => ndue' > 0
    BY <1>3, <1>5, <1>6 DEF QInv
  <1> QED BY <1>1, <1>5, <1>6, <1>7, NextQueues DEF QInv, LoadsSurvive

LEMMA QueuesSaved ==
    ASSUME QInv, TaskTail
    PROVE  QInv'
  <1>1. /\ pc' = "wait" /\ save' = FALSE /\ disk' = Saves /\ owedLoads' = Ids(queue)
        /\ UNCHANGED <<queue, ndue>>
    BY DEF TaskTail, loads
  <1>2. /\ disk'.queue = queue \/ disk'.queue = disk.queue
        /\ Ids(queue) \subseteq Ids(disk'.queue)
    BY <1>1 DEF Saves, Stored, QInv
  <1> QED BY <1>1, <1>2, NextQueues DEF QInv, LoadsSurvive

\* The end of a load is saved at once.
LEMMA QueuesEnded ==
    ASSUME QInv, LoadEnded
    PROVE  QInv'
  <1>1. /\ pc' = "wait" /\ save' = FALSE /\ UNCHANGED <<ndue, owedLoads>>
        /\ queue # <<>> /\ queue[1].st = "start" /\ queue' = HeadAs(queue, "complete")
        /\ disk'.queue = queue' /\ "complete" \in States
    BY DEF LoadEnded, Listening, HeadIs, Stored, States, history
  <1>2. /\ queue' \in Seq(Load) /\ Len(queue') = Len(queue)
        /\ Ids(queue') = Ids(queue) /\ AtTheHead(queue')
    BY <1>1, HeadAsFacts DEF QInv
  <1>3. ndue' \in 0 .. Len(queue') /\ ndue' > 0
    BY <1>1, <1>2 DEF QInv
  <1> QED BY <1>1, <1>2, <1>3, NextQueues DEF QInv, LoadsSurvive

\* The queue a restart resumes with has the legible loads of the disk, and the disk has them
\* afterwards, whether it is written again or not.
LEMMA QueuesRestart ==
    ASSUME QInv, NEW type, Restart(type)
    PROVE  QInv'
  <1>1. /\ pc' = "wait" /\ save' = FALSE /\ owedLoads' = owedLoads \cap Legible
        /\ queue' = Reported(type) /\ ndue' = Len(queue')
        /\ (disk' = disk \/ disk'.queue = queue')
    BY DEF Restart, Stored
  <1>2. /\ Reloaded \in Seq(Load) /\ Ids(Reloaded) = Ids(disk.queue) \cap Legible
        /\ AtTheHead(Reloaded)
    BY ReloadedFacts DEF QInv
  <1>3. queue' \in Seq(Load) /\ Ids(queue') = Ids(disk.queue) \cap Legible /\ AtTheHead(queue')
    <2>1. CASE queue' = Reloaded
      BY <1>2, <2>1
    <2>2. CASE queue' # Reloaded
      <3>1. Reloaded # <<>> /\ queue' = HeadAs(Reloaded, "complete") /\ "complete" \in States
        BY <1>1, <2>2 DEF Reported, Matched, States
      <3> QED BY <1>2, <3>1, HeadAsFacts
    <2> QED BY <2>1, <2>2
  <1>4. ndue' \in 0 .. Len(queue') /\ (queue' # <<>> => ndue' > 0)
    BY <1>1, <1>3, LoadFacts
  <1>5. /\ disk'.queue \in Seq(Load) /\ Ids(queue') \subseteq Ids(disk'.queue)
        /\ AtTheHead(disk'.queue)
    BY <1>1, <1>3 DEF QInv
  <1>6. owedLoads' \subseteq Ids(queue')
    BY <1>1, <1>3 DEF QInv, LoadsSurvive
  <1> QED BY <1>1, <1>3, <1>4, <1>5, <1>6, NextQueues

LEMMA QueuesStep == QInv /\ [Next]_vars => QInv'
  <1> SUFFICES ASSUME QInv, [Next]_vars
               PROVE  QInv'
    OBVIOUS
  <1>1. CASE UNCHANGED vars
    <2>1. UNCHANGED <<pc, queue, ndue, disk, save, owedLoads>>
      BY <1>1 DEF vars, record, loads, history
    <2> QED BY <2>1, NextQueues DEF QInv, LoadsSurvive
  <1>2. CASE Activate \/ Suspend \/ PostEvent \/ Periodic \/ SetUrl
    <2>1. /\ UNCHANGED <<pc, queue, ndue, disk, owedLoads>> /\ save' \in BOOLEAN /\ (save => save')
      BY <1>2 DEF Activate, Suspend, PostEvent, Periodic, SetUrl, record, loads, history, QInv
    <2> QED BY <2>1, QueuesApart DEF QInv, HeadIs
  <1>3. CASE Dial \/ Unreachable \/ (\E server \in Servers : Connected(server))
    <2>1. /\ UNCHANGED <<queue, ndue, disk, owedLoads>> /\ save' \in BOOLEAN /\ (save => save')
      BY <1>3 DEF Dial, Unreachable, Connected, record, loads, history, QInv
    <2>2. pc' # "transfer"
      BY <1>3 DEF Dial, Unreachable, Connected
    <2> QED BY <2>1, <2>2, QueuesApart
  <1>4. CASE InformResponse \/ TransferRefused \/ Reboot \/ FactoryReset \/ Empty \/ Broken
    <2>1. /\ UNCHANGED <<queue, ndue, disk, owedLoads>> /\ save' \in BOOLEAN /\ (save => save')
      BY <1>4 DEF InformResponse, TransferRefused, Reboot, FactoryReset, Empty, Broken,
                  record, loads, history, QInv
    <2>2. pc' = "transfer" => HeadIs(queue, "complete")
      BY <1>4 DEF InformResponse, TransferRefused, Reboot, FactoryReset, Empty, Broken, Say
    <2> QED BY <2>1, <2>2, QueuesApart
  <1>5. CASE \E l \in Loads, delayed \in BOOLEAN : Download(l, delayed)
    BY <1>5, QueuesOrdered
  <1>6. CASE PowerCycle \/ Upgraded
    BY <1>6, QueuesRestart DEF PowerCycle, Upgraded
  <1> QED
    BY <1>1, <1>2, <1>3, <1>4, <1>5, <1>6, QueuesLoadDue, QueuesHead, QueuesAcknowledged,
       QueuesEnded, QueuesSaved DEF Next

LEMMA QueuesInvariance == Spec => []QInv
  BY QueuesInit, QueuesStep, PTL DEF Spec

\* An accepted download stays queued, in memory and on the disk, until it is acknowledged,
\* wherever the power fails; a restart forgets those whose record cannot be read back, and no
\* others.
THEOREM LoadsAreKept == Spec => []LoadsSurvive
  <1>1. QInv => LoadsSurvive
    BY DEF QInv
  <1> QED BY <1>1, QueuesInvariance, PTL

\* Work is only ever done at the head of the queue.
THEOREM HeadIsAtWork == Spec => []WorkIsAtTheHead
  <1>1. QInv => WorkIsAtTheHead
    BY DEF QInv, WorkIsAtTheHead, AtTheHead
  <1> QED BY <1>1, QueuesInvariance, PTL

-----------------------------------------------------------------------------
(* Why an agent sleeps.                                                    *)

\* Events that no Inform carries any more, and a finished load that no event announces, have
\* been passed over; an Inform under way is marked or carries extended events.
SInv ==
    /\ flags # {} /\ inform = "none" => slighted
    /\ pc = "posted" => inform = "posting" \/ alarm
    /\ pc = "open" /\ HeadIs(queue, "complete") => slighted
    /\ pc \notin InSession /\ state = "active" /\ inform = "none" /\ ~alarm
          /\ HeadIs(queue, "complete") => slighted

LEMMA SilenceInit == Init => SInv
  BY DEF Init, SInv, InSession

LEMMA InsetTells == \A codes : Inset(codes) => inform' # "none"
  BY DEF Inset

\* A timer of the queue ends a load only with an event that tells of it.
LEMMA SilenceHead ==
    ASSUME QInv, SInv, LoadOntime
    PROVE  SInv'
  <1>1. pc = "wait" /\ UNCHANGED <<pc, state, alarm, slighted>>
    BY DEF LoadOntime, link, history
  <1>2. CASE Inset({"TRANSFER_COMPLETE"})
    BY <1>1, <1>2, InsetTells DEF SInv, InSession
  <1>3. CASE UNCHANGED <<inform, flags>> /\ queue' = queue
    BY <1>1, <1>3 DEF SInv, InSession, HeadIs
  <1>4. CASE UNCHANGED <<inform, flags>> /\ queue # <<>> /\ queue' = HeadAs(queue, "start")
    <2>1. "start" \in States /\ queue \in Seq(Load)
      BY DEF States, QInv
    <2>2. queue'[1].st = "start"
      BY <1>4, <2>1, HeadAsFacts
    <2> QED BY <1>1, <1>4, <2>2 DEF SInv, InSession, HeadIs
  <1> QED BY <1>2, <1>3, <1>4 DEF LoadOntime, HeadIs

\* An order never brings a finished load to the head.
LEMMA SilenceOrdered ==
    ASSUME QInv, SInv, NEW l \in Loads, NEW delayed \in BOOLEAN, Download(l, delayed)
    PROVE  SInv'
  <1>1. pc = "open" /\ UNCHANGED <<pc, inform, flags, alarm, slighted>>
    BY DEF Download, events, history
  <1>2. PICK p \in Place(delayed) : queue' = InsertAt(queue, p + 1, [id |-> l, st |-> "init"])
    BY DEF Download
  <1>3. p \in 0 .. Len(queue) /\ (queue # <<>> /\ queue[1].st # "init" => p > 0)
    BY <1>2, LoadFacts DEF QInv, Place
  <1>4. queue'[1].st # "init" => queue # <<>> /\ queue'[1] = queue[1]
    BY <1>2, <1>3, InsertLoadFacts DEF QInv
  <1>5. HeadIs(queue', "complete") => HeadIs(queue, "complete")
    BY <1>4 DEF HeadIs
  <1> QED BY <1>1, <1>5 DEF SInv, InSession, HeadIs

LEMMA SilenceStep == QInv /\ SInv /\ [Next]_vars => SInv'
  <1> SUFFICES ASSUME QInv, SInv, [Next]_vars
               PROVE  SInv'
    OBVIOUS
  <1> USE DEF SInv, HeadIs, InSession
  <1>1. CASE UNCHANGED vars
    BY <1>1 DEF vars, link, events, loads, history
  <1>2. CASE Activate
    BY <1>2, InsetTells DEF Activate, Listening, history
  <1>3. CASE Periodic
    BY <1>3, InsetTells DEF Periodic, link, loads, history
  <1>4. CASE Suspend \/ PostEvent \/ SetUrl \/ LoadDue
    BY <1>4 DEF Suspend, PostEvent, SetUrl, LoadDue, Listening, link, events, loads, history
  <1>5. CASE Dial
    BY <1>5, InsetTells DEF Dial, loads, history
  <1>6. CASE Unreachable \/ (\E server \in Servers : Connected(server))
    BY <1>6 DEF Unreachable, Connected, events, loads, history
  <1>7. CASE InformResponse
    BY <1>7 DEF InformResponse, Say, link, loads
  <1>8. CASE TransferCompleteResponse
    BY <1>8 DEF TransferCompleteResponse, Say, link, events
  <1>9. CASE TransferRefused
    BY <1>9 DEF TransferRefused, link, events, loads
  <1>10. CASE Reboot \/ FactoryReset
    BY <1>10 DEF Reboot, FactoryReset, link, events, loads, history
  <1>11. CASE Empty
    BY <1>11 DEF Empty, Left, loads
  <1>12. CASE Broken
    BY <1>12 DEF Broken, Left, events, loads, history
  <1>13. CASE TaskTail
    BY <1>13 DEF TaskTail, link, events, loads
  <1>14. CASE \E l \in Loads, delayed \in BOOLEAN : Download(l, delayed)
    BY <1>14, SilenceOrdered
  <1>15. CASE LoadOntime
    BY <1>15, SilenceHead
  <1>16. CASE PowerCycle \/ Upgraded
    BY <1>16 DEF PowerCycle, Upgraded, Restart
  <1>17. CASE LoadEnded
    BY <1>17, InsetTells DEF LoadEnded, Listening, link, history
  <1> QED
    BY <1>1, <1>2, <1>3, <1>4, <1>5, <1>6, <1>7, <1>8, <1>9, <1>10, <1>11, <1>12, <1>13,
       <1>14, <1>15, <1>16, <1>17 DEF Next

\* An active agent that sleeps on something it should tell has been passed over by the server.
THEOREM SilenceIsExplained == Spec => []QuietHasACause
  <1>1. SInv => QuietHasACause
    BY DEF SInv, QuietHasACause, Quiet, Pending, InSession
  <1> QED BY <1>1, SilenceInit, SilenceStep, QueuesInvariance, PTL DEF Spec

-----------------------------------------------------------------------------
(* Types.                                                                  *)

\* The link: an agent that has left int_task_wait has its socket, one that has its socket
\* has chosen where to dial.
Linked ==
    /\ pc \in {"wait", "tail"} \cup Servers \cup InSession
    /\ state \in {"suspend", "active", "connect_error", "parse_error"}
    /\ sock \in BOOLEAN /\ (sock <=> state # "suspend") /\ (pc # "wait" => sock)
    /\ rc \in -1 .. 2 * Tries /\ (sock => rc >= 0)

Reboots == {"null", "start", "complete"}

Marked ==
    /\ inform \in {"none", "valid", "posting"} /\ flags \subseteq Events
    /\ alarm \in BOOLEAN /\ armed \in BOOLEAN /\ slighted \in BOOLEAN /\ commanded \in BOOLEAN
    /\ bootstrap \in BOOLEAN /\ sysReset \in BOOLEAN /\ disk.bootstrap \in BOOLEAN
    /\ reboot \in Reboots /\ disk.reboot \in Reboots
    /\ owedEvents \subseteq {"BOOTSTRAP", "M_REBOOT"}

\* What may still be ordered is in no queue, also not in the one a restart would bring back.
Ordered ==
    /\ budget \in Budget
    /\ Distinct(queue) /\ Distinct(disk.queue)
    /\ \A i \in DOMAIN queue : queue[i].id \notin budget.loads
    /\ \A i \in DOMAIN disk.queue : disk.queue[i].id \notin budget.loads

TInv == Linked /\ Marked /\ Ordered

LEMMA LinkedStep == Linked /\ [Next]_vars => Linked'
  <1> SUFFICES ASSUME Linked, [Next]_vars
               PROVE  Linked'
    OBVIOUS
  <1> USE DEF Linked, Servers, InSession
  <1>0. Tries \in Nat /\ Tries >= 1 /\ 2 * Tries \in Nat /\ Tries <= 2 * Tries
    BY Tr069Assumption
  <1>1. CASE UNCHANGED <<pc, link>>
    BY <1>1 DEF link
  <1>2. UNCHANGED vars \/ PostEvent \/ Periodic \/ LoadDue \/ LoadOntime \/ LoadEnded
            => UNCHANGED <<pc, link>>
    BY DEF vars, PostEvent, Periodic, LoadDue, LoadOntime, LoadEnded
  <1>3. \A l \in Loads, delayed \in BOOLEAN : Download(l, delayed) => UNCHANGED <<pc, link>>
    BY DEF Download
  <1>4. Reboot \/ FactoryReset => UNCHANGED <<pc, link>>
    BY DEF Reboot, FactoryReset
  <1>5. CASE Activate \/ Suspend \/ SetUrl
    <2>1. CASE Activate
      <3>1. pc = "wait" /\ pc' = pc /\ sock' = TRUE /\ state' = "active" /\ rc' = 0
        BY <2>1 DEF Activate, Listening
      <3> QED BY <1>0, <3>1
    <2>2. CASE Suspend
      <3>1. pc = "wait" /\ pc' = pc /\ sock' = FALSE /\ state' = "suspend" /\ rc' = rc
        BY <2>2 DEF Suspend, Listening
      <3> QED BY <3>1
    <2>3. CASE SetUrl
      <3>1. rc' = 0 /\ UNCHANGED <<pc, sock, state>>
        BY <2>3 DEF SetUrl
      <3> QED BY <1>0, <3>1
    <2> QED BY <1>5, <2>1, <2>2, <2>3
  <1>6. CASE Dial
    <2>1. /\ pc = "wait" /\ sock' = sock /\ state # "suspend" /\ Chosen \in 0 .. 2 * Tries
          /\ More(Chosen) \in 0 .. 2 * Tries
      BY <1>0, <1>6 DEF Dial, Chosen, More
    <2>2. \/ pc' \in {"main", "backup"} /\ rc' = Chosen /\ state' = state
          \/ pc' = pc /\ rc' = More(Chosen) /\ state' = "connect_error"
      BY <1>6 DEF Dial
    <2> QED BY <1>0, <2>1, <2>2
  <1>7. CASE Unreachable
    BY <1>0, <1>7 DEF Unreachable, More
  <1>8. ASSUME NEW server \in Servers, Connected(server)
        PROVE  Linked'
    BY <1>0, <1>8 DEF Connected, Settled
  <1>9. CASE InformResponse \/ TransferCompleteResponse \/ TransferRefused \/ TaskTail
    BY <1>9 DEF InformResponse, TransferCompleteResponse, TransferRefused, TaskTail, Say, link
  <1>10. CASE Empty \/ Broken
    BY <1>10 DEF Empty, Broken, Left
  <1>11. CASE PowerCycle \/ Upgraded
    <2>1. pc' = "wait" /\ sock' = FALSE /\ state' = "suspend" /\ rc' = -1
      BY <1>11 DEF PowerCycle, Upgraded, Restart
    <2>2. rc' \in -1 .. 2 * Tries
      BY <1>0, <2>1
    <2> QED BY <2>1, <2>2
  <1> QED
    BY <1>1, <1>2, <1>3, <1>4, <1>5, <1>6, <1>7, <1>8, <1>9, <1>10, <1>11 DEF Next

LEMMA MarkedStep == Marked /\ [Next]_vars => Marked'
  <1> SUFFICES ASSUME Marked, [Next]_vars
               PROVE  Marked'
    OBVIOUS
  <1> USE DEF Marked
  <1>1. CASE UNCHANGED <<events, record, armed, disk, history>>
    BY <1>1 DEF events, record, history
  <1>2. /\ UNCHANGED vars \/ Suspend \/ LoadDue => UNCHANGED <<events, record, armed, disk, history>>
        /\ Unreachable \/ Broken => UNCHANGED <<events, record, armed, disk, history>>
    BY DEF vars, Suspend, LoadDue, Unreachable, Broken, loads
  <1>3. ASSUME NEW codes \in SUBSET Events, Inset(codes)
        PROVE  inform' \in {"none", "valid", "posting"} /\ flags' \subseteq Events
    BY <1>3 DEF Inset
  <1>4. {"BOOT"} \in SUBSET Events /\ {"PERIODIC"} \in SUBSET Events /\ {"BOOTSTRAP"} \in SUBSET Events
        /\ {"TRANSFER_COMPLETE"} \in SUBSET Events
    BY DEF Events
  <1>5. CASE Activate
    <2>1. inform' \in {"none", "valid", "posting"} /\ flags' \subseteq Events
      BY <1>3, <1>4, <1>5 DEF Activate
    <2>2. armed' \in BOOLEAN /\ UNCHANGED <<alarm, record, disk, history>>
      BY <1>5 DEF Activate, HeadIs
    <2> QED BY <2>1, <2>2 DEF record, history
  <1>6. CASE PostEvent
    BY <1>6 DEF PostEvent, record, history, loads
  <1>7. CASE Periodic
    <2>1. inform' \in {"none", "valid", "posting"} /\ flags' \subseteq Events
      BY <1>3, <1>4, <1>7 DEF Periodic
    <2> QED BY <1>7, <2>1 DEF Periodic, record, history, loads
  <1>8. CASE SetUrl
    BY <1>8 DEF SetUrl, events, history, loads
  <1>9. CASE LoadOntime
    <2>1. inform' \in {"none", "valid", "posting"} /\ flags' \subseteq Events
      BY <1>3, <1>4, <1>9 DEF LoadOntime
    <2> QED BY <1>9, <2>1 DEF LoadOntime, record, history
  <1>10. CASE Dial
    <2>1. inform' \in {"none", "valid", "posting"} /\ flags' \subseteq Events
      BY <1>3, <1>4, <1>10 DEF Dial
    <2> QED BY <1>10, <2>1 DEF Dial, record, history, loads
  <1>11. ASSUME NEW server \in Servers, Connected(server)
         PROVE  Marked'
    BY <1>11 DEF Connected, history, loads
  <1>12. CASE InformResponse
    BY <1>12 DEF InformResponse, Reboots, loads
  <1>13. CASE TransferCompleteResponse
    BY <1>13 DEF TransferCompleteResponse, HeadIs, events, record
  <1>14. CASE TransferRefused
    BY <1>14 DEF TransferRefused, events, record, loads
  <1>15. ASSUME NEW l \in Loads, NEW delayed \in BOOLEAN, Download(l, delayed)
         PROVE  Marked'
    BY <1>15 DEF Download, HeadIs, events, history
  <1>16. CASE Reboot \/ FactoryReset
    BY <1>16 DEF Reboot, FactoryReset, Reboots, events, history, loads
  <1>17. CASE Empty
    BY <1>17 DEF Empty, record, loads
  <1>18. CASE TaskTail
    <2>1. /\ bootstrap' \in BOOLEAN /\ sysReset' = FALSE /\ disk' = Saves
          /\ owedEvents' = owedEvents \cup Recorded(bootstrap', reboot)
          /\ UNCHANGED <<events, reboot, armed, slighted, commanded>>
      BY <1>18 DEF TaskTail, loads
    <2>2. Saves.bootstrap \in BOOLEAN /\ Saves.reboot \in Reboots
      BY DEF Saves, Stored
    <2>3. owedEvents' \subseteq {"BOOTSTRAP", "M_REBOOT"}
      BY <2>1 DEF Recorded
    <2> QED BY <2>1, <2>2, <2>3 DEF events
  <1>19. ASSUME NEW type, Restart(type)
         PROVE  Marked'
    <2>1. /\ alarm' = FALSE /\ armed' = FALSE /\ slighted' = FALSE /\ commanded' = FALSE
          /\ bootstrap' = disk.bootstrap /\ reboot' = Resumed /\ sysReset' = FALSE
          /\ owedEvents' = owedEvents
          /\ disk' = disk \/ (disk'.bootstrap = disk.bootstrap /\ disk'.reboot = Resumed)
      BY <1>19 DEF Restart, Stored
    <2>2. flags' \subseteq Events /\ inform' \in {"none", "valid"}
      BY <1>19 DEF Restart, Events
    <2>3. Resumed \in Reboots
      BY DEF Resumed, Reboots
    <2> QED BY <2>1, <2>2, <2>3
  <1>20. CASE PowerCycle \/ Upgraded
    BY <1>19, <1>20 DEF PowerCycle, Upgraded
  <1>21. CASE LoadEnded
    <2>1. inform' \in {"none", "valid", "posting"} /\ flags' \subseteq Events
      BY <1>3, <1>4, <1>21 DEF LoadEnded
    <2> QED BY <1>21, <2>1 DEF LoadEnded, Stored, history
  <1> QED
    BY <1>1, <1>2, <1>5, <1>6, <1>7, <1>8, <1>9, <1>10, <1>11, <1>12, <1>13, <1>14, <1>15, <1>16,
       <1>17, <1>18, <1>20, <1>21 DEF Next

-----------------------------------------------------------------------------
(* A load is queued once.                                                  *)

\* r holds no load that q does not, and none twice unless q does.
Within(q, r) == Ids(r) \subseteq Ids(q) /\ (Distinct(q) => Distinct(r))

LEMMA HeadAsWithin ==
    ASSUME NEW q \in Seq(Load), NEW st \in States
    PROVE  Within(q, HeadAs(q, st))
  <1>1. \A i \in DOMAIN q : q[i] \in Load
    BY LoadFacts
  <1>2. DOMAIN HeadAs(q, st) = DOMAIN q /\ \A i \in DOMAIN q : HeadAs(q, st)[i].id = q[i].id
    BY <1>1 DEF HeadAs, Load
  <1> QED BY <1>2 DEF Within, Ids, Distinct

LEMMA TailDistinct ==
    ASSUME NEW q \in Seq(Load), q # <<>>, Distinct(q), NEW S, \A i \in DOMAIN q : q[i].id \notin S
    PROVE  Distinct(Tail(q)) /\ \A i \in DOMAIN Tail(q) : Tail(q)[i].id \notin S
  <1>1. Len(q) \in Nat /\ DOMAIN q = 1 .. Len(q)
    BY LoadFacts
  <1>2. Tail(q) \in Seq(Load) /\ Len(Tail(q)) = Len(q) - 1
        /\ \A i \in 1 .. Len(q) - 1 : Tail(q)[i] = q[i + 1]
    BY HeadTailProperties
  <1>3. DOMAIN Tail(q) = 1 .. Len(q) - 1
    BY <1>2, LoadFacts
  <1>4. \A i \in 1 .. Len(q) - 1 : i + 1 \in DOMAIN q
    BY <1>1
  <1>5. ASSUME NEW i \in 1 .. Len(q) - 1, NEW j \in 1 .. Len(q) - 1, q[i + 1].id = q[j + 1].id
        PROVE  i = j
    <2>1. i + 1 = j + 1
      BY <1>4, <1>5 DEF Distinct
    <2> QED BY <1>1, <2>1
  <1> QED BY <1>2, <1>3, <1>4, <1>5 DEF Distinct

LEMMA InsertDistinct ==
    ASSUME NEW q \in Seq(Load), NEW p \in 0 .. Len(q), NEW l \in Loads, Distinct(q),
           NEW S, l \in S, \A i \in DOMAIN q : q[i].id \notin S
    PROVE  LET r == InsertAt(q, p + 1, [id |-> l, st |-> "init"]) IN
           /\ Distinct(r)
           /\ \A i \in DOMAIN r : r[i].id = l \/ r[i].id \notin S
  <1>1. PICK e, k : e = [id |-> l, st |-> "init"] /\ k = p + 1
    OBVIOUS
  <1>2. Len(q) \in Nat /\ DOMAIN q = 1 .. Len(q) /\ e \in Load /\ e.id = l /\ k \in 1 .. Len(q) + 1
    BY <1>1, LoadFacts DEF Load, States
  <1>3. PICK r : r = InsertAt(q, k, e)
    OBVIOUS
  <1>4. /\ r \in Seq(Load) /\ Len(r) = Len(q) + 1
        /\ \A j \in 1 .. Len(q) + 1 : r[j] = IF j < k THEN q[j] ELSE IF j = k THEN e ELSE q[j - 1]
    <2>1. k \in 1 .. Len(q) + 1 /\ e \in Load /\ q \in Seq(Load)
      BY <1>2
    <2>2. /\ InsertAt(q, k, e) \in Seq(Load) /\ Len(InsertAt(q, k, e)) = Len(q) + 1
          /\ \A j \in 1 .. Len(q) + 1 :
               InsertAt(q, k, e)[j] = IF j < k THEN q[j] ELSE IF j = k THEN e ELSE q[j - 1]
      BY <2>1, InsertAtFacts
    <2> QED BY <1>3, <2>2
  <1>5. DOMAIN r = 1 .. Len(q) + 1
    BY <1>4, LoadFacts
  <1>6. ASSUME NEW i \in 1 .. Len(q) + 1
        PROVE  IF i = k THEN r[i].id = l
               ELSE \E a \in 1 .. Len(q) : r[i] = q[a] /\ a = IF i < k THEN i ELSE i - 1
    <2>1. CASE i = k
      BY <1>2, <1>4, <2>1
    <2>2. CASE i < k
      <3>1. i \in 1 .. Len(q) /\ r[i] = q[i]
        BY <1>2, <1>4, <2>2
      <3> QED BY <2>2, <3>1
    <2>3. CASE i > k
      <3>1. i - 1 \in 1 .. Len(q) /\ r[i] = q[i - 1] /\ ~(i < k)
        BY <1>2, <1>4, <2>3
      <3> QED BY <2>3, <3>1
    <2> QED BY <1>2, <2>1, <2>2, <2>3
  <1>7. ASSUME NEW i \in 1 .. Len(q) + 1, NEW j \in 1 .. Len(q) + 1, r[i].id = r[j].id
        PROVE  i = j
    <2>1. CASE i = k \/ j = k
      BY <1>2, <1>6, <1>7, <2>1
    <2>2. CASE i # k /\ j # k
      <3>1. PICK a \in 1 .. Len(q) : r[i] = q[a] /\ a = IF i < k THEN i ELSE i - 1
        BY <1>6, <2>2
      <3>2. PICK b \in 1 .. Len(q) : r[j] = q[b] /\ b = IF j < k THEN j ELSE j - 1
        BY <1>6, <2>2
      <3>3. a = b
        BY <1>2, <1>7, <3>1, <3>2 DEF Distinct
      <3> QED BY <1>2, <2>2, <3>1, <3>2, <3>3
    <2> QED BY <2>1, <2>2
  <1>8. \A i \in 1 .. Len(q) + 1 : r[i].id = l \/ r[i].id \notin S
    BY <1>2, <1>6
  <1> QED BY <1>1, <1>3, <1>5, <1>7, <1>8 DEF Distinct

\* The queues get no load that neither had, and nothing else may be ordered.
LEMMA OrderedSame ==
    ASSUME Ordered, budget' \in Budget, budget'.loads \subseteq budget.loads,
           Within(queue, queue') \/ Within(disk.queue, queue'),
           Within(queue, disk'.queue) \/ Within(disk.queue, disk'.queue)
    PROVE  Ordered'
  <1>1. Distinct(queue') /\ Distinct(disk'.queue)
    BY DEF Ordered, Within
  <1>2. /\ \A x \in Ids(queue') : x \notin budget.loads
        /\ \A x \in Ids(disk'.queue) : x \notin budget.loads
    BY DEF Ordered, Within, Ids
  <1>3. /\ \A i \in DOMAIN queue' : queue'[i].id \notin budget'.loads
        /\ \A i \in DOMAIN disk'.queue : disk'.queue[i].id \notin budget'.loads
    BY <1>2 DEF Ids
  <1> QED BY <1>1, <1>3 DEF Ordered, Distinct

LEMMA OrderedStep == QInv /\ Ordered /\ [Next]_vars => Ordered'
  <1> SUFFICES ASSUME QInv, Ordered, [Next]_vars
               PROVE  Ordered'
    OBVIOUS
  <1>1. queue \in Seq(Load) /\ disk.queue \in Seq(Load) /\ budget \in Budget
    BY DEF QInv, Ordered
  <1>2. Within(queue, queue) /\ Within(disk.queue, disk.queue)
    BY DEF Within
  <1>3. CASE UNCHANGED <<queue, disk, budget>>
    BY <1>1, <1>2, <1>3, OrderedSame
  <1>4. UNCHANGED vars \/ Activate \/ Suspend \/ Periodic \/ LoadDue => UNCHANGED <<queue, disk, budget>>
    BY DEF vars, Activate, Suspend, Periodic, LoadDue, loads
  <1>5. Dial \/ Unreachable \/ InformResponse \/ TransferRefused \/ Reboot \/ FactoryReset \/ Empty \/ Broken
          => UNCHANGED <<queue, disk, budget>>
    BY DEF Dial, Unreachable, InformResponse, TransferRefused, Reboot, FactoryReset, Empty, Broken, loads
  <1>6. \A server \in Servers : Connected(server) => UNCHANGED <<queue, disk, budget>>
    BY DEF Connected, loads
  <1>7. CASE PostEvent \/ SetUrl
    <2>1. UNCHANGED <<queue, disk>> /\ budget' \in Budget /\ budget'.loads = budget.loads
      BY <1>1, <1>7 DEF PostEvent, SetUrl, loads, Budget
    <2> QED BY <1>2, <2>1, OrderedSame
  <1>8. CASE LoadOntime
    <2>1. UNCHANGED <<disk, budget>> /\ (queue' = queue \/ \E st \in States : queue' = HeadAs(queue, st))
      BY <1>8 DEF LoadOntime, States
    <2>2. Within(queue, queue')
      BY <1>1, <1>2, <2>1, HeadAsWithin
    <2> QED BY <1>1, <1>2, <2>1, <2>2, OrderedSame
  <1>9. CASE TransferCompleteResponse
    <2>1. queue # <<>> /\ queue' = Tail(queue) /\ UNCHANGED <<disk, budget>>
      BY <1>9 DEF TransferCompleteResponse, QInv
    <2>2. Distinct(queue') /\ \A i \in DOMAIN queue' : queue'[i].id \notin budget.loads
      BY <1>1, <2>1, TailDistinct DEF Ordered
    <2> QED BY <2>1, <2>2 DEF Ordered, Distinct
  <1>10. ASSUME NEW l \in Loads, NEW delayed \in BOOLEAN, Download(l, delayed)
         PROVE  Ordered'
    <2>1. /\ l \in budget.loads /\ budget' = [budget EXCEPT !.loads = @ \ {l}] /\ UNCHANGED disk
      BY <1>10 DEF Download
    <2>2. PICK p \in Place(delayed) : queue' = InsertAt(queue, p + 1, [id |-> l, st |-> "init"])
      BY <1>10 DEF Download
    <2>3. p \in 0 .. Len(queue)
      BY <2>2, LoadFacts DEF QInv, Place
    <2>4. budget' \in Budget /\ budget'.loads = budget.loads \ {l}
      BY <1>1, <2>1 DEF Budget
    <2>5. Distinct(queue') /\ \A i \in DOMAIN queue' : queue'[i].id = l \/ queue'[i].id \notin budget.loads
      BY <1>1, <2>1, <2>2, <2>3, InsertDistinct DEF Ordered
    <2> QED BY <2>1, <2>4, <2>5 DEF Ordered, Distinct
  <1>11. CASE TaskTail
    <2>1. UNCHANGED <<queue, budget>> /\ (disk'.queue = queue \/ disk'.queue = disk.queue)
      BY <1>11 DEF TaskTail, Saves, Stored, loads
    <2> QED BY <1>1, <1>2, <2>1, OrderedSame
  <1>12. ASSUME NEW type, Restart(type), budget' \in Budget, budget'.loads = budget.loads
         PROVE  Ordered'
    <2>1. queue' = Reported(type) /\ (disk' = disk \/ disk'.queue = queue')
      BY <1>12 DEF Restart, Stored
    <2>2. Within(disk.queue, Reloaded) /\ Reloaded \in Seq(Load)
      BY <1>1, ReloadedFacts DEF QInv, Within
    <2>3. queue' = Reloaded \/ queue' = HeadAs(Reloaded, "complete")
      BY <2>1 DEF Reported
    <2>4. Within(disk.queue, queue')
      <3>1. "complete" \in States
        BY DEF States
      <3>2. Within(Reloaded, HeadAs(Reloaded, "complete"))
        BY <2>2, <3>1, HeadAsWithin
      <3> QED BY <2>2, <2>3, <3>2 DEF Within
    <2>5. Within(disk.queue, disk'.queue)
      BY <1>2, <2>1, <2>4
    <2> QED BY <1>12, <2>4, <2>5, OrderedSame
  <1>13. CASE PowerCycle
    <2>1. budget' \in Budget /\ budget'.loads = budget.loads
      BY <1>1, <1>13 DEF PowerCycle, Budget
    <2> QED BY <1>12, <1>13, <2>1 DEF PowerCycle
  <1>14. CASE Upgraded
    BY <1>1, <1>12, <1>14 DEF Upgraded
  <1>15. CASE LoadEnded
    <2>1. UNCHANGED budget /\ queue' = HeadAs(queue, "complete") /\ disk'.queue = queue'
      BY <1>15 DEF LoadEnded, Stored
    <2>2. Within(queue, queue')
      <3>1. "complete" \in States
        BY DEF States
      <3> QED BY <1>1, <2>1, <3>1, HeadAsWithin
    <2> QED BY <1>1, <2>1, <2>2, OrderedSame
  <1> QED
    BY <1>3, <1>4, <1>5, <1>6, <1>7, <1>8, <1>9, <1>10, <1>11, <1>13, <1>14, <1>15 DEF Next

LEMMA TypesInit == Init => TInv
  <1> SUFFICES ASSUME Init
               PROVE  TInv
    OBVIOUS
  <1>1. Linked
    <2>1. 2 * Tries \in Nat
      BY Tr069Assumption
    <2>2. pc = "wait" /\ state = "suspend" /\ sock = FALSE /\ rc = -1
      BY DEF Init
    <2>3. rc \in -1 .. 2 * Tries
      BY <2>1, <2>2
    <2> QED BY <2>2, <2>3 DEF Linked
  <1>2. Marked
    BY DEF Init, Marked, Stored, Reboots
  <1>3. queue = <<>> /\ disk.queue = <<>> /\ budget \in Budget
    BY Tr069Assumption DEF Init, Stored
  <1>4. DOMAIN <<>> = {}
    BY EmptySeq, LoadFacts
  <1>5. Ordered
    BY <1>3, <1>4 DEF Ordered, Distinct
  <1> QED BY <1>1, <1>2, <1>5 DEF TInv

\* The agent is suspended exactly while its request socket is closed, it is never suspended in
\* a session, and a load is queued once, also after a restart that brings one back: for every
\* set of downloads and every budget.
THEOREM TypeCorrect == Spec => []TypeOK
  <1>1. ASSUME QInv, TInv PROVE TypeOK
    <2>1. queue \in Seq(Load) /\ disk.queue \in Seq(Load) /\ save \in BOOLEAN /\ ndue \in 0 .. Len(queue)
      BY <1>1 DEF QInv
    <2>2. owedLoads \subseteq Loads
      <3>1. Ids(queue) \subseteq Loads
        BY <2>1, LoadFacts DEF Ids
      <3> QED BY <1>1, <3>1 DEF QInv, LoadsSurvive
    <2>3. /\ \A i, j \in DOMAIN queue : queue[i].id = queue[j].id => i = j
          /\ \A i, j \in DOMAIN disk.queue : disk.queue[i].id = disk.queue[j].id => i = j
      BY <1>1 DEF TInv, Ordered, Distinct
    <2>4. Seq([id : Loads, st : {"init", "start", "complete"}]) = Seq(Load)
      BY DEF Load, States
    <2>5. \A q \in {queue, disk.queue} :
            /\ q \in Seq([id : Loads, st : {"init", "start", "complete"}])
            /\ \A i, j \in DOMAIN q : q[i].id = q[j].id => i = j
      BY <2>1, <2>3, <2>4
    <2>6. Linked /\ Marked /\ budget \in Budget
      BY <1>1 DEF TInv, Ordered
    <2> QED BY <2>1, <2>2, <2>5, <2>6 DEF TypeOK, Linked, Marked, Reboots
  <1>2. QInv /\ TInv /\ [Next]_vars => TInv'
    BY LinkedStep, MarkedStep, OrderedStep DEF TInv
  <1>3. Spec => [](QInv /\ TInv)
    BY <1>2, TypesInit, QueuesInit, QueuesStep, PTL DEF Spec
  <1> QED BY <1>1, <1>3, PTL
=============================================================================
