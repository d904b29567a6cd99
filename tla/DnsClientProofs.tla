-------------------------- MODULE DnsClientProofs --------------------------
(***************************************************************************)
(* Proofs about the DNS client for every number of calls, slots, sockets   *)
(* and timers: its types, that a call of mid_dns_resolve is called back    *)
(* once and is in one place until then, and that an answer never reaches   *)
(* the queue of another call of mid_dns_gethost.                           *)
(***************************************************************************)
EXTENDS DnsClient, SeqFacts, FiniteSetTheorems

Entry == [host : Hosts \cup {None}, ns : -1 .. 1, idx : 1 .. Len(ToArray),
          wait : Nat, left : Nat, resolves : SUBSET Requests]

Seat == [sn : Requests \cup {None}, msgq : Requests \cup {None}]

-----------------------------------------------------------------------------
(* Arithmetic of the model's clamps.                                       *)

LEMMA MinPair ==
    ASSUME NEW a \in Int, NEW b \in Int
    PROVE  Min({a, b}) = IF a <= b THEN a ELSE b
  <1>1. \E x \in {a, b} : \A y \in {a, b} : x <= y
    OBVIOUS
  <1>2. Min({a, b}) \in {a, b} /\ \A y \in {a, b} : Min({a, b}) <= y
    BY <1>1 DEF Min
  <1> QED BY <1>2

LEMMA MaxPair ==
    ASSUME NEW a \in Int, NEW b \in Int
    PROVE  Max({a, b}) = IF a >= b THEN a ELSE b
  <1>1. \E x \in {a, b} : \A y \in {a, b} : x >= y
    OBVIOUS
  <1>2. Max({a, b}) \in {a, b} /\ \A y \in {a, b} : Max({a, b}) >= y
    BY <1>1 DEF Max
  <1> QED BY <1>2

LEMMA FromZeroFacts ==
    ASSUME NEW n \in Int
    PROVE  FromZero(n) = IF n >= 0 THEN n ELSE 0
  BY MaxPair DEF FromZero

LEMMA PutFacts ==
    ASSUME NEW n \in Nat, wakes \in Nat
    PROVE  Put(n) \in 0 .. PipeSize
  BY MinPair, DnsConstants DEF Put

LEMMA ClampedFacts ==
    ASSUME NEW t \in Timeouts
    PROVE  Clamped(t) \in Nat
  <1>1. t \in Nat /\ TimeoutMin \in Nat /\ TimeoutMax \in Nat
    BY DnsConstants
  <1>2. PICK m \in Nat : m = Min({t, TimeoutMax})
    BY <1>1, MinPair
  <1>3. Max({TimeoutMin, m}) \in Nat
    BY <1>1, MaxPair
  <1> QED BY <1>2, <1>3 DEF Clamped

\* int_dns_resolve_to takes the first free slot of the array.
LEMMA LeastSlot ==
    ASSUME NEW F \in SUBSET Nat, F # {}
    PROVE  Min(F) \in F
  BY LeastExists, Zenon DEF Min

LEMMA ArrayFacts ==
    /\ Len(ToArray) \in Nat /\ Len(ToArray) >= 1
    /\ \A i \in 1 .. Len(ToArray) : ToArray[i] \in Nat /\ ToArray[i] > 0
  <1>1. ToArray \in Seq(Nat \ {0}) /\ ToArray # <<>>
    BY DnsConstants
  <1>2. Len(ToArray) \in Nat /\ Len(ToArray) # 0
    BY <1>1, EmptySeq, LenProperties
  <1>3. \A i \in 1 .. Len(ToArray) : ToArray[i] \in Nat \ {0}
    BY <1>1, ElementOfSeq
  <1> QED BY <1>2, <1>3

LEMMA NoDnsIsEntry == NoDns \in Entry /\ NoDns.resolves = {}
  BY ArrayFacts DEF NoDns, Entry

LEMMA FreshFacts ==
    ASSUME NEW h \in Hosts, NEW r \in Requests, NEW t \in Timeouts
    PROVE  /\ Fresh(h, r, t) \in Entry
           /\ Fresh(h, r, t).host = h /\ Fresh(h, r, t).wait > 0 /\ Fresh(h, r, t).resolves = {r}
  <1>1. FromZero(Clamped(t) - ToArray[1]) \in Nat
    BY ClampedFacts, FromZeroFacts, ArrayFacts
  <1> QED BY <1>1, ArrayFacts DEF Fresh, Entry

\* A second keeps a mid_dns's host and calls; it never waits 0 seconds more.
LEMMA SecondFacts ==
    ASSUME NEW e \in Entry, e.wait > 0, nscnt \in 0 .. 2
    PROVE  /\ AfterSecond(e) \in Entry
           /\ AfterSecond(e).host = e.host /\ AfterSecond(e).wait > 0
           /\ AfterSecond(e).resolves = e.resolves
           /\ Queries(e) \in Nat
  <1>0. /\ e.ns \in -1 .. 1 /\ e.idx \in 1 .. Len(ToArray) /\ e.wait \in Nat /\ e.left \in Nat
        /\ e.resolves \in SUBSET Requests /\ e.host \in Hosts \cup {None}
    BY DEF Entry
  <1>1. FromZero(e.ns) \in 0 .. 1
    BY <1>0, FromZeroFacts
  <1>2. /\ Begun(e) \in Entry /\ Begun(e).host = e.host /\ Begun(e).wait = e.wait
        /\ Begun(e).resolves = e.resolves /\ Begun(e).ns \in 0 .. 1
    BY <1>1 DEF Begun, Entry
  <1>3. CASE e.wait = 1
    <2> DEFINE b == Begun(e)
               ns == IF nscnt = 2 THEN 1 - b.ns ELSE b.ns
               idx == IF ns = 0 THEN Min({b.idx + 1, Len(ToArray)}) ELSE b.idx
    <2>0. /\ b.idx \in 1 .. Len(ToArray) /\ b.left \in Nat
          /\ b \in Entry /\ b.host = e.host /\ b.resolves = e.resolves
      BY <1>2 DEF Entry
    <2>1. ns \in 0 .. 1
      BY <1>2
    <2> HIDE DEF b
    <2>2. Min({b.idx + 1, Len(ToArray)}) \in 1 .. Len(ToArray)
      <3>1. b.idx + 1 \in Int /\ Len(ToArray) \in Int /\ b.idx >= 1 /\ Len(ToArray) >= 1
        BY <2>0, ArrayFacts
      <3>2. Min({b.idx + 1, Len(ToArray)}) = IF b.idx + 1 <= Len(ToArray) THEN b.idx + 1 ELSE Len(ToArray)
        BY <3>1, MinPair
      <3> QED BY <2>0, <3>1, <3>2, ArrayFacts
    <2>3. idx \in 1 .. Len(ToArray)
      BY <2>0, <2>2
    <2> HIDE DEF ns, idx
    <2>4. PICK w \in Nat, l \in Nat : w = ToArray[idx] /\ w > 0 /\ l = FromZero(b.left - w)
      <3>1. PICK w \in Nat : w = ToArray[idx] /\ w > 0
        BY <2>3, ArrayFacts
      <3>2. b.left - w \in Int
        BY <2>0
      <3>3. FromZero(b.left - w) \in Nat
        BY <3>2, FromZeroFacts
      <3> QED BY <3>1, <3>3
    <2>5. Stepped(b) = [b EXCEPT !.ns = ns, !.idx = idx, !.wait = w, !.left = l]
      BY <2>4 DEF Stepped, ns, idx
    <2>6. /\ Stepped(b) \in Entry /\ Stepped(b).host = b.host /\ Stepped(b).wait > 0
          /\ Stepped(b).resolves = b.resolves
      <3>1. Stepped(b) \in Entry
        <4>1. Stepped(b) = [host |-> b.host, ns |-> ns, idx |-> idx, wait |-> w, left |-> l,
                            resolves |-> b.resolves]
          BY <2>0, <2>5 DEF Entry
        <4>2. b.host \in Hosts \cup {None} /\ b.resolves \in SUBSET Requests
          BY <2>0 DEF Entry
        <4> QED BY <2>1, <2>3, <2>4, <4>1, <4>2 DEF Entry
      <3> QED BY <2>0, <2>4, <2>5, <3>1 DEF Entry
    <2> QED BY <2>0, <1>2, <1>3, <2>6, <1>0 DEF AfterSecond, Queries, b
  <1>4. CASE e.wait # 1
    BY <1>0, <1>2, <1>4 DEF AfterSecond, Entry, Queries
  <1> QED BY <1>3, <1>4

LEMMA FreeFacts == Free \subseteq Addrs \ (list \cup closing)
  <1> DEFINE free == Addrs \ (list \cup closing)
  <1>1. CASE free \subseteq Running
    BY <1>1 DEF Free
  <1>2. CASE ~(free \subseteq Running)
    <2>1. (CHOOSE d \in free : d \notin Running) \in free
      BY <1>2
    <2> QED BY <1>2, <2>1 DEF Free
  <1> QED BY <1>1, <1>2

-----------------------------------------------------------------------------
(* Types, and where the task is when it has something in its hands.        *)

Statuses == {"new", "refused", "slotted", "waiting", "leaving", "done"}

Calling ==
    /\ status \in [Requests -> Statuses]
    /\ told \in [Requests -> Nat]
    /\ arg \in [Requests -> 0 .. Slots] /\ slot \in [1 .. Slots -> Seat] /\ box \subseteq Requests

Sockets ==
    /\ nscnt \in 0 .. 2 /\ cache \subseteq Hosts /\ list \subseteq Addrs
    /\ dns \in [Addrs -> Entry]
    /\ \A d \in list : dns[d].host \in Hosts /\ dns[d].wait > 0
    /\ asked \in [Addrs -> 0 .. MaxAsked] /\ inbox \in [Addrs -> {"ok", "no", "junk", None}]

Clocks ==
    /\ timers \in [Addrs -> {0, 1, None}] /\ wakes \in 0 .. PipeSize
    /\ gTimer \in BOOLEAN /\ late \in BOOLEAN /\ lost \in BOOLEAN

Phases ==
    /\ pc \in {"top", "deal", "expiring", "second", "snapshot", "select", "answer", "telling"}
    /\ due \subseteq Addrs /\ watched \subseteq list /\ closing \subseteq Addrs /\ batch \subseteq Requests
    /\ batch # {} => pc \in {"expiring", "telling"}
    /\ closing # {} => pc = "expiring"
    /\ closing \cap list = {}
    /\ watched # {} => pc \in {"select", "answer"}

Types == Calling /\ Sockets /\ Clocks /\ Phases

\* What an action of a caller may be.
Asking(r, h) ==
    \/ ResolveAtOnce(r, h) \/ ResolveFails(r, h)
    \/ \E t \in Timeouts : ResolveJoins(r, h, t)
    \/ \E t \in Timeouts, d \in Addrs, up \in BOOLEAN : ResolveCreates(r, h, t, d, up)

LEMMA AskIsAsking ==
    ASSUME NEW r \in Requests, Ask(r)
    PROVE  \E h \in Hosts : Asking(r, h)
  <1>1. Asks[r] \subseteq Hosts
    BY DnsConstants
  <1> QED BY <1>1 DEF Ask, Asking

LEMMA ToldFacts ==
    ASSUME Calling, NEW r \in Requests
    PROVE  [told EXCEPT ![r] = @ + 1] \in [Requests -> Nat]
  <1>1. told \in [Requests -> Nat]
    BY DEF Calling
  <1> QED BY <1>1

LEMMA EndedFacts ==
    ASSUME Calling, NEW r \in Requests, Ended(r)
    PROVE  /\ status' \in [Requests -> Statuses]
           /\ told' \in [Requests -> Nat]
  <1>1. CASE r \in Callbacks
    <2>1. status' = [status EXCEPT ![r] = "done"] /\ told' = [told EXCEPT ![r] = @ + 1]
      BY <1>1 DEF Ended
    <2> QED BY <2>1, ToldFacts DEF Calling, Statuses
  <1>2. CASE r \notin Callbacks
    BY <1>2 DEF Calling, Ended, Statuses
  <1> QED BY <1>1, <1>2

\* A call that is given a slot is in gethost.
LEMMA SeatFacts ==
    ASSUME Calling, NEW r \in Waiters
    PROVE  r \in Requests /\ arg[r] \in 1 .. Slots /\ slot[arg[r]] \in Seat
  BY DnsConstants DEF Calling, Waiters

LEMMA SeatTaken ==
    ASSUME Calling, NEW r \in Requests
    PROVE  [slot EXCEPT ![arg[r]].sn = r] \in [1 .. Slots -> Seat]
  BY DEF Calling, Seat

LEMMA AcceptFacts ==
    ASSUME Calling, NEW r \in Requests, NEW t, Accept(r, t)
    PROVE  /\ status' \in [Requests -> Statuses]
           /\ slot' \in [1 .. Slots -> Seat]
  BY SeatTaken DEF Calling, Statuses, Accept

LEMMA CallingStep ==
    ASSUME Types, [Next]_vars
    PROVE  Calling'
  <1>0. Calling
    BY DEF Types
  <1>1. ASSUME NEW r \in Requests, NEW h \in Hosts, Asking(r, h)
        PROVE  Calling'
    <2>1. CASE ResolveAtOnce(r, h)
      BY <1>0, <2>1, EndedFacts DEF ResolveAtOnce, Calling
    <2>2. CASE ResolveFails(r, h)
      BY <1>0, <2>2, EndedFacts, SeatTaken DEF ResolveFails, Calling
    <2>3. ASSUME NEW t \in Timeouts, ResolveJoins(r, h, t)
          PROVE  Calling'
      BY <1>0, <2>3, AcceptFacts DEF ResolveJoins, Calling
    <2>4. ASSUME NEW t \in Timeouts, NEW d \in Addrs, NEW up \in BOOLEAN, ResolveCreates(r, h, t, d, up)
          PROVE  Calling'
      BY <1>0, <2>4, AcceptFacts DEF ResolveCreates, Calling
    <2> QED BY <1>1, <2>1, <2>2, <2>3, <2>4 DEF Asking
  <1>2. ASSUME NEW w \in Requests, TakeSlot(w)
        PROVE  Calling'
    <2> DEFINE free == {i \in 1 .. Slots : slot[i].msgq = None}
    <2>1. CASE free = {}
      BY <1>0, <1>2, <2>1 DEF TakeSlot, Calling, Statuses
    <2>2. CASE free # {}
      <3>1. free \in SUBSET Nat /\ free \subseteq 1 .. Slots
        BY DnsConstants
      <3>2. PICK i \in 1 .. Slots : i = Min(free)
        BY <2>2, <3>1, LeastSlot
      <3> HIDE DEF free
      <3>3. /\ status' = [status EXCEPT ![w] = "slotted"]
            /\ slot' = [slot EXCEPT ![i] = [sn |-> None, msgq |-> w]]
            /\ arg' = [arg EXCEPT ![w] = i] /\ UNCHANGED <<box, told>>
        BY <1>2, <2>2, <3>2 DEF TakeSlot, free
      <3> QED BY <1>0, <3>3 DEF Calling, Statuses, Seat
    <2> QED BY <2>1, <2>2
  <1>3. ASSUME NEW w \in Requests, Stop(w) \/ Leave(w)
        PROVE  Calling'
    <2>1. CASE Stop(w)
      BY <1>0, <2>1 DEF Stop, Calling, Statuses
    <2>2. CASE Leave(w)
      <3>1. slot' \in [1 .. Slots -> Seat]
        BY <1>0, <2>2 DEF Leave, Calling, Statuses, Seat
      <3> QED BY <1>0, <2>2, <3>1 DEF Leave, Calling, Statuses
    <2> QED BY <1>3, <2>1, <2>2
  <1>4. ASSUME NEW r \in Requests, CallTimeout(r)
        PROVE  Calling'
    <2>1. told' \in [Requests -> Nat]
      BY <1>0, <1>4, ToldFacts DEF CallTimeout, Calling
    <2> QED BY <1>0, <1>4, <2>1 DEF CallTimeout, Calling, Statuses
  <1>5. ASSUME NEW r \in Requests, TellCallback(r)
        PROVE  Calling'
    BY <1>0, <1>5 DEF TellCallback, Calling, Statuses
  <1>6. ASSUME NEW r \in Requests, TellWaiter(r)
        PROVE  Calling'
    <2>1. Reached(arg[r], r) => slot[arg[r]].msgq \in Requests
      BY <1>0, <1>6, SeatFacts DEF TellWaiter, Reached, Seat
    <2>2. /\ box' \subseteq Requests
          /\ UNCHANGED <<status, told, arg, slot>>
      BY <1>0, <1>6, <2>1 DEF TellWaiter, Calling
    <2> QED BY <1>0, <2>2 DEF Calling
  <1>7. CASE UNCHANGED <<status, told, arg, slot, box>>
    BY <1>0, <1>7 DEF Calling
  <1>8. Environment \/ Tick \/ Top \/ Close \/ Snapshot \/ Select => UNCHANGED <<status, told, arg, slot, box>>
    BY DEF Environment, Setsrv, Forget, Reply, Tick, Top, Close, Snapshot, Select, callers
  <1>9. /\ \A d \in Addrs : Deal(d) \/ Answer(d) => UNCHANGED <<status, told, arg, slot, box>>
        /\ \A up : Second(up) => UNCHANGED <<status, told, arg, slot, box>>
    BY DEF Deal, Answer, Second, callers
  <1>10. UNCHANGED vars => UNCHANGED <<status, told, arg, slot, box>>
    BY DEF vars, callers
  <1> QED BY <1>1, <1>2, <1>3, <1>4, <1>5, <1>6, <1>7, <1>8, <1>9, <1>10, AskIsAsking DEF Next, Task

LEMMA SocketsStep ==
    ASSUME Types, [Next]_vars
    PROVE  Sockets'
  <1>0. Sockets /\ Phases
    BY DEF Types
  <1>1. ASSUME NEW r \in Requests, NEW h \in Hosts, Asking(r, h)
        PROVE  Sockets'
    <2>1. CASE ResolveAtOnce(r, h) \/ ResolveFails(r, h)
      BY <1>0, <2>1 DEF ResolveAtOnce, ResolveFails, Sockets, net
    <2>2. ASSUME NEW t \in Timeouts, ResolveJoins(r, h, t)
          PROVE  Sockets'
      <3>1. PICK d \in Serving(h) : dns' = [dns EXCEPT ![d].resolves = @ \cup {r}]
        BY <2>2 DEF ResolveJoins
      <3>2. d \in list
        BY DEF Serving
      <3>3. /\ dns' \in [Addrs -> Entry]
            /\ \A e \in list : dns'[e].host = dns[e].host /\ dns'[e].wait = dns[e].wait
        BY <1>0, <3>1, <3>2 DEF Sockets, Entry
      <3> QED BY <1>0, <2>2, <3>3 DEF ResolveJoins, Sockets, net
    <2>3. ASSUME NEW t \in Timeouts, NEW d \in Addrs, NEW up \in BOOLEAN, ResolveCreates(r, h, t, d, up)
          PROVE  Sockets'
      <3>1. PICK f \in Entry : f = Fresh(h, r, t) /\ f.host = h /\ f.wait > 0
        BY FreshFacts
      <3>2. dns' = [dns EXCEPT ![d] = f] /\ list' = list \cup {d} /\ UNCHANGED <<nscnt, cache, inbox>>
        BY <2>3, <3>1 DEF ResolveCreates
      <3>3. asked' \in [Addrs -> 0 .. MaxAsked]
        BY <1>0, <2>3, DnsConstants DEF ResolveCreates, Sockets
      <3> QED BY <1>0, <3>1, <3>2, <3>3 DEF Sockets
    <2> QED BY <1>1, <2>1, <2>2, <2>3 DEF Asking
  <1>2. ASSUME NEW n \in Servers, Setsrv(n)
        PROVE  Sockets'
    BY <1>0, <1>2, DnsConstants DEF Setsrv, Sockets, net
  <1>3. ASSUME NEW h \in Hosts, Forget(h)
        PROVE  Sockets'
    BY <1>0, <1>3 DEF Forget, Sockets, net
  <1>4. ASSUME NEW d \in Addrs, NEW answer \in {"ok", "no", "junk"}, Reply(d, answer)
        PROVE  Sockets'
    BY <1>0, <1>4, DnsConstants DEF Reply, Sockets
  <1>5. CASE Close
    <2>1. dns' = [d \in Addrs |-> IF d \in closing THEN NoDns ELSE dns[d]] /\ UNCHANGED <<nscnt, cache, list>>
      BY <1>5 DEF Close
    <2>2. dns' \in [Addrs -> Entry] /\ \A e \in list : dns'[e] = dns[e]
      BY <1>0, <2>1, NoDnsIsEntry DEF Sockets, Phases
    <2>3. asked' \in [Addrs -> 0 .. MaxAsked] /\ inbox' \in [Addrs -> {"ok", "no", "junk", None}]
      BY <1>0, <1>5, DnsConstants DEF Close, Sockets
    <2> QED BY <1>0, <2>1, <2>2, <2>3 DEF Sockets
  <1>6. ASSUME NEW d \in Addrs, Deal(d)
        PROVE  Sockets'
    <2>1. dns' = [e \in Addrs |-> IF e \in list THEN StillListed(e) ELSE dns[e]]
      BY <1>6 DEF Deal
    <2>2. \A e \in Addrs : /\ StillListed(e) \in Entry
                           /\ StillListed(e).host = dns[e].host /\ StillListed(e).wait = dns[e].wait
      BY <1>0 DEF StillListed, Sockets, Entry
    <2>3. list' \subseteq list /\ UNCHANGED <<nscnt, cache, asked, inbox>>
      BY <1>6 DEF Deal, net
    <2>4. dns' \in [Addrs -> Entry] /\ \A e \in list : dns'[e].host = dns[e].host /\ dns'[e].wait = dns[e].wait
      BY <1>0, <2>1, <2>2 DEF Sockets
    <2> QED BY <1>0, <2>3, <2>4 DEF Sockets
  <1>7. ASSUME NEW d \in Addrs, Answer(d)
        PROVE  Sockets'
    <2>1. d \in list
      BY <1>0, <1>7 DEF Answer, Phases
    <2>2. cache' \subseteq Hosts
      BY <1>0, <1>7, <2>1 DEF Answer, Sockets
    <2>3. dns' = dns \/ dns' = [dns EXCEPT ![d].resolves = {}]
      BY <1>7 DEF Answer
    <2>4. dns' \in [Addrs -> Entry] /\ \A e \in list : dns'[e].host = dns[e].host /\ dns'[e].wait = dns[e].wait
      <3>1. dns[d] \in Entry
        BY <1>0 DEF Sockets
      <3>2. [dns EXCEPT ![d].resolves = {}] = [dns EXCEPT ![d] = [dns[d] EXCEPT !.resolves = {}]]
        OBVIOUS
      <3>3. /\ [dns[d] EXCEPT !.resolves = {}] \in Entry
            /\ [dns[d] EXCEPT !.resolves = {}].host = dns[d].host
            /\ [dns[d] EXCEPT !.resolves = {}].wait = dns[d].wait
        BY <3>1 DEF Entry
      <3> QED BY <1>0, <2>1, <2>3, <3>2, <3>3 DEF Sockets
    <2> QED BY <1>0, <1>7, <2>2, <2>4 DEF Answer, Sockets
  <1>8. ASSUME NEW up \in SUBSET list, Second(up)
        PROVE  Sockets'
    <2>1. \A d \in list : /\ AfterSecond(dns[d]) \in Entry
                          /\ AfterSecond(dns[d]).host = dns[d].host /\ AfterSecond(dns[d]).wait > 0
                          /\ Queries(dns[d]) \in Nat
      BY <1>0, SecondFacts DEF Sockets
    <2>2. dns' = [d \in Addrs |-> IF d \in list THEN AfterSecond(dns[d]) ELSE dns[d]] /\ UNCHANGED <<nscnt, cache, list, inbox>>
      BY <1>8 DEF Second
    <2>3. dns' \in [Addrs -> Entry] /\ \A d \in list : dns'[d].host \in Hosts /\ dns'[d].wait > 0
      BY <1>0, <2>1, <2>2 DEF Sockets
    <2>4. \A d \in list : Min({MaxAsked, asked[d] + Queries(dns[d])}) \in 0 .. MaxAsked
      <3>1. SUFFICES ASSUME NEW d \in list
                     PROVE  Min({MaxAsked, asked[d] + Queries(dns[d])}) \in 0 .. MaxAsked
        OBVIOUS
      <3>2. PICK n \in Nat : n = asked[d] + Queries(dns[d])
        BY <1>0, <2>1 DEF Sockets
      <3>3. MaxAsked \in Nat
        BY DnsConstants
      <3>4. Min({MaxAsked, n}) \in 0 .. MaxAsked
        BY <3>3, MinPair
      <3> QED BY <3>2, <3>4
    <2>5. asked' \in [Addrs -> 0 .. MaxAsked]
      BY <1>0, <1>8, <2>4 DEF Second, Sockets
    <2> QED BY <1>0, <2>2, <2>3, <2>5 DEF Sockets
  <1>9. CASE UNCHANGED <<nscnt, cache, list, dns, asked, inbox>>
    BY <1>0, <1>9 DEF Sockets
  <1>10. /\ UNCHANGED vars \/ Tick \/ Top \/ Snapshot \/ Select => UNCHANGED <<nscnt, cache, list, dns, asked, inbox>>
         /\ \A r \in Requests : TakeSlot(r) \/ Stop(r) \/ Leave(r) \/ CallTimeout(r)
              => UNCHANGED <<nscnt, cache, list, dns, asked, inbox>>
         /\ \A r \in Requests : TellCallback(r) \/ TellWaiter(r)
              => UNCHANGED <<nscnt, cache, list, dns, asked, inbox>>
    BY DEF vars, Tick, Top, Snapshot, Select, TakeSlot, Stop, Leave, CallTimeout, TellCallback, TellWaiter, net
  <1> QED BY <1>1, <1>2, <1>3, <1>4, <1>5, <1>6, <1>7, <1>8, <1>9, <1>10, AskIsAsking DEF Next, Task, Environment

LEMMA ClocksStep ==
    ASSUME Types, [Next]_vars
    PROVE  Clocks'
  <1>0. Clocks /\ Sockets /\ Phases
    BY DEF Types
  <1>1. ASSUME NEW r \in Requests, NEW h \in Hosts, Asking(r, h)
        PROVE  Clocks'
    <2>1. CASE ResolveAtOnce(r, h) \/ ResolveFails(r, h) \/ \E t \in Timeouts : ResolveJoins(r, h, t)
      BY <1>0, <2>1 DEF ResolveAtOnce, ResolveFails, ResolveJoins, Clocks, task
    <2>2. ASSUME NEW t \in Timeouts, NEW d \in Addrs, NEW up \in BOOLEAN, ResolveCreates(r, h, t, d, up)
          PROVE  Clocks'
      <3>1. wakes' \in 0 .. PipeSize
        BY <1>0, <2>2, PutFacts DEF ResolveCreates, WakesFor, Clocks
      <3> QED BY <1>0, <2>2, <3>1 DEF ResolveCreates, Clocks, task
    <2> QED BY <1>1, <2>1, <2>2 DEF Asking
  <1>2. CASE Tick
    <2>1. timers' \in [Addrs -> {0, 1, None}]
      <3>1. FromZero(0 - 1) = 0 /\ FromZero(1 - 1) = 0
        BY FromZeroFacts
      <3>2. \A d \in Addrs : Nearer(timers)[d] \in {0, 1, None}
        BY <1>0, <3>1 DEF Nearer, Clocks
      <3> QED BY <1>0, <1>2, <3>2 DEF Tick, Nearer, Clocks
    <2> QED BY <1>0, <1>2, <2>1 DEF Tick, Clocks
  <1>3. CASE Top
    <2>1. timers' \in [Addrs -> {0, 1, None}]
      BY <1>0, <1>3 DEF Top, TimerCreated, Clocks
    <2> QED BY <1>0, <1>3, <2>1 DEF Top, Clocks
  <1>4. CASE Close
    <2>1. IsFiniteSet(closing)
      BY <1>0, FS_Subset, DnsConstants DEF Phases
    <2>2. wakes' \in 0 .. PipeSize
      BY <1>0, <1>4, <2>1, FS_CardinalityType, PutFacts DEF Close, Clocks
    <2> QED BY <1>0, <1>4, <2>2 DEF Close, Clocks
  <1>5. CASE Select
    <2>1. wakes \in Nat /\ wakes <= PipeSize /\ PipeSize \in Nat
      BY <1>0, DnsConstants DEF Clocks
    <2>2. FromZero(wakes - 1) \in 0 .. PipeSize
      BY <2>1, FromZeroFacts
    <2> QED BY <1>0, <1>5, <2>2 DEF Select, Clocks
  <1>6. ASSUME NEW d \in Addrs, Deal(d)
        PROVE  Clocks'
    BY <1>0, <1>6 DEF Deal, Clocks
  <1>7. ASSUME NEW up \in SUBSET list, Second(up)
        PROVE  Clocks'
    <2>1. wakes' \in 0 .. PipeSize
      BY <1>0, <1>7, PutFacts DEF Second, WakesFor, Clocks
    <2> QED BY <1>0, <1>7, <2>1 DEF Second, Clocks
  <1>8. CASE UNCHANGED <<timers, wakes, gTimer, late, lost>>
    BY <1>0, <1>8 DEF Clocks
  <1>9. /\ UNCHANGED vars \/ Environment \/ Snapshot => UNCHANGED <<timers, wakes, gTimer, late, lost>>
        /\ \A d \in Addrs : Answer(d) => UNCHANGED <<timers, wakes, gTimer, late, lost>>
        /\ \A r \in Requests : TakeSlot(r) \/ Stop(r) \/ Leave(r) \/ CallTimeout(r)
              => UNCHANGED <<timers, wakes, gTimer, late, lost>>
        /\ \A r \in Requests : TellCallback(r) \/ TellWaiter(r)
              => UNCHANGED <<timers, wakes, gTimer, late, lost>>
    BY DEF vars, Environment, Setsrv, Forget, Reply, Snapshot, Answer, TakeSlot, Stop, Leave, CallTimeout,
           TellCallback, TellWaiter, task
  <1> QED BY <1>1, <1>2, <1>3, <1>4, <1>5, <1>6, <1>7, <1>8, <1>9, AskIsAsking DEF Next, Task

LEMMA PhasesStep ==
    ASSUME Types, [Next]_vars
    PROVE  Phases'
  <1>0. Phases /\ Sockets
    BY DEF Types
  <1>1. ASSUME NEW r \in Requests, NEW h \in Hosts, Asking(r, h)
        PROVE  Phases'
    <2>1. CASE ResolveAtOnce(r, h) \/ ResolveFails(r, h) \/ \E t \in Timeouts : ResolveJoins(r, h, t)
      BY <1>0, <2>1 DEF ResolveAtOnce, ResolveFails, ResolveJoins, Phases, task
    <2>2. ASSUME NEW t \in Timeouts, NEW d \in Addrs, NEW up \in BOOLEAN, ResolveCreates(r, h, t, d, up)
          PROVE  Phases'
      <3>1. d \notin closing /\ list' = list \cup {d}
        BY <2>2, FreeFacts DEF ResolveCreates
      <3> QED BY <1>0, <2>2, <3>1 DEF ResolveCreates, Phases, task
    <2> QED BY <1>1, <2>1, <2>2 DEF Asking
  <1>2. CASE Tick
    BY <1>0, <1>2 DEF Tick, Phases
  <1>3. CASE Top
    BY <1>0, <1>3 DEF Top, Phases
  <1>4. CASE Close
    BY <1>0, <1>4 DEF Close, Phases
  <1>5. CASE Snapshot \/ Select
    BY <1>0, <1>5 DEF Snapshot, Select, Phases, Sockets
  <1>6. ASSUME NEW d \in Addrs, Deal(d)
        PROVE  Phases'
    BY <1>0, <1>6 DEF Deal, Phases, Sockets, Expired, Entry
  <1>7. ASSUME NEW d \in Addrs, Answer(d)
        PROVE  Phases'
    <2>1. d \in list /\ batch = {} /\ closing = {} /\ dns[d].resolves \subseteq Requests
      BY <1>0, <1>7 DEF Answer, Phases, Sockets, Entry
    <2> QED BY <1>0, <1>7, <2>1 DEF Answer, Phases
  <1>8. ASSUME NEW up \in SUBSET list, Second(up)
        PROVE  Phases'
    BY <1>0, <1>8 DEF Second, Phases
  <1>9. ASSUME NEW r \in Requests, CallTimeout(r)
        PROVE  Phases'
    BY <1>0, <1>9 DEF CallTimeout, Phases
  <1>10. ASSUME NEW r \in Requests, TellCallback(r) \/ TellWaiter(r)
         PROVE  Phases'
    BY <1>0, <1>10 DEF TellCallback, TellWaiter, Tell, Phases
  <1>11. CASE UNCHANGED <<pc, due, watched, closing, batch, list>>
    BY <1>0, <1>11 DEF Phases
  <1>12. /\ UNCHANGED vars \/ Environment => UNCHANGED <<pc, due, watched, closing, batch, list>>
         /\ \A r \in Requests : TakeSlot(r) \/ Stop(r) \/ Leave(r)
              => UNCHANGED <<pc, due, watched, closing, batch, list>>
    BY DEF vars, Environment, Setsrv, Forget, Reply, TakeSlot, Stop, Leave, task
  <1> QED BY <1>1, <1>2, <1>3, <1>4, <1>5, <1>6, <1>7, <1>8, <1>9, <1>10, <1>11, <1>12, AskIsAsking DEF Next, Task

LEMMA TypesInit == Init => Types
  <1>1. ASSUME Init PROVE Sockets
    BY <1>1, NoDnsIsEntry, DnsConstants DEF Init, Sockets
  <1>2. ASSUME Init PROVE Calling
    BY <1>2, DnsConstants DEF Init, Calling, Statuses, Seat
  <1>3. ASSUME Init PROVE Clocks
    <2>1. PipeSize \in Nat
      BY DnsConstants
    <2>2. timers = [d \in Addrs |-> None] /\ wakes = 0 /\ {gTimer, late, lost} \subseteq BOOLEAN
      BY <1>3 DEF Init
    <2> QED BY <2>1, <2>2 DEF Clocks
  <1>4. ASSUME Init PROVE Phases
    BY <1>4 DEF Init, Phases
  <1> QED BY <1>1, <1>2, <1>3, <1>4 DEF Types

LEMMA TypesInvariance == Spec => []Types
  <1>1. Types /\ [Next]_vars => Types'
    BY CallingStep, SocketsStep, ClocksStep, PhasesStep DEF Types
  <1> QED BY <1>1, TypesInit, PTL DEF Spec

\* No count of the client passes its bound, for any number of calls, sockets and timers.
THEOREM TypeCorrect == Spec => []TypeOK
  <1>1. Types => TypeOK
    BY DEF Types, TypeOK, Calling, Statuses, Sockets, Clocks, Phases, Entry
  <1> QED BY <1>1, TypesInvariance, PTL

-----------------------------------------------------------------------------
(* A call of mid_dns_resolve is called back once.                          *)

\* Where a call with a callback is: listed with one mid_dns or in the task's hands while it
\* waits, nowhere otherwise.
Listed(d, r) == d \in list /\ r \in dns[d].resolves

Once ==
    \A r \in Callbacks :
        /\ r \in batch => status[r] = "waiting" /\ \A d \in Addrs : ~Listed(d, r)
        /\ \A d, e \in Addrs : Listed(d, r) /\ Listed(e, r) => d = e
        /\ \A d \in Addrs : Listed(d, r) => status[r] = "waiting"
        /\ status[r] = "waiting" => r \in batch \/ \E d \in Addrs : Listed(d, r)
        /\ told[r] = IF status[r] = "done" THEN 1 ELSE 0
        /\ status[r] # "slotted"

LEMMA OnceAsk ==
    ASSUME Types, Once, NEW r \in Requests, NEW h \in Hosts, Asking(r, h)
    PROVE  Once'
  <1>0. Calling /\ Sockets /\ Phases
    BY DEF Types
  <1>1. status[r] \in {"new", "slotted"}
    BY DEF Asking, ResolveAtOnce, ResolveFails, ResolveJoins, ResolveCreates, Ready, IsNext
  <1>2. UNCHANGED <<arg, batch>>
    BY DEF Asking, ResolveAtOnce, ResolveFails, ResolveJoins, ResolveCreates, task
  <1>3. Callbacks' = Callbacks
    BY <1>2 DEF Callbacks, Waiters
  <1>4. r \in Callbacks => r \notin batch /\ told[r] = 0 /\ \A d \in Addrs : ~Listed(d, r)
    BY <1>1 DEF Once
  <1>5. CASE ResolveAtOnce(r, h) \/ ResolveFails(r, h)
    <2>1. /\ status' = [status EXCEPT ![r] = IF r \in Callbacks THEN "done" ELSE "leaving"]
          /\ told' = IF r \in Callbacks THEN [told EXCEPT ![r] = @ + 1] ELSE told
          /\ UNCHANGED <<list, dns>>
      BY <1>5 DEF ResolveAtOnce, ResolveFails, Ended
    <2>2. \A q \in Callbacks : q # r => status'[q] = status[q] /\ told'[q] = told[q]
      BY <2>1, <1>0 DEF Calling, Callbacks
    <2>3. r \in Callbacks => status'[r] = "done" /\ told'[r] = 1
      BY <2>1, <1>0, <1>4 DEF Calling
    <2>4. \A d \in Addrs, q \in Requests : Listed(d, q)' <=> Listed(d, q)
      BY <2>1 DEF Listed
    <2> QED BY <1>2, <1>3, <1>4, <2>2, <2>3, <2>4 DEF Once, Callbacks
  <1>6. ASSUME NEW t \in Timeouts, NEW d \in Addrs, UNCHANGED told,
               status' = [status EXCEPT ![r] = "waiting"],
               \A e \in Addrs, q \in Requests :
                 Listed(e, q)' <=> Listed(e, q) \/ (e = d /\ q = r)
        PROVE  Once'
    <2>1. \A q \in Callbacks : q # r => status'[q] = status[q]
      BY <1>6, <1>0 DEF Calling, Callbacks
    <2>2. status'[r] = "waiting"
      BY <1>6, <1>0 DEF Calling
    <2> QED BY <1>2, <1>3, <1>4, <1>6, <2>1, <2>2 DEF Once, Callbacks
  <1>7. ASSUME NEW t \in Timeouts, ResolveJoins(r, h, t)
        PROVE  Once'
    <2>1. PICK d \in Serving(h) : dns' = [dns EXCEPT ![d].resolves = @ \cup {r}]
      BY <1>7 DEF ResolveJoins
    <2>2. d \in list /\ d \in Addrs
      BY <1>0 DEF Serving, Sockets
    <2>3. /\ dns'[d].resolves = dns[d].resolves \cup {r}
          /\ \A e \in Addrs : e # d => dns'[e] = dns[e]
      BY <1>0, <2>1, <2>2 DEF Sockets, Entry
    <2>4. \A e \in Addrs, q \in Requests : Listed(e, q)' <=> Listed(e, q) \/ (e = d /\ q = r)
      BY <1>7, <2>2, <2>3 DEF Listed, ResolveJoins
    <2>5. status' = [status EXCEPT ![r] = "waiting"] /\ UNCHANGED told
      BY <1>7 DEF ResolveJoins, Accept
    <2> QED BY <1>6, <2>2, <2>4, <2>5
  <1>8. ASSUME NEW t \in Timeouts, NEW d \in Addrs, NEW up \in BOOLEAN, ResolveCreates(r, h, t, d, up)
        PROVE  Once'
    <2>1. d \notin list
      BY <1>8, FreeFacts DEF ResolveCreates
    <2>2. list' = list \cup {d} /\ dns' = [dns EXCEPT ![d] = Fresh(h, r, t)]
      BY <1>8 DEF ResolveCreates
    <2>3. dns'[d].resolves = {r} /\ \A e \in Addrs : e # d => dns'[e] = dns[e]
      BY <1>0, <2>2, FreshFacts DEF Sockets
    <2>4. \A e \in Addrs, q \in Requests : Listed(e, q)' <=> Listed(e, q) \/ (e = d /\ q = r)
      BY <2>1, <2>2, <2>3 DEF Listed
    <2>5. status' = [status EXCEPT ![r] = "waiting"] /\ UNCHANGED told
      BY <1>8 DEF ResolveCreates, Accept
    <2> QED BY <1>6, <2>4, <2>5
  <1> QED BY <1>5, <1>7, <1>8 DEF Asking

\* The calls of mid_dns_gethost are not among those with a callback.
LEMMA OnceWaiters ==
    ASSUME Types, Once, NEW w \in Requests, TakeSlot(w) \/ Stop(w) \/ Leave(w),
           status[w] = "leaving" => w \in Waiters
    PROVE  Once'
  <1>0. Calling
    BY DEF Types
  <1>1. UNCHANGED <<list, dns, batch, told>>
    BY DEF TakeSlot, Stop, Leave, task
  <1>2. \A d \in Addrs, q \in Requests : Listed(d, q)' <=> Listed(d, q)
    BY <1>1 DEF Listed
  <1>3. \A q \in Requests : q # w => status'[q] = status[q] /\ arg'[q] = arg[q]
    BY <1>0 DEF TakeSlot, Stop, Leave, Calling
  <1>4. w \in Callbacks' => w \in Callbacks /\ status[w] = "new" /\ status'[w] = "refused"
    <2>1. CASE TakeSlot(w)
      <3> DEFINE free == {i \in 1 .. Slots : slot[i].msgq = None}
      <3>1. CASE free = {}
        BY <1>0, <2>1, <3>1 DEF TakeSlot, IsNext, Callbacks, Waiters, Calling
      <3>2. CASE free # {}
        <4>1. free \in SUBSET Nat
          BY DnsConstants
        <4>2. Min(free) \in 1 .. Slots
          BY <3>2, <4>1, LeastSlot
        <4>3. arg' = [arg EXCEPT ![w] = Min(free)]
          BY <2>1, <3>2 DEF TakeSlot
        <4>4. arg'[w] # 0
          BY <1>0, <4>2, <4>3, DnsConstants DEF Calling
        <4> QED BY <4>4 DEF Callbacks, Waiters
      <3> QED BY <3>1, <3>2
    <2>2. CASE Stop(w) \/ Leave(w)
      BY <2>2 DEF Stop, Leave, Callbacks, Waiters
    <2> QED BY <2>1, <2>2
  <1>5. \A q \in Callbacks' : q # w => q \in Callbacks
    BY <1>3 DEF Callbacks, Waiters
  <1> QED BY <1>1, <1>2, <1>3, <1>4, <1>5 DEF Once, Callbacks

LEMMA OnceTask ==
    ASSUME Types, Once,
           \/ \E d \in Addrs : Deal(d) \/ Answer(d)
           \/ \E r \in Requests : CallTimeout(r) \/ TellCallback(r) \/ TellWaiter(r)
           \/ Close \/ \E up \in SUBSET list : Second(up)
    PROVE  Once'
  <1>0. Calling /\ Sockets /\ Phases
    BY DEF Types
  <1>1. UNCHANGED arg /\ Callbacks' = Callbacks
    BY DEF Deal, Answer, CallTimeout, TellCallback, TellWaiter, Close, Second, callers, Callbacks, Waiters
  <1>2. ASSUME NEW d \in Addrs, Deal(d)
        PROVE  Once'
    <2>1. batch = {} /\ UNCHANGED <<status, told>>
      BY <1>0, <1>2 DEF Deal, Phases, callers
    <2>2. \A e \in list : dns'[e].resolves = dns[e].resolves \ Expired(e)
      BY <1>0, <1>2 DEF Deal, StillListed, Sockets, Entry
    <2>3. \A e \in Addrs, q \in Requests : Listed(e, q)' <=> Listed(e, q) /\ q \notin Expired(e)
      <3>1. list' = {e \in list : dns'[e].resolves # {}}
        BY <1>2 DEF Deal
      <3> QED BY <2>2, <3>1 DEF Listed
    <2>4. \A q \in Requests : q \in batch' <=> \E e \in Addrs : Listed(e, q) /\ q \in Expired(e)
      <3>1. batch' = UNION {Expired(e) : e \in list}
        BY <1>2 DEF Deal
      <3>2. \A e : Expired(e) \subseteq dns[e].resolves
        BY DEF Expired
      <3> QED BY <1>0, <3>1, <3>2 DEF Listed, Sockets
    <2> QED BY <1>1, <2>1, <2>3, <2>4 DEF Once, Callbacks
  <1>3. ASSUME NEW d \in Addrs, Answer(d)
        PROVE  Once'
    <2>1. batch = {} /\ d \in list /\ UNCHANGED <<status, told, list>>
      BY <1>0, <1>3 DEF Answer, Phases, callers
    <2>2. CASE inbox[d] = "junk"
      BY <1>1, <1>3, <2>1, <2>2 DEF Answer, Once, Listed
    <2>3. CASE inbox[d] # "junk"
      <3>1. batch' = dns[d].resolves /\ dns' = [dns EXCEPT ![d].resolves = {}]
        BY <1>3, <2>3 DEF Answer
      <3>2. dns'[d].resolves = {} /\ \A e \in Addrs : e # d => dns'[e] = dns[e]
        BY <1>0, <3>1 DEF Sockets, Entry
      <3>3. \A e \in Addrs, q \in Requests : Listed(e, q)' <=> Listed(e, q) /\ e # d
        BY <2>1, <3>2 DEF Listed
      <3>4. \A q \in Requests : q \in batch' <=> Listed(d, q)
        BY <2>1, <3>1 DEF Listed
      <3> QED BY <1>1, <2>1, <3>3, <3>4 DEF Once, Callbacks
    <2> QED BY <2>2, <2>3
  <1>4. ASSUME NEW r \in Requests, CallTimeout(r) \/ TellCallback(r) \/ TellWaiter(r)
        PROVE  Once'
    <2>1. r \in batch /\ batch' = batch \ {r} /\ UNCHANGED <<list, dns>>
      BY <1>4 DEF CallTimeout, TellCallback, TellWaiter, Tell
    <2>2. \A d \in Addrs, q \in Requests : Listed(d, q)' <=> Listed(d, q)
      BY <2>1 DEF Listed
    <2>3. CASE r \in Callbacks
      <3>1. status' = [status EXCEPT ![r] = "done"] /\ told' = [told EXCEPT ![r] = @ + 1]
        BY <1>4, <2>3 DEF CallTimeout, TellCallback, TellWaiter, Callbacks
      <3>2. \A q \in Callbacks : q # r => status'[q] = status[q] /\ told'[q] = told[q]
        BY <1>0, <3>1 DEF Calling, Callbacks
      <3>3. status[r] = "waiting" /\ told[r] = 0 /\ \A d \in Addrs : ~Listed(d, r)
        BY <2>1, <2>3 DEF Once
      <3>4. status'[r] = "done" /\ told'[r] = 1
        BY <1>0, <3>1, <3>3 DEF Calling
      <3> QED BY <1>1, <2>1, <2>2, <3>2, <3>3, <3>4 DEF Once, Callbacks
    <2>4. CASE r \notin Callbacks
      <3>1. UNCHANGED <<status, told>>
        BY <1>4, <2>4 DEF CallTimeout, TellCallback, TellWaiter
      <3> QED BY <1>1, <2>1, <2>2, <2>4, <3>1 DEF Once, Callbacks
    <2> QED BY <2>3, <2>4
  <1>5. CASE Close
    <2>1. /\ dns' = [d \in Addrs |-> IF d \in closing THEN NoDns ELSE dns[d]]
          /\ UNCHANGED <<list, batch, status, told>>
      BY <1>5 DEF Close, callers
    <2>2. \A d \in Addrs, q \in Requests : Listed(d, q)' <=> Listed(d, q)
      BY <1>0, <2>1 DEF Listed, Phases
    <2> QED BY <1>1, <2>1, <2>2 DEF Once, Callbacks
  <1>6. ASSUME NEW up \in SUBSET list, Second(up)
        PROVE  Once'
    <2>1. /\ dns' = [d \in Addrs |-> IF d \in list THEN AfterSecond(dns[d]) ELSE dns[d]]
          /\ UNCHANGED <<list, batch, status, told>>
      BY <1>6 DEF Second, callers
    <2>2. \A d \in list : AfterSecond(dns[d]).resolves = dns[d].resolves
      BY <1>0, SecondFacts DEF Sockets
    <2>3. \A d \in Addrs, q \in Requests : Listed(d, q)' <=> Listed(d, q)
      BY <1>0, <2>1, <2>2 DEF Listed, Sockets
    <2> QED BY <1>1, <2>1, <2>3 DEF Once, Callbacks
  <1> QED BY <1>2, <1>3, <1>4, <1>5, <1>6

LEMMA OnceOthers ==
    ASSUME Once, UNCHANGED vars \/ Environment \/ Tick \/ Top \/ Snapshot \/ Select
    PROVE  Once'
  <1>1. UNCHANGED <<arg, status, told, batch, list, dns>>
    BY DEF vars, Environment, Setsrv, Forget, Reply, Tick, Top, Snapshot, Select, task, callers
  <1> QED BY <1>1 DEF Once, Listed, Callbacks, Waiters

-----------------------------------------------------------------------------
(* The slots of g_msgq_array.                                              *)

\* A call inside gethost owns the slot it holds; the serial number in it, once set, is its
\* own; a queue with an answer in it is that of a call that has not left.
Seats ==
    /\ \A i \in 1 .. Slots, w \in Requests : slot[i].msgq = w =>
           arg[w] = i /\ status[w] \in {"slotted", "waiting", "leaving"}
    /\ \A i \in 1 .. Slots, w \in Requests : slot[i].sn = w =>
           slot[i].msgq = w /\ status[w] \in {"waiting", "leaving"}
    /\ \A w \in Requests : status[w] = "new" => w \in Callbacks
    /\ \A w \in Requests : status[w] \in {"slotted", "leaving"} => w \in Waiters
    /\ \A w \in Waiters : status[w] \in {"slotted", "waiting", "leaving"} => slot[arg[w]].msgq = w
    /\ \A w \in box : w \in Waiters /\ status[w] \in {"waiting", "leaving"}

LEMMA NoneIsNoRequest == None \notin Requests
  BY DnsConstants DEF Requests

LEMMA SeatsAsk ==
    ASSUME Types, Seats, NEW r \in Requests, NEW h \in Hosts, Asking(r, h)
    PROVE  Seats'
  <1>0. Calling
    BY DEF Types
  <1>1. status[r] \in {"new", "slotted"} /\ UNCHANGED <<arg, box>>
    BY DEF Asking, ResolveAtOnce, ResolveFails, ResolveJoins, ResolveCreates, Ready, IsNext
  <1>2. r \notin box
    BY <1>1 DEF Seats
  <1>3. Callbacks' = Callbacks /\ Waiters' = Waiters
    BY <1>1 DEF Callbacks, Waiters
  <1>4. CASE r \in Callbacks
    <2>1. UNCHANGED slot /\ \E st \in {"waiting", "done"} : status' = [status EXCEPT ![r] = st]
      BY <1>4 DEF Asking, ResolveAtOnce, ResolveFails, ResolveJoins, ResolveCreates, Accept, Ended, Callbacks
    <2>2. \A w \in Requests : w # r => status'[w] = status[w]
      BY <1>0, <2>1 DEF Calling
    <2>3. status'[r] \in {"waiting", "done"}
      BY <1>0, <2>1 DEF Calling
    <2>4. \A i \in 1 .. Slots : slot[i].msgq # r /\ slot[i].sn # r
      BY <1>4, DnsConstants DEF Seats, Callbacks, Waiters
    <2> QED BY <1>1, <1>2, <1>3, <1>4, <2>1, <2>2, <2>3, <2>4 DEF Seats, Callbacks
  <1>5. CASE r \in Waiters
    <2>1. /\ slot' = slot \/ slot' = [slot EXCEPT ![arg[r]].sn = r]
          /\ \E st \in {"waiting", "leaving"} : status' = [status EXCEPT ![r] = st]
      BY <1>5 DEF Asking, ResolveAtOnce, ResolveFails, ResolveJoins, ResolveCreates, Accept, Ended, Callbacks
    <2>2. \A w \in Requests : w # r => status'[w] = status[w]
      BY <1>0, <2>1 DEF Calling
    <2>3. status'[r] \in {"waiting", "leaving"}
      BY <1>0, <2>1 DEF Calling
    <2>4. arg[r] \in 1 .. Slots /\ slot[arg[r]].msgq = r
      BY <1>0, <1>1, <1>5, SeatFacts DEF Seats, Callbacks
    <2>5. /\ \A i \in 1 .. Slots : slot'[i].msgq = slot[i].msgq
          /\ \A i \in 1 .. Slots : slot'[i].sn = slot[i].sn \/ (i = arg[r] /\ slot'[i].sn = r)
      <3>1. slot \in [1 .. Slots -> Seat]
        BY <1>0 DEF Calling
      <3>2. ASSUME slot' = [slot EXCEPT ![arg[r]].sn = r], NEW i \in 1 .. Slots
            PROVE  slot'[i].msgq = slot[i].msgq /\ (slot'[i].sn = slot[i].sn \/ (i = arg[r] /\ slot'[i].sn = r))
        BY <2>4, <3>1, <3>2 DEF Seat
      <3> QED BY <2>1, <3>2
    <2>6. \A w \in Waiters : arg[w] \in 1 .. Slots
      BY <1>0, SeatFacts
    <2>7. \A i \in 1 .. Slots, w \in Requests : slot'[i].msgq = w =>
              arg[w] = i /\ status'[w] \in {"slotted", "waiting", "leaving"}
      BY <2>2, <2>3, <2>5 DEF Seats
    <2>8. \A i \in 1 .. Slots, w \in Requests : slot'[i].sn = w =>
              slot'[i].msgq = w /\ status'[w] \in {"waiting", "leaving"}
      BY <2>2, <2>3, <2>4, <2>5 DEF Seats
    <2>9. \A w \in Waiters : status'[w] \in {"slotted", "waiting", "leaving"} => slot'[arg[w]].msgq = w
      BY <2>2, <2>4, <2>5, <2>6 DEF Seats, Waiters
    <2>10. /\ \A w \in Requests : status'[w] = "new" => w \in Callbacks'
           /\ \A w \in Requests : status'[w] \in {"slotted", "leaving"} => w \in Waiters'
      BY <1>3, <1>5, <2>2, <2>3 DEF Seats
    <2>11. \A w \in box' : w \in Waiters' /\ status'[w] \in {"waiting", "leaving"}
      BY <1>0, <1>1, <1>2, <1>3, <2>2 DEF Seats, Calling
    <2>12. /\ \A i \in 1 .. Slots, w \in Requests : slot'[i].msgq = w =>
                arg'[w] = i /\ status'[w] \in {"slotted", "waiting", "leaving"}
           /\ \A w \in Waiters' : status'[w] \in {"slotted", "waiting", "leaving"} => slot'[arg'[w]].msgq = w
      BY <1>1, <1>3, <2>7, <2>9
    <2> QED BY <2>8, <2>10, <2>11, <2>12, Zenon DEF Seats
  <1> QED BY <1>4, <1>5 DEF Callbacks

LEMMA SeatsWaiters ==
    ASSUME Types, Seats, NEW w \in Requests, TakeSlot(w) \/ Stop(w) \/ Leave(w)
    PROVE  Seats'
  <1>0. Calling
    BY DEF Types
  <1>1. \A v \in Waiters : arg[v] \in 1 .. Slots
    BY <1>0, SeatFacts
  <1>2. CASE TakeSlot(w)
    <2> DEFINE free == {i \in 1 .. Slots : slot[i].msgq = None}
    <2>0. status[w] = "new" /\ w \in Callbacks /\ w \notin box /\ UNCHANGED box
      BY <1>2 DEF TakeSlot, IsNext, Seats
    <2>1. CASE free = {}
      <3>1. status' = [status EXCEPT ![w] = "refused"] /\ UNCHANGED <<slot, arg>>
        BY <1>2, <2>1 DEF TakeSlot
      <3>2. status'[w] = "refused" /\ \A v \in Requests : v # w => status'[v] = status[v]
        BY <1>0, <3>1 DEF Calling
      <3>3. \A i \in 1 .. Slots : slot[i].msgq # w /\ slot[i].sn # w
        BY <2>0, DnsConstants DEF Seats, Callbacks, Waiters
      <3> QED BY <2>0, <3>1, <3>2, <3>3 DEF Seats, Callbacks, Waiters
    <2>2. CASE free # {}
      <3>1. free \in SUBSET Nat
        BY DnsConstants
      <3>2. PICK i \in 1 .. Slots : i = Min(free) /\ slot[i].msgq = None
        BY <2>2, <3>1, LeastSlot
      <3> HIDE DEF free
      <3>3. /\ status' = [status EXCEPT ![w] = "slotted"]
            /\ slot' = [slot EXCEPT ![i] = [sn |-> None, msgq |-> w]]
            /\ arg' = [arg EXCEPT ![w] = i]
        BY <1>2, <2>2, <3>2 DEF TakeSlot, free
      <3>4. /\ status'[w] = "slotted" /\ arg'[w] = i
            /\ \A v \in Requests : v # w => status'[v] = status[v] /\ arg'[v] = arg[v]
        BY <1>0, <3>3 DEF Calling
      <3>5. /\ slot'[i].sn = None /\ slot'[i].msgq = w
            /\ \A k \in 1 .. Slots : k # i => slot'[k] = slot[k]
        BY <1>0, <3>3 DEF Calling
      <3>6. \A k \in 1 .. Slots : slot[k].msgq # w /\ slot[k].sn # w
        BY <2>0, DnsConstants DEF Seats, Callbacks, Waiters
      <3>7. w \in Waiters' /\ \A v \in Requests : v # w => (v \in Waiters' <=> v \in Waiters)
        BY <3>4, DnsConstants DEF Waiters
      <3>8. \A v \in Waiters : status[v] \in {"slotted", "waiting", "leaving"} => arg[v] # i
        BY <3>2, NoneIsNoRequest DEF Seats, Waiters
      <3>9. \A v \in Requests : v \in Callbacks' <=> v \notin Waiters'
        BY DEF Callbacks
      <3>10. Waiters' \subseteq Requests
        BY DEF Waiters
      <3>11. \A k \in 1 .. Slots, v \in Requests : slot'[k].msgq = v =>
               arg'[v] = k /\ status'[v] \in {"slotted", "waiting", "leaving"}
        BY <3>4, <3>5, <3>6 DEF Seats
      <3>12. \A k \in 1 .. Slots, v \in Requests : slot'[k].sn = v =>
               slot'[k].msgq = v /\ status'[v] \in {"waiting", "leaving"}
        BY <3>4, <3>5, <3>6, NoneIsNoRequest DEF Seats
      <3>13. /\ \A v \in Requests : status'[v] = "new" => v \in Callbacks'
             /\ \A v \in Requests : status'[v] \in {"slotted", "leaving"} => v \in Waiters'
        BY <3>4, <3>7, <3>9 DEF Seats, Callbacks
      <3>14. \A v \in Waiters' : status'[v] \in {"slotted", "waiting", "leaving"} => slot'[arg'[v]].msgq = v
        <4>1. SUFFICES ASSUME NEW v \in Waiters', status'[v] \in {"slotted", "waiting", "leaving"}
                       PROVE  slot'[arg'[v]].msgq = v
          OBVIOUS
        <4>2. CASE v = w
          BY <3>4, <3>5, <4>2
        <4>3. CASE v # w
          BY <1>1, <3>4, <3>5, <3>7, <3>8, <3>10, <4>1, <4>3 DEF Seats
        <4> QED BY <4>2, <4>3
      <3>15. \A v \in box' : v \in Waiters' /\ status'[v] \in {"waiting", "leaving"}
        BY <1>0, <2>0, <3>4, <3>7 DEF Seats, Calling
      <3> QED BY <3>11, <3>12, <3>13, <3>14, <3>15, Zenon DEF Seats
    <2> QED BY <2>1, <2>2
  <1>3. CASE Stop(w)
    <2>1. /\ w \in Waiters /\ status[w] = "waiting" /\ status' = [status EXCEPT ![w] = "leaving"]
          /\ UNCHANGED <<slot, arg, box>>
      BY <1>3 DEF Stop
    <2>2. status'[w] = "leaving" /\ \A v \in Requests : v # w => status'[v] = status[v]
      BY <1>0, <2>1 DEF Calling
    <2> QED BY <2>1, <2>2 DEF Seats, Callbacks, Waiters
  <1>4. CASE Leave(w)
    <2>1. /\ status[w] = "leaving" /\ UNCHANGED arg /\ box' = box \ {w}
          /\ slot' = [slot EXCEPT ![arg[w]] = [sn |-> None, msgq |-> None]]
          /\ status' = [status EXCEPT ![w] = "done"]
      BY <1>4 DEF Leave
    <2>2. w \in Waiters /\ arg[w] \in 1 .. Slots /\ slot[arg[w]].msgq = w
      BY <1>1, <2>1 DEF Seats
    <2>3. status'[w] = "done" /\ \A v \in Requests : v # w => status'[v] = status[v]
      BY <1>0, <2>1 DEF Calling
    <2>4. /\ slot'[arg[w]].sn = None /\ slot'[arg[w]].msgq = None
          /\ \A k \in 1 .. Slots : k # arg[w] => slot'[k] = slot[k]
      BY <1>0, <2>1, <2>2 DEF Calling
    <2>5. \A k \in 1 .. Slots : k # arg[w] => slot[k].msgq # w /\ slot[k].sn # w
      BY DEF Seats
    <2>6. Waiters' = Waiters /\ Callbacks' = Callbacks
      BY <2>1 DEF Waiters, Callbacks
    <2>7. \A v \in Waiters : v # w /\ status[v] \in {"slotted", "waiting", "leaving"} => arg[v] # arg[w]
      BY <2>2 DEF Seats
    <2>8. Waiters \subseteq Requests /\ box \subseteq Requests
      BY <1>0 DEF Waiters, Calling
    <2> QED BY <1>1, <2>1, <2>2, <2>3, <2>4, <2>5, <2>6, <2>7, <2>8, NoneIsNoRequest DEF Seats
  <1> QED BY <1>2, <1>3, <1>4

LEMMA SeatsTold ==
    ASSUME Types, Once, Seats, NEW r \in Requests, CallTimeout(r) \/ TellCallback(r) \/ TellWaiter(r)
    PROVE  Seats'
  <1>0. Calling
    BY DEF Types
  <1>1. UNCHANGED <<slot, arg>> /\ r \in batch
    BY DEF CallTimeout, TellCallback, TellWaiter, Tell
  <1>2. Waiters' = Waiters /\ Callbacks' = Callbacks
    BY <1>1 DEF Waiters, Callbacks
  <1>3. CASE r \in Callbacks
    <2>1. status' = [status EXCEPT ![r] = "done"] /\ UNCHANGED box
      BY <1>3 DEF CallTimeout, TellCallback, TellWaiter, Callbacks
    <2>2. status'[r] = "done" /\ \A v \in Requests : v # r => status'[v] = status[v]
      BY <1>0, <2>1 DEF Calling
    <2>3. \A i \in 1 .. Slots : slot[i].msgq # r /\ slot[i].sn # r
      BY <1>3, DnsConstants DEF Seats, Callbacks, Waiters
    <2>4. r \notin box /\ r \notin Waiters /\ Waiters \subseteq Requests
      BY <1>3 DEF Seats, Callbacks, Waiters
    <2> QED BY <1>1, <1>2, <1>3, <2>1, <2>2, <2>3, <2>4 DEF Seats
  <1>4. CASE r \notin Callbacks
    <2>0. r \in Waiters
      BY <1>4 DEF Callbacks
    <2>1. UNCHANGED status
      BY <1>4 DEF CallTimeout, TellCallback, TellWaiter
    <2>2. box' = box \/ (Reached(arg[r], r) /\ box' = box \cup {slot[arg[r]].msgq})
      BY <2>0 DEF CallTimeout, TellCallback, TellWaiter
    <2>3. Reached(arg[r], r) => slot[arg[r]].msgq = r /\ status[r] \in {"waiting", "leaving"}
      BY <1>0, <2>0, SeatFacts DEF Reached, Seats
    <2> QED BY <1>1, <1>2, <2>0, <2>1, <2>2, <2>3 DEF Seats
  <1> QED BY <1>3, <1>4

LEMMA SeatsOthers ==
    ASSUME Seats,
           \/ UNCHANGED vars \/ Environment \/ Tick \/ Top \/ Snapshot \/ Select \/ Close
           \/ \E d \in Addrs : Deal(d) \/ Answer(d)
           \/ \E up \in SUBSET list : Second(up)
    PROVE  Seats'
  <1>1. UNCHANGED <<arg, status, slot, box>>
    BY DEF vars, Environment, Setsrv, Forget, Reply, Tick, Top, Snapshot, Select, Close, Deal, Answer, Second, callers
  <1> QED BY <1>1 DEF Seats, Callbacks, Waiters

-----------------------------------------------------------------------------
DInv == Types /\ Once /\ Seats

LEMMA DInvInit == Init => DInv
  <1> SUFFICES ASSUME Init PROVE DInv
    OBVIOUS
  <1>1. /\ batch = {} /\ list = {} /\ box = {}
        /\ \A r \in Requests : status[r] = "new" /\ told[r] = 0 /\ arg[r] = 0
        /\ \A i \in 1 .. Slots : slot[i].sn = None /\ slot[i].msgq = None
    BY DEF Init
  <1>2. Once
    BY <1>1 DEF Once, Listed, Callbacks
  <1>3. Seats
    BY <1>1, NoneIsNoRequest DEF Seats, Callbacks, Waiters
  <1> QED BY <1>2, <1>3, TypesInit DEF DInv

LEMMA DInvStep == DInv /\ [Next]_vars => DInv'
  <1> SUFFICES ASSUME DInv, [Next]_vars PROVE DInv'
    OBVIOUS
  <1>0. Types /\ Once /\ Seats
    BY DEF DInv
  <1>1. Types'
    BY <1>0, CallingStep, SocketsStep, ClocksStep, PhasesStep DEF Types
  <1>2. ASSUME NEW r \in Requests, Ask(r)
        PROVE  Once' /\ Seats'
    <2>1. PICK h \in Hosts : Asking(r, h)
      BY <1>2, AskIsAsking
    <2> QED BY <1>0, <2>1, OnceAsk, SeatsAsk
  <1>3. ASSUME NEW r \in Requests, TakeSlot(r) \/ Stop(r) \/ Leave(r)
        PROVE  Once' /\ Seats'
    <2>1. status[r] = "leaving" => r \in Waiters
      BY <1>0 DEF Seats
    <2> QED BY <1>0, <1>3, <2>1, OnceWaiters, SeatsWaiters
  <1>4. ASSUME NEW r \in Requests, CallTimeout(r) \/ TellCallback(r) \/ TellWaiter(r)
        PROVE  Once' /\ Seats'
    BY <1>0, <1>4, OnceTask, SeatsTold
  <1>5. ASSUME UNCHANGED vars \/ Environment \/ Tick \/ Top \/ Snapshot \/ Select
        PROVE  Once' /\ Seats'
    <2>1. Once'
      BY <1>0, <1>5, OnceOthers
    <2>2. Seats'
      BY <1>0, <1>5, SeatsOthers
    <2> QED BY <2>1, <2>2
  <1>6. ASSUME Close
        PROVE  Once' /\ Seats'
    BY <1>0, <1>6, OnceTask, SeatsOthers
  <1>7. ASSUME NEW d \in Addrs, Deal(d) \/ Answer(d)
        PROVE  Once' /\ Seats'
    BY <1>0, <1>7, OnceTask, SeatsOthers
  <1>8. ASSUME NEW up \in SUBSET list, Second(up)
        PROVE  Once' /\ Seats'
    BY <1>0, <1>8, OnceTask, SeatsOthers
  <1>9. Task => Once' /\ Seats'
    BY <1>4, <1>5, <1>6, <1>7, <1>8 DEF Task
  <1>10. Once' /\ Seats'
    BY <1>2, <1>3, <1>5, <1>9 DEF Next
  <1> QED BY <1>1, <1>10 DEF DInv

LEMMA DInvInvariance == Spec => []DInv
  BY DInvInit, DInvStep, PTL DEF Spec

\* A call of mid_dns_resolve is called back once, by its answer or by its timeout, and is in
\* one place until then, for any number of calls, sockets and timers.
THEOREM CalledBackOnce == Spec => []InOnePlace
  <1>1. ASSUME DInv PROVE InOnePlace
    <2> SUFFICES ASSUME NEW r \in Callbacks
                 PROVE  LET places == {d \in list : r \in dns[d].resolves}
                        IN  /\ Cardinality(places) + (IF r \in batch THEN 1 ELSE 0) = (IF status[r] = "waiting" THEN 1 ELSE 0)
                            /\ told[r] = (IF status[r] = "done" THEN 1 ELSE 0)
      BY DEF InOnePlace
    <2> DEFINE places == {d \in list : r \in dns[d].resolves}
    <2>0. list \subseteq Addrs
      BY <1>1 DEF DInv, Types, Sockets
    <2>1. \A d \in places : d \in Addrs /\ Listed(d, r)
      BY <2>0 DEF Listed
    <2>2. told[r] = (IF status[r] = "done" THEN 1 ELSE 0)
      BY <1>1 DEF DInv, Once
    <2>3. CASE places = {}
      <3>1. Cardinality(places) = 0
        BY <2>3, FS_EmptySet
      <3>2. status[r] = "waiting" <=> r \in batch
        BY <1>1, <2>3 DEF DInv, Once, Listed
      <3> QED BY <2>2, <3>1, <3>2
    <2>4. ASSUME NEW d \in places
          PROVE  Cardinality(places) = 1 /\ status[r] = "waiting" /\ r \notin batch
      <3>1. places = {d}
        BY <1>1, <2>1, <2>4 DEF DInv, Once
      <3>2. Cardinality(places) = 1
        BY <3>1, FS_Singleton
      <3>3. status[r] = "waiting" /\ r \notin batch
        BY <1>1, <2>1, <2>4 DEF DInv, Once
      <3> QED BY <3>2, <3>3
    <2> QED BY <2>2, <2>3, <2>4
  <1> QED BY <1>1, DInvInvariance, PTL

\* An answer goes into the queue of the call it is for, or of none: the slot a call has given
\* up may be another's by the time its answer comes.
THEOREM AnswersReachTheirCaller == Spec => []AnswersFindTheirCaller
  <1>1. ASSUME DInv PROVE AnswersFindTheirCaller
    <2>0. Seats /\ Calling
      BY <1>1 DEF DInv, Types
    <2>1. \A w \in Waiters : Reached(arg[w], w) => slot[arg[w]].msgq = w
      BY <2>0, SeatFacts DEF Reached, Seats
    <2>2. \A i \in 1 .. Slots : slot[i].msgq # None => slot[i].msgq \in Requests
      BY <2>0 DEF Calling, Seat
    <2> QED BY <2>0, <2>1, <2>2 DEF AnswersFindTheirCaller, Seats
  <1> QED BY <1>1, DInvInvariance, PTL

-----------------------------------------------------------------------------
(* The task wakes up for what it has asked.                                *)

\* A mid_dns whose socket has or will have something to read.
Hot(d) == d \in list /\ (asked[d] > 0 \/ inbox[d] # None)

\* Sockets outside the list are silent; the flag stands for a timer that was
\* never deleted; between the look at the list and the end of select, what
\* comes into the list brings a message, except where its query was not sent.
Listens ==
    /\ \A d \in Addrs : d \notin list /\ d \notin closing => asked[d] = 0 /\ inbox[d] = None
    /\ gTimer => Running # {}
    /\ pc \in {"snapshot", "select"} /\ list # {} => Running # {} \/ lost \/ wakes > 0
    /\ pc = "select" => wakes > 0 \/ \A d \in Addrs : Hot(d) => d \in watched

\* A message for the task is never lost for want of room: gMsgq then holds one.
LEMMA PutWakes ==
    ASSUME NEW n \in Nat, wakes \in Nat
    PROVE  wakes > 0 \/ n > 0 => Put(n) > 0
  <1>1. Put(n) = IF PipeSize <= wakes + n THEN PipeSize ELSE wakes + n
    BY MinPair, DnsConstants DEF Put
  <1> QED BY <1>1, DnsConstants

\* A timer that was set stays; where the pool is full there is one.
LEMMA TimerRuns ==
    ASSUME Clocks, NEW d \in Addrs
    PROVE  \E e \in Addrs : TimerCreated(d)[e] # None
  <1>1. timers \in [Addrs -> {0, 1, None}] /\ 1 # None
    BY DnsConstants DEF Clocks
  <1>2. CASE timers[d] # None
    BY <1>1, <1>2 DEF TimerCreated
  <1>3. CASE Running = {}
    <2>1. Cardinality(Running) < PoolSize
      BY <1>3, FS_EmptySet, DnsConstants
    <2>2. TimerCreated(d)[d] = 1
      BY <1>1, <2>1 DEF TimerCreated
    <2> QED BY <1>1, <2>2
  <1>4. CASE timers[d] = None /\ Running # {}
    <2>1. PICK e \in Addrs : timers[e] # None
      BY <1>4 DEF Running
    <2>2. TimerCreated(d)[e] # None
      BY <1>1, <1>4, <2>1 DEF TimerCreated
    <2> QED BY <2>2
  <1> QED BY <1>2, <1>3, <1>4

LEMMA ListensAsk ==
    ASSUME Types, Listens, NEW r \in Requests, NEW h \in Hosts, Asking(r, h)
    PROVE  Listens'
  <1>0. Clocks /\ Sockets /\ Phases
    BY DEF Types
  <1>1. CASE ResolveAtOnce(r, h) \/ ResolveFails(r, h) \/ \E t \in Timeouts : ResolveJoins(r, h, t)
    <2>1. UNCHANGED <<asked, inbox, list, closing, gTimer, timers, pc, lost, wakes, watched>>
      BY <1>1 DEF ResolveAtOnce, ResolveFails, ResolveJoins, net, task
    <2> QED BY <2>1 DEF Listens, Hot, Running
  <1>2. ASSUME NEW t \in Timeouts, NEW d \in Addrs, NEW up \in BOOLEAN, ResolveCreates(r, h, t, d, up)
        PROVE  Listens'
    <2>1. /\ d \notin list /\ d \notin closing /\ list' = list \cup {d}
          /\ asked' = [asked EXCEPT ![d] = IF list = {} /\ up THEN 1 ELSE 0]
          /\ wakes' = WakesFor(list = {} /\ up)
          /\ lost' = IF list = {} THEN ~up ELSE lost
          /\ UNCHANGED <<inbox, closing, gTimer, timers, pc, watched>>
      BY <1>2, FreeFacts DEF ResolveCreates, task
    <2>2. inbox[d] = None /\ asked'[d] = (IF list = {} /\ up THEN 1 ELSE 0)
      BY <1>0, <2>1 DEF Listens, Sockets
    <2>3. \A e \in Addrs : e # d => asked'[e] = asked[e]
      BY <1>0, <2>1 DEF Sockets
    <2>4. wakes > 0 \/ (list = {} /\ up) => wakes' > 0
      BY <1>0, <2>1, PutWakes DEF WakesFor, Clocks
    <2>5. Running' = Running
      BY <2>1 DEF Running
    <2>6. list = {} => lost' \/ wakes' > 0
      BY <2>1, <2>4
    <2>7. list # {} => lost' = lost
      BY <2>1
    <2>8. (list = {} /\ up) \/ \A e \in Addrs : Hot(e)' => Hot(e)
      BY <2>1, <2>2, <2>3 DEF Hot
    <2> QED BY <2>1, <2>2, <2>3, <2>4, <2>5, <2>6, <2>7, <2>8 DEF Listens
  <1> QED BY <1>1, <1>2 DEF Asking

LEMMA ListensTask ==
    ASSUME Types, Listens,
           \/ Top \/ Close \/ Snapshot \/ Select
           \/ \E d \in Addrs : Deal(d) \/ Answer(d)
           \/ \E up \in SUBSET list : Second(up)
    PROVE  Listens'
  <1>0. Clocks /\ Sockets /\ Phases
    BY DEF Types
  <1>1. CASE Top
    <2>1. UNCHANGED <<asked, inbox, list, closing, lost, wakes, watched>> /\ pc' \in {"snapshot", "deal"}
          /\ gTimer' = (list # {})
      BY <1>1 DEF Top, net
    <2>2. list # {} => Running' # {}
      <3>1. CASE list # {} /\ ~gTimer
        <4>1. PICK d \in list : timers' = TimerCreated(d)
          BY <1>1, <3>1 DEF Top
        <4>2. \E e \in Addrs : timers'[e] # None
          BY <1>0, <4>1, TimerRuns DEF Sockets
        <4> QED BY <4>2 DEF Running
      <3>2. CASE gTimer
        <4>1. timers' = timers
          BY <1>1, <3>2 DEF Top
        <4> QED BY <3>2, <4>1 DEF Listens, Running
      <3> QED BY <3>1, <3>2
    <2> QED BY <2>1, <2>2 DEF Listens
  <1>2. CASE Close
    <2>1. /\ closing' = {} /\ pc' = "second" /\ UNCHANGED <<list, timers, gTimer>>
          /\ asked' = [d \in Addrs |-> IF d \in closing THEN 0 ELSE asked[d]]
          /\ inbox' = [d \in Addrs |-> IF d \in closing THEN None ELSE inbox[d]]
      BY <1>2 DEF Close
    <2> QED BY <2>1 DEF Listens, Running
  <1>3. CASE Snapshot
    <2>1. /\ watched' = list /\ pc = "snapshot" /\ pc' = "select"
          /\ UNCHANGED <<asked, inbox, list, closing, gTimer, timers, lost, wakes>>
      BY <1>3 DEF Snapshot, net
    <2> QED BY <2>1 DEF Listens, Running, Hot
  <1>4. CASE Select
    <2>1. pc' \in {"top", "answer"} /\ UNCHANGED <<asked, inbox, list, closing, gTimer, timers>>
      BY <1>4 DEF Select, net
    <2> QED BY <2>1 DEF Listens, Running
  <1>5. ASSUME NEW d \in Addrs, Deal(d)
        PROVE  Listens'
    <2>1. /\ pc = "deal" /\ pc' = "expiring" /\ list' = list \ closing' /\ closing' \subseteq list
          /\ timers' = [timers EXCEPT ![d] = IF late THEN 0 ELSE 1]
          /\ UNCHANGED <<asked, inbox, gTimer>>
      BY <1>5 DEF Deal, net
    <2>2. closing = {}
      BY <1>0, <2>1 DEF Phases
    <2>3. timers'[d] # None
      BY <1>0, <2>1, DnsConstants DEF Clocks
    <2>4. Running' # {}
      BY <2>3 DEF Running
    <2> QED BY <2>1, <2>2, <2>4 DEF Listens
  <1>6. ASSUME NEW d \in Addrs, Answer(d)
        PROVE  Listens'
    <2>1. pc' \in {"top", "telling"} /\ UNCHANGED <<asked, list, closing, gTimer, timers>>
          /\ inbox' = [inbox EXCEPT ![d] = None]
      BY <1>6 DEF Answer
    <2>2. \A e \in Addrs : inbox'[e] = None \/ inbox'[e] = inbox[e]
      BY <1>0, <2>1 DEF Sockets
    <2> QED BY <2>1, <2>2 DEF Listens, Running
  <1>7. ASSUME NEW up \in SUBSET list, Second(up)
        PROVE  Listens'
    <2>1. /\ pc' \in {"top", "deal"} /\ UNCHANGED <<inbox, list, closing, gTimer, timers>>
          /\ \A e \in Addrs : e \notin list => asked'[e] = asked[e]
      BY <1>7 DEF Second
    <2> QED BY <2>1 DEF Listens, Running
  <1> QED BY <1>1, <1>2, <1>3, <1>4, <1>5, <1>6, <1>7

LEMMA ListensStep ==
    ASSUME Types, Listens, [Next]_vars
    PROVE  Listens'
  <1>0. Clocks /\ Sockets /\ Phases
    BY DEF Types
  <1>1. ASSUME NEW r \in Requests, Ask(r)
        PROVE  Listens'
    BY <1>1, AskIsAsking, ListensAsk
  <1>2. CASE UNCHANGED <<asked, inbox, list, closing, gTimer, timers, pc, lost, wakes, watched>>
    BY <1>2 DEF Listens, Hot, Running
  <1>3. ASSUME NEW r \in Requests, TakeSlot(r) \/ Stop(r) \/ Leave(r) \/ CallTimeout(r)
        PROVE  UNCHANGED <<asked, inbox, list, closing, gTimer, timers, pc, lost, wakes, watched>>
    BY <1>3 DEF TakeSlot, Stop, Leave, CallTimeout, net, task
  <1>4. ASSUME NEW r \in Requests, TellCallback(r) \/ TellWaiter(r)
        PROVE  Listens'
    <2>1. /\ UNCHANGED <<asked, inbox, list, closing, gTimer, timers, lost, wakes, watched>>
          /\ pc = "telling" /\ pc' \in {"top", "telling"}
      BY <1>4 DEF TellCallback, TellWaiter, Tell, net
    <2> QED BY <2>1 DEF Listens, Running
  <1>5. ASSUME NEW d \in Addrs, NEW answer \in {"ok", "no", "junk"}, Reply(d, answer)
        PROVE  Listens'
    <2>1. /\ asked[d] > 0 /\ asked' = [asked EXCEPT ![d] = @ - 1]
          /\ inbox' = [inbox EXCEPT ![d] = answer]
          /\ UNCHANGED <<list, closing, gTimer, timers, pc, lost, wakes, watched>>
      BY <1>5 DEF Reply, task
    <2>2. \A e \in Addrs : e # d => asked'[e] = asked[e] /\ inbox'[e] = inbox[e]
      BY <1>0, <2>1 DEF Sockets
    <2>3. d \in list \/ d \in closing
      BY <2>1 DEF Listens
    <2>4. \A e \in Addrs : Hot(e)' => Hot(e)
      BY <2>1, <2>2 DEF Hot
    <2> QED BY <2>1, <2>2, <2>3, <2>4 DEF Listens, Running
  <1>6. (\E n \in Servers : Setsrv(n)) \/ (\E h \in Hosts : Forget(h)) \/ UNCHANGED vars
          => UNCHANGED <<asked, inbox, list, closing, gTimer, timers, pc, lost, wakes, watched>>
    BY DEF Setsrv, Forget, vars, net, task
  <1>7. CASE Tick
    <2>1. /\ timers' = Nearer(timers)
          /\ UNCHANGED <<asked, inbox, list, closing, gTimer, pc, lost, wakes, watched>>
      BY <1>7 DEF Tick, net
    <2>2. ASSUME NEW e \in Addrs, timers[e] # None
          PROVE  timers'[e] # None
      <3>1. timers[e] \in {0, 1} /\ DOMAIN timers = Addrs
        BY <1>0, <2>2 DEF Clocks
      <3>2. FromZero(timers[e] - 1) = 0
        BY <3>1, FromZeroFacts
      <3> QED BY <2>1, <2>2, <3>1, <3>2, DnsConstants DEF Nearer
    <2>3. Running # {} => Running' # {}
      BY <2>2 DEF Running
    <2> QED BY <2>1, <2>3 DEF Listens, Hot
  <1>8. CASE Environment
    BY <1>2, <1>5, <1>6, <1>8 DEF Environment
  <1>9. CASE Task
    BY <1>2, <1>3, <1>4, <1>9, ListensTask DEF Task
  <1> QED BY <1>1, <1>2, <1>3, <1>6, <1>7, <1>8, <1>9 DEF Next

LEMMA ListensInit == Init => Listens
  <1>1. ASSUME Init
        PROVE  /\ \A d \in Addrs : asked[d] = 0 /\ inbox[d] = None
               /\ gTimer = FALSE /\ pc = "top"
    BY <1>1 DEF Init
  <1> QED BY <1>1 DEF Listens

\* While the task sleeps without a message, every socket that can have something to read is
\* in its read set, and somebody listed means that a timer runs, unless the query that ended
\* the last idle period was not sent.
THEOREM TheTaskListens == Spec => []SomebodyListens
  <1>1. ASSUME Types, Listens PROVE SomebodyListens
    <2>1. wakes \in Nat /\ list \subseteq Addrs
      BY <1>1, DnsConstants DEF Types, Clocks, Sockets
    <2> QED BY <1>1, <2>1 DEF Listens, Hot, SomebodyListens, Asleep
  <1>2. Types /\ Listens /\ [Next]_vars => Types' /\ Listens'
    BY ListensStep, CallingStep, SocketsStep, ClocksStep, PhasesStep DEF Types
  <1>3. Spec => [](Types /\ Listens)
    BY <1>2, TypesInit, ListensInit, PTL DEF Spec
  <1> QED BY <1>1, <1>3, PTL
=============================================================================
