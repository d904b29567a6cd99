----------------------------- MODULE DnsClient -----------------------------
(***************************************************************************)
(* The DNS client, src/middleware/src/module/dns/mid_dnsc.c with the timer *)
(* list of ind_tmr.c.  Callers ask for a host (mid_dns_resolve with a      *)
(* callback, mid_dns_gethost with a slot of g_msgq_array and a queue it    *)
(* waits on); one task owns the sockets and the timers.  What g_mutex      *)
(* protects is one action, what is done after its release another.         *)
(*                                                                         *)
(* The code keeps times of mid_10ms() and compares them with the clock;    *)
(* the model keeps the seconds that are left: Tick brings them nearer.     *)
(* Lists that are only searched or emptied are sets; where the head of     *)
(* g_dns_list counts (the key of the timer) it is any member.              *)
(***************************************************************************)
EXTENDS Integers, Sequences, FiniteSetsExt

CONSTANTS
    Calls,                   \* calls of mid_dns_resolve or mid_dns_gethost
    Hosts, Asks, Timeouts,   \* the hosts a call may ask for, and for how long
    Servers,                 \* how many servers mid_dns_setsrv is given
    Addrs,                   \* memory of struct mid_dns, reused once freed
    Slots,                   \* MSGQ_NUMBER
    PoolSize,                \* ind_tlink_create(10)
    PipeSize,                \* messages gMsgq holds
    ToArray,                 \* 2, 4, 8, 16 seconds
    TimeoutMin, TimeoutMax,  \* MID_DNS_TIMEOUT_MIN, MID_DNS_TIMEOUT_MAX
    MaxAsked,                \* bound: queries of a socket still to be answered
    None

Requests == 1 .. Calls   \* numbered in the order in which they begin

ASSUME DnsConstants ==
    /\ Calls \in Nat \ {0} /\ IsFiniteSet(Addrs) /\ MaxAsked \in Nat \ {0}
    /\ None \notin Nat \cup Hosts
    /\ Slots \in Nat \ {0} /\ PoolSize \in Nat \ {0} /\ PipeSize \in Nat \ {0}
    /\ Asks \in [Requests -> SUBSET Hosts] /\ Servers \subseteq {1, 2}
    /\ ToArray \in Seq(Nat \ {0}) /\ ToArray # <<>> /\ Timeouts \subseteq Nat
    /\ TimeoutMin \in Nat /\ TimeoutMax \in Nat /\ TimeoutMin <= TimeoutMax

VARIABLES
    nscnt, cache,            \* servers; hosts in the cache
    list, dns,               \* g_dns_list; what each mid_dns holds
    asked, inbox,            \* per socket: queries on their way; the answer that waits
    timers, gTimer, wakes,   \* seconds to each timer or None; flag; messages in gMsgq
    pc, due, late,           \* the task, and ind_timer_deal inside it
    watched,                 \* the read set of select
    batch, closing,          \* resolves and mid_dns taken out of the list
    left, patience,          \* seconds to clkout, and to the end of gethost's wait
    slot, arg, box,          \* g_msgq_array; each waiter's place in it; the queues with an answer
    status, told,            \* where each call is; how often it was called back
    lost                     \* the query that ended the last idle period was not sent

task == <<pc, due, late, watched, batch, closing>>
net == <<asked, inbox>>
callers == <<patience, slot, arg, box, status, told>>
vars == <<nscnt, cache, list, dns, net, timers, gTimer, wakes, task, left, callers, lost>>

NoDns == [host |-> None, ns |-> -1, idx |-> 1, wait |-> 0, left |-> 0, resolves |-> {}]

Init ==
    /\ nscnt = 0 /\ cache = {} /\ list = {} /\ dns = [d \in Addrs |-> NoDns]
    /\ asked = [d \in Addrs |-> 0] /\ inbox = [d \in Addrs |-> None]
    /\ timers = [d \in Addrs |-> None] /\ gTimer = FALSE /\ wakes = 0
    /\ pc = "top" /\ due = {} /\ late = FALSE /\ watched = {}
    /\ batch = {} /\ closing = {}
    /\ left = [r \in Requests |-> 0] /\ patience = [r \in Requests |-> 0]
    /\ slot = [i \in 1 .. Slots |-> [sn |-> None, msgq |-> None]]
    /\ arg = [r \in Requests |-> 0] /\ box = {}
    /\ status = [r \in Requests |-> "new"] /\ told = [r \in Requests |-> 0]
    /\ lost = FALSE

Put(n) == Min({PipeSize, wakes + n})
Waiters == {r \in Requests : arg[r] # 0}   \* those inside mid_dns_gethost
Callbacks == Requests \ Waiters
FromZero(n) == Max({0, n})
Running == {d \in Addrs : timers[d] # None}

-----------------------------------------------------------------------------
(* Callers *)

\* A call that ends at once: mid_dns_resolve calls back itself.
Ended(r) ==
    IF r \in Callbacks
    THEN /\ status' = [status EXCEPT ![r] = "done"]
         /\ told' = [told EXCEPT ![r] = @ + 1]
    ELSE /\ status' = [status EXCEPT ![r] = "leaving"]
         /\ UNCHANGED told

IsNext(r) == status[r] = "new" /\ (r > 1 => status[r - 1] # "new")

TakeSlot(w) ==
    /\ IsNext(w)
    /\ LET free == {i \in 1 .. Slots : slot[i].msgq = None}
       IN  IF free = {} THEN status' = [status EXCEPT ![w] = "refused"] /\ UNCHANGED <<slot, arg>>
           ELSE /\ status' = [status EXCEPT ![w] = "slotted"]
                /\ slot' = [slot EXCEPT ![Min(free)] = [sn |-> None, msgq |-> w]]
                /\ arg' = [arg EXCEPT ![w] = Min(free)]
    /\ UNCHANGED <<nscnt, cache, list, dns, net, timers, gTimer, wakes, task, left, patience, box, told, lost>>

Ready(r) == IsNext(r) \/ status[r] = "slotted"

ResolveAtOnce(r, h) ==
    /\ Ready(r)
    /\ \/ nscnt = 0 /\ Ended(r)
       \/ nscnt > 0 /\ h \in cache /\ Ended(r)
    /\ UNCHANGED <<nscnt, cache, list, dns, net, timers, gTimer, wakes, task, left, patience, slot, arg, box, lost>>

Clamped(t) == Max({TimeoutMin, Min({t, TimeoutMax})})

\* The resolve, and gethost's wait with the timeout as it was given.
Accept(r, t) ==
    /\ left' = [left EXCEPT ![r] = Clamped(t)]
    /\ status' = [status EXCEPT ![r] = "waiting"]
    /\ IF r \in Waiters
       THEN patience' = [patience EXCEPT ![r] = t] /\ slot' = [slot EXCEPT ![arg[r]].sn = r]
       ELSE UNCHANGED <<patience, slot>>

Serving(h) == {d \in list : dns[d].host = h /\ dns[d].resolves # {}}

ResolveJoins(r, h, t) ==
    /\ Ready(r) /\ nscnt > 0 /\ h \notin cache
    /\ \E d \in Serving(h) : dns' = [dns EXCEPT ![d].resolves = @ \cup {r}]
    /\ Accept(r, t)
    /\ UNCHANGED <<nscnt, cache, list, net, timers, gTimer, wakes, task, arg, box, told, lost>>

Fresh(h, r, t) ==
    [host |-> h, ns |-> IF list = {} THEN 0 ELSE -1, idx |-> 1, wait |-> ToArray[1],
     left |-> FromZero(Clamped(t) - ToArray[1]), resolves |-> {r}]

\* Addresses no timer is known by are alike: one of them stands for all.
Free ==
    LET free == Addrs \ (list \cup closing)
    IN  (free \cap Running) \cup IF free \subseteq Running THEN {} ELSE {CHOOSE d \in free : d \notin Running}

WakesForSilent(sent) == wakes   \* mutant: the task is not told

\* up: sendto takes the query.  Only the first entry of the list asks at once.
WakesFor(sent) == IF sent THEN Put(1) ELSE wakes

ResolveCreates(r, h, t, d, up) ==
    /\ Ready(r) /\ nscnt > 0 /\ h \notin cache /\ Serving(h) = {}
    /\ d \in Free
    /\ list' = list \cup {d} /\ dns' = [dns EXCEPT ![d] = Fresh(h, r, t)]
    /\ asked' = [asked EXCEPT ![d] = IF list = {} /\ up THEN 1 ELSE 0]
    /\ wakes' = WakesFor(list = {} /\ up)
    /\ lost' = IF list = {} THEN ~up ELSE lost
    /\ Accept(r, t)
    /\ UNCHANGED <<nscnt, cache, inbox, timers, gTimer, task, arg, box, told>>

\* No memory for a mid_dns, or no socket.
ResolveFails(r, h) ==
    /\ Ready(r) /\ nscnt > 0 /\ h \notin cache /\ Serving(h) = {}
    /\ Ended(r)
    /\ slot' = IF r \in Waiters THEN [slot EXCEPT ![arg[r]].sn = r] ELSE slot
    /\ UNCHANGED <<nscnt, cache, list, dns, net, timers, gTimer, wakes, task, left, patience, arg, box, lost>>

StopOnAnswer(w) ==   \* mutant: gethost relies on the task's timeout
    /\ w \in Waiters /\ status[w] = "waiting" /\ w \in box
    /\ status' = [status EXCEPT ![w] = "leaving"] /\ patience' = [patience EXCEPT ![w] = 0]
    /\ UNCHANGED <<nscnt, cache, list, dns, net, timers, gTimer, wakes, task, left, slot, arg, box, told, lost>>

\* The wait ends with an answer or when its own time is over.
Stop(w) ==
    /\ w \in Waiters /\ status[w] = "waiting"
    /\ w \in box \/ patience[w] = 0
    /\ status' = [status EXCEPT ![w] = "leaving"] /\ patience' = [patience EXCEPT ![w] = 0]
    /\ UNCHANGED <<nscnt, cache, list, dns, net, timers, gTimer, wakes, task, left, slot, arg, box, told, lost>>

\* The slot is cleared under the lock, then the queue is deleted.
Leave(w) ==
    /\ status[w] = "leaving"
    /\ slot' = [slot EXCEPT ![arg[w]] = [sn |-> None, msgq |-> None]]
    /\ status' = [status EXCEPT ![w] = "done"] /\ box' = box \ {w}
    /\ UNCHANGED <<nscnt, cache, list, dns, net, timers, gTimer, wakes, task, left, patience, arg, told, lost>>

Setsrv(n) ==
    /\ nscnt' = n /\ cache' = {}
    /\ UNCHANGED <<list, dns, net, timers, gTimer, wakes, task, left, callers, lost>>

\* mid_dns_clean, or an entry whose time is over (freed by the next search).
Forget(h) ==
    /\ cache' = cache \ {h}
    /\ UNCHANGED <<nscnt, list, dns, net, timers, gTimer, wakes, task, left, callers, lost>>

-----------------------------------------------------------------------------
(* The servers and the clock *)

Reply(d, answer) ==
    /\ asked[d] > 0 /\ inbox[d] = None
    /\ asked' = [asked EXCEPT ![d] = @ - 1] /\ inbox' = [inbox EXCEPT ![d] = answer]
    /\ UNCHANGED <<nscnt, cache, list, dns, timers, gTimer, wakes, task, left, callers, lost>>

Nearer(clocks) == [x \in DOMAIN clocks |-> IF clocks[x] = None THEN None ELSE FromZero(clocks[x] - 1)]

Tick ==
    /\ timers' = Nearer(timers)
    /\ left' = Nearer(left) /\ patience' = Nearer(patience)
    /\ late' = (pc \in {"deal", "expiring", "second"})
    /\ UNCHANGED <<nscnt, cache, list, dns, net, gTimer, wakes, pc, due, watched, batch, closing>>
    /\ UNCHANGED <<slot, arg, box, status, told, lost>>

-----------------------------------------------------------------------------
(* int_dns_task *)

\* The timer is known by the address of the list's head, which is NULL by the
\* time it is deleted: it is never found.
TimerCreated(d) ==
    IF timers[d] # None \/ Cardinality(Running) < PoolSize
    THEN [timers EXCEPT ![d] = 1] ELSE timers

Top ==
    /\ pc = "top"
    /\ gTimer' = (list # {})
    /\ IF list # {} /\ ~gTimer
       THEN \E d \in list : timers' = TimerCreated(d)
       ELSE UNCHANGED timers
    /\ due' = {d \in Addrs : timers'[d] = 0} /\ late' = FALSE
    /\ pc' = IF due' = {} THEN "snapshot" ELSE "deal"
    /\ UNCHANGED <<nscnt, cache, list, dns, net, wakes, watched, batch, closing, left, callers, lost>>

\* ind_timer_deal queues the timer again from the clock it was called with;
\* int_dns_timeout takes what is due out of the list.
Expired(d) == {r \in dns[d].resolves : left[r] = 0}

StillListedAll(d) == dns[d]   \* mutant: what is due is not taken out
StillListed(d) == [dns[d] EXCEPT !.resolves = @ \ Expired(d)]

Deal(d) ==
    /\ pc = "deal" /\ d \in due
    /\ due' = due \ {d} /\ timers' = [timers EXCEPT ![d] = IF late THEN 0 ELSE 1]
    /\ batch' = UNION {Expired(e) : e \in list}
    /\ dns' = [e \in Addrs |-> IF e \in list THEN StillListed(e) ELSE dns[e]]
    /\ closing' = {e \in list : dns'[e].resolves = {}} /\ list' = list \ closing'
    /\ pc' = "expiring"
    /\ UNCHANGED <<nscnt, cache, net, gTimer, wakes, late, watched, left, callers, lost>>

\* A waiter has a clock of its own and is not told.
CallTimeout(r) ==
    /\ pc = "expiring" /\ r \in batch
    /\ batch' = batch \ {r}
    /\ IF r \in Callbacks
       THEN /\ told' = [told EXCEPT ![r] = @ + 1]
            /\ status' = [status EXCEPT ![r] = "done"]
       ELSE UNCHANGED <<told, status>>
    /\ UNCHANGED <<nscnt, cache, list, dns, net, timers, gTimer, wakes, pc, due, late, watched, closing, left, patience, slot, arg, box, lost>>

Close ==
    /\ pc = "expiring" /\ batch = {}
    /\ wakes' = Put(Cardinality(closing)) /\ closing' = {}
    /\ dns' = [d \in Addrs |-> IF d \in closing THEN NoDns ELSE dns[d]]
    /\ asked' = [d \in Addrs |-> IF d \in closing THEN 0 ELSE asked[d]]
    /\ inbox' = [d \in Addrs |-> IF d \in closing THEN None ELSE inbox[d]]
    /\ pc' = "second"
    /\ UNCHANGED <<nscnt, cache, list, timers, gTimer, due, late, watched, batch, left, callers, lost>>

\* mutant: to_index > to_count is tested, and what lies behind to_array is taken for a second
SteppedPastEnd(e) ==
    LET ns  == IF nscnt = 2 THEN 1 - e.ns ELSE e.ns
        idx == IF ns = 0 THEN Min({e.idx + 1, Len(ToArray) + 1}) ELSE e.idx
    IN  [e EXCEPT !.ns = ns, !.idx = idx, !.wait = 1, !.left = FromZero(@ - 1)]

\* A retry: the other server if there are two, the next interval with the
\* first one.
Stepped(e) ==
    LET ns  == IF nscnt = 2 THEN 1 - e.ns ELSE e.ns
        idx == IF ns = 0 THEN Min({e.idx + 1, Len(ToArray)}) ELSE e.idx
    IN  [e EXCEPT !.ns = ns, !.idx = idx, !.wait = ToArray[idx], !.left = FromZero(@ - ToArray[idx])]

\* sec_count reaches sec_step (wait is what is missing), sec_step is still
\* below sec_timeout (left): one that never asked does, and counts as well.
Begun(e) == [e EXCEPT !.ns = FromZero(@)]
AfterSecond(e) == IF e.wait = 1 THEN Stepped(Begun(e)) ELSE [Begun(e) EXCEPT !.wait = @ - 1]
Queries(e) == (IF e.ns = -1 THEN 1 ELSE 0) + (IF e.wait = 1 /\ e.left > 0 THEN 1 ELSE 0)

Second(up) ==
    /\ pc = "second"
    /\ dns' = [d \in Addrs |-> IF d \in list THEN AfterSecond(dns[d]) ELSE dns[d]]
    /\ asked' = [d \in Addrs |-> IF d \in up THEN Min({MaxAsked, asked[d] + Queries(dns[d])}) ELSE asked[d]]
    /\ wakes' = WakesFor(\E d \in up : Queries(dns[d]) > 0)
    /\ pc' = IF due = {} THEN "top" ELSE "deal"
    /\ late' = (late /\ due # {})
    /\ UNCHANGED <<nscnt, cache, list, inbox, timers, gTimer, due, watched, batch, closing, left, callers, lost>>

Snapshot ==
    /\ pc = "snapshot"
    /\ watched' = list /\ pc' = "select"
    /\ UNCHANGED <<nscnt, cache, list, dns, net, timers, gTimer, wakes, due, late, batch, closing, left, callers, lost>>

\* A message, an answer or the time of the next timer; one message is read.
Select ==
    /\ pc = "select"
    /\ watched' = {d \in watched : inbox[d] # None}
    /\ wakes > 0 \/ watched' # {} \/ \E d \in Addrs : timers[d] = 0
    /\ wakes' = FromZero(wakes - 1)
    /\ pc' = IF watched' = {} THEN "top" ELSE "answer"
    /\ UNCHANGED <<nscnt, cache, list, dns, net, timers, gTimer, due, late, batch, closing, left, callers, lost>>

\* int_dns_select for the first readable socket.
Answer(d) ==
    /\ pc = "answer" /\ d \in watched
    /\ watched' = {} /\ inbox' = [inbox EXCEPT ![d] = None]
    /\ IF inbox[d] = "junk" THEN pc' = "top" /\ UNCHANGED <<cache, dns, batch>>
       ELSE /\ cache' = (IF inbox[d] = "ok" THEN cache \cup {dns[d].host} ELSE cache)
            /\ batch' = dns[d].resolves
            /\ dns' = [dns EXCEPT ![d].resolves = {}]
            /\ pc' = IF batch' = {} THEN "top" ELSE "telling"
    /\ UNCHANGED <<nscnt, list, asked, timers, gTimer, wakes, due, late, closing, left, callers, lost>>

ReachedAny(i, w) == slot[i].msgq # None   \* mutant: the serial number is not compared

\* The slot a resolve names may belong to another call by now.
Reached(i, w) == slot[i].sn = w /\ slot[i].msgq # None

\* The resolve is freed once its caller has been told.
Tell(r) ==
    /\ pc = "telling" /\ r \in batch
    /\ batch' = batch \ {r} /\ left' = [left EXCEPT ![r] = 0]
    /\ pc' = IF batch' = {} THEN "top" ELSE pc

TellWaiter(w) ==
    /\ w \in Waiters /\ Tell(w)
    /\ LET i == arg[w]
       IN  box' = IF Reached(i, w) THEN box \cup {slot[i].msgq} ELSE box
    /\ UNCHANGED <<nscnt, cache, list, dns, net, timers, gTimer, wakes, due, late, watched, closing, patience, slot, arg, status, told, lost>>

TellCallback(r) ==
    /\ r \in Callbacks /\ Tell(r)
    /\ told' = [told EXCEPT ![r] = @ + 1]
    /\ status' = [status EXCEPT ![r] = "done"]
    /\ UNCHANGED <<nscnt, cache, list, dns, net, timers, gTimer, wakes, due, late, watched, closing, patience, slot, arg, box, lost>>

-----------------------------------------------------------------------------
Ask(r) ==
    \E h \in Asks[r] :
        \/ ResolveAtOnce(r, h) \/ ResolveFails(r, h)
        \/ \E t \in Timeouts :
              \/ ResolveJoins(r, h, t)
              \/ \E d \in Addrs, up \in BOOLEAN : ResolveCreates(r, h, t, d, up)

Environment ==
    \/ \E n \in Servers : Setsrv(n)
    \/ \E h \in Hosts : Forget(h)
    \/ \E d \in Addrs, answer \in {"ok", "no", "junk"} : Reply(d, answer)

Task ==
    \/ Top \/ Close \/ Snapshot \/ Select
    \/ \E d \in Addrs : Deal(d) \/ Answer(d)
    \/ \E r \in Requests : CallTimeout(r) \/ TellCallback(r)
    \/ \E r \in Requests : TellWaiter(r)
    \/ \E up \in SUBSET list : Second(up)

Next ==
    \/ \E r \in Requests : Ask(r)
    \/ \E r \in Requests : TakeSlot(r) \/ Stop(r) \/ Leave(r)
    \/ Environment \/ Tick \/ Task

Spec == Init /\ [][Next]_vars

\* Time passes, the task is scheduled, and so is a thread inside gethost.
Inside(w) == Stop(w) \/ Leave(w) \/ (status[w] = "slotted" /\ Ask(w))

FairSpec ==
    /\ Spec /\ WF_vars(Tick) /\ WF_vars(Task)
    /\ \A w \in Requests : WF_vars(Inside(w))

-----------------------------------------------------------------------------
\* What each variable holds: every count keeps its bound, and no timer is set
\* further ahead than a second.
TypeOK ==
    /\ nscnt \in 0 .. 2 /\ cache \subseteq Hosts /\ list \subseteq Addrs /\ wakes \in 0 .. PipeSize
    /\ dns \in [Addrs -> [host : Hosts \cup {None}, ns : -1 .. 1, idx : 1 .. Len(ToArray),
                          wait : Nat, left : Nat, resolves : SUBSET Requests]]
    /\ asked \in [Addrs -> 0 .. MaxAsked] /\ inbox \in [Addrs -> {"ok", "no", "junk", None}]
    /\ timers \in [Addrs -> {0, 1, None}] /\ {gTimer, late, lost} \subseteq BOOLEAN
    /\ pc \in {"top", "deal", "expiring", "second", "snapshot", "select", "answer", "telling"}
    /\ due \cup watched \cup closing \subseteq Addrs /\ batch \subseteq Requests
    /\ status \in [Requests -> {"new", "refused", "slotted", "waiting", "leaving", "done"}]

\* A call that waits is in exactly one place (one mid_dns or the task's
\* hands) and has not been called back; one that was called back is nowhere,
\* and was called back once.
InOnePlace ==
    \A r \in Callbacks :
        LET places == {d \in list : r \in dns[d].resolves}
        IN  /\ Cardinality(places) + (IF r \in batch THEN 1 ELSE 0) = (IF status[r] = "waiting" THEN 1 ELSE 0)
            /\ told[r] = (IF status[r] = "done" THEN 1 ELSE 0)

\* An answer in a queue is for the call that waits on it, and the array names
\* only queues that exist: the slot of a call that gave up may be another's by
\* the time its answer comes.
AnswersFindTheirCaller ==
    /\ \A w \in box : status[w] \in {"waiting", "leaving"}
    /\ pc = "telling" =>
         \A w \in Waiters \cap batch : Reached(arg[w], w) => slot[arg[w]].msgq = w
    /\ \A i \in 1 .. Slots :
         slot[i].msgq # None => status[slot[i].msgq] \in {"slotted", "waiting", "leaving"}

\* While the task sleeps a message waits for it, or every socket that was
\* asked is watched and, if anybody is listed, a timer runs; unless the query
\* that ended the idle period could not be sent.
Asleep == pc = "select" /\ wakes = 0

SomebodyListens ==
    Asleep => /\ \A d \in list : asked[d] > 0 \/ inbox[d] # None => d \in watched
              /\ list # {} => Running # {} \/ lost

\* Nobody will ever look at the list.
Deaf ==
    /\ Asleep /\ list # {} /\ Running = {}
    /\ \A d \in watched : asked[d] = 0 /\ inbox[d] = None

\* Every call ends, with an answer or a timeout, unless the client is deaf.
EveryCallEnds ==
    \A r \in Requests : status[r] = "waiting" ~> status[r] = "done" \/ Deaf
=============================================================================
