------------------------------ MODULE MidTimer ------------------------------
(***************************************************************************)
(* The one-thread timer service of src/middleware/src/tools/mid/mid_timer.c*)
(* A pool of TIMER_POOL_SIZE timers, a list of armed timers sorted by      *)
(* expiry, and a thread ("mid_msg") that alternates between dealing with   *)
(* the timers that are due and sleeping in select() until the next one, or *)
(* until a byte arrives on its wake-up pipe.  Any thread, the callbacks    *)
(* that the timer thread runs included, calls the API: a callback runs     *)
(* with g_mutex released, so what it calls is what some client may call at *)
(* that moment.                                                            *)
(*                                                                         *)
(* Time is mid_10ms(), in ticks; wrap-around after 2^32 ticks (497 days)   *)
(* is out of this model's bounds.  busy bounds what the code leaves to the *)
(* scheduler: the ticks that pass in one round of the thread while it is   *)
(* runnable, or running a callback, or about to be woken up.               *)
(***************************************************************************)
EXTENDS Naturals, Sequences, SequencesExt

CONSTANTS
    Funcs, Args,     \* callbacks and their arguments: together a timer's name
    Clients,         \* threads that call the API
    PoolSize,        \* TIMER_POOL_SIZE
    HourClocks,      \* HOUR_CLOCK_NUM, the longest sleep
    PipeCap,         \* bytes the wake-up pipe holds
    Intervals,       \* intval arguments, in ticks
    Loops,           \* loops arguments
    MaxClock,        \* bound: the last tick of the model
    MaxBusy,         \* bound: ticks of one round outside a quiet select()
    NoKey, NoFunc    \* a NULL g_deal_funcs entry; no mid_timer_delete_all running

ASSUME TimerConstants ==
    /\ PoolSize \in Nat /\ PoolSize > 0
    /\ HourClocks \in Nat /\ HourClocks > 0
    /\ PipeCap \in Nat /\ PipeCap > 0
    /\ MaxClock \in Nat /\ MaxBusy \in Nat
    /\ Intervals \subseteq Nat /\ Loops \subseteq Nat
    /\ NoKey \notin Funcs \X Args
    /\ NoFunc \notin Funcs

Keys == Funcs \X Args

Timers == [key : Keys, loops : Nat, intval : Nat, clock : Nat]

VARIABLES
    pool,      \* length of g_timer_q_pool
    queue,     \* g_timer_q_time
    deal,      \* g_deal_funcs/g_deal_args, the first g_deal_num entries
    i,         \* the index of the dispatch loop
    pc,        \* where the timer thread is
    taken,     \* func and arg, the dispatch loop's copy of the entry it is to call
    now,       \* mid_10ms()
    tClock,    \* msg_timer_deal's reading of it
    remain,    \* msg_timer_deal's result
    deadline,  \* when the current select() times out
    wake,      \* bytes in the pipe of g_msgq
    api,       \* where each client is
    purge,     \* the func mid_timer_delete_all is removing, mutex held
    promise,   \* history: what the last create or delete of a key promised
    busy       \* ticks charged to this round

vars == <<pool, queue, deal, i, pc, taken, now, tClock, remain, deadline, wake, api,
          purge, promise, busy>>
threadVars == <<i, pc, taken, tClock, remain, deadline>>

-----------------------------------------------------------------------------
\* msg_timer_queue, first loop: the expiry moves on by whole intervals until
\* it lies after pClock; a timer with no interval keeps its expiry.
NormalisedOnce(timer, pClock) ==   \* mutant: if instead of while
    IF timer.clock <= pClock /\ timer.intval > 0
    THEN [timer EXCEPT !.clock = @ + timer.intval]
    ELSE timer

Normalised(timer, pClock) ==
    IF timer.clock <= pClock /\ timer.intval > 0
    THEN [timer EXCEPT !.clock =
            @ + timer.intval * ((pClock - @) \div timer.intval + 1)]
    ELSE timer

\* msg_timer_queue, second loop: behind every timer that expires no later.
IsTail(q, timer, p) == p = Len(q) + 1   \* mutant: appends

IsPlace(q, timer, p) ==
    /\ p \in 1 .. Len(q) + 1
    /\ \A j \in 1 .. p - 1 : q[j].clock <= timer.clock
    /\ p <= Len(q) => q[p].clock > timer.clock

Insert(q, timer) == InsertAt(q, CHOOSE p \in 1 .. Len(q) + 1 : IsPlace(q, timer, p), timer)

Enqueue(q, timer, pClock) == Insert(q, Normalised(timer, pClock))

\* msg_timer_dequeue: the first timer with a name in ks, {<<func, arg>>} or,
\* for any = 1, every name of func.
Queued(q, ks) == \E j \in DOMAIN q : q[j].key \in ks

First(q, ks) ==
    CHOOSE j \in DOMAIN q : q[j].key \in ks /\ \A h \in 1 .. j - 1 : q[h].key \notin ks

Dequeue(q, ks) == IF Queued(q, ks) THEN RemoveAt(q, First(q, ks)) ELSE q

\* msg_timer_free of what msg_timer_dequeue found.
Freed(q, ks) == IF Queued(q, ks) THEN pool + 1 ELSE pool

NamesOf(func) == {func} \X Args

\* The timer thread holds g_mutex while it collects and between two callbacks.
MutexFree == pc \notin {"collect", "dispatch"} /\ purge = NoFunc

Due(q, t) == q # <<>> /\ Head(q).clock <= t

\* The timer thread is on its way to msg_timer_deal, or is about to be woken.
Runnable == pc # "sleep" \/ wake > 0 \/ now >= deadline \/ \E c \in Clients : api[c] = "refresh"

\* Entries of g_deal_funcs that the dispatch loop has still to run.
Pending == {deal[j] : j \in {h \in DOMAIN deal : h >= i}} \ {NoKey}

\* mid_timer_delete and mid_timer_delete_all: matching entries become NULL.
CancelNone(d, ks) == d   \* mutant: forgets the batch
Cancel(d, ks) == [j \in DOMAIN d |-> IF d[j] \in ks THEN NoKey ELSE d[j]]

\* A timer that was just collected goes back to the list: it is periodic, or
\* has loops left.
GoesBack(timer) == timer.loops # 1

\* What msg_timer_deal returns: the ticks from t to the first timer, an hour at
\* most.
SleepUntilLast(q, t) ==   \* mutant: looks at the wrong end
    IF q = <<>> \/ q[Len(q)].clock - t > HourClocks THEN HourClocks ELSE q[Len(q)].clock - t
Sleep(q, t) ==
    IF q = <<>> \/ Head(q).clock - t > HourClocks THEN HourClocks ELSE Head(q).clock - t

-----------------------------------------------------------------------------
Init ==   \* mid_timer_init
    /\ pool = PoolSize /\ queue = <<>> /\ deal = <<>> /\ i = 1
    /\ pc = "deal" /\ taken = NoKey /\ now = 0 /\ tClock = 0 /\ remain = 0 /\ deadline = 0
    /\ wake = 0 /\ api = [c \in Clients |-> "idle"] /\ purge = NoFunc
    /\ promise = [k \in Keys |-> "none"] /\ busy = 0

\* int_timer_create up to the unlock.  A wrong argument, or an empty pool for a
\* timer that is not queued, is refused and changes nothing.
Create(c, k, intval, loops) ==
    LET again == Queued(queue, {k})
        timer == [key |-> k, loops |-> loops, intval |-> intval, clock |-> now]
    IN  /\ api[c] = "idle" /\ MutexFree
        /\ intval = 0 => loops = 1
        /\ again \/ pool > 0
        /\ queue' = Enqueue(Dequeue(queue, {k}), timer, now)
        /\ pool' = IF again THEN pool ELSE pool - 1
        /\ api' = [api EXCEPT ![c] = "refresh"]
        /\ promise' = [promise EXCEPT ![k] = IF loops = 0 THEN "forever" ELSE "finite"]
        /\ UNCHANGED <<deal, now, wake, purge, busy, threadVars>>

\* mid_timer_refresh, after the unlock: a non-blocking write of one byte.
RefreshIfAsleep(c) ==   \* mutant: wakes only a thread that already sleeps
    /\ api[c] = "refresh"
    /\ wake' = IF pc = "sleep" /\ wake < PipeCap THEN wake + 1 ELSE wake
    /\ api' = [api EXCEPT ![c] = "idle"]
    /\ UNCHANGED <<pool, queue, deal, now, purge, promise, busy, threadVars>>

Refresh(c) ==
    /\ api[c] = "refresh"
    /\ wake' = IF wake < PipeCap THEN wake + 1 ELSE wake
    /\ api' = [api EXCEPT ![c] = "idle"]
    /\ UNCHANGED <<pool, queue, deal, now, purge, promise, busy, threadVars>>

Delete(c, k) ==   \* mid_timer_delete
    /\ api[c] = "idle" /\ MutexFree
    /\ queue' = Dequeue(queue, {k})
    /\ pool' = Freed(queue, {k})
    /\ deal' = Cancel(deal, {k})
    /\ promise' = [promise EXCEPT ![k] = "none"]
    /\ UNCHANGED <<now, wake, api, purge, busy, threadVars>>

\* mid_timer_delete_all: takes the mutex, frees one timer per iteration, then
\* clears the entries of the running batch.
DeleteAllBegin(c, f) ==
    /\ api[c] = "idle" /\ MutexFree
    /\ purge' = f
    /\ api' = [api EXCEPT ![c] = "purge"]
    /\ UNCHANGED <<pool, queue, deal, now, wake, promise, busy, threadVars>>

DeleteAllOne ==
    /\ purge # NoFunc
    /\ Queued(queue, NamesOf(purge))
    /\ queue' = Dequeue(queue, NamesOf(purge))
    /\ pool' = pool + 1
    /\ UNCHANGED <<deal, now, wake, api, purge, promise, busy, threadVars>>

DeleteAllEnd(c) ==
    /\ api[c] = "purge"
    /\ ~Queued(queue, NamesOf(purge))
    /\ deal' = Cancel(deal, NamesOf(purge))
    /\ promise' = [k \in Keys |-> IF k \in NamesOf(purge) THEN "none" ELSE promise[k]]
    /\ purge' = NoFunc
    /\ api' = [api EXCEPT ![c] = "idle"]
    /\ UNCHANGED <<pool, queue, now, wake, busy, threadVars>>

\* msg_timer_deal: lock, empty the batch, read the clock.
DealBegin ==
    /\ pc = "deal" /\ MutexFree
    /\ pc' = "collect" /\ deal' = <<>> /\ i' = 1 /\ tClock' = now /\ busy' = 0
    /\ UNCHANGED <<pool, queue, taken, now, remain, deadline, wake, api, purge, promise>>

\* Its first loop, one due timer per step.
CollectOne ==
    LET timer == Head(queue)
        rest == Dequeue(queue, {timer.key})
        left == IF timer.loops = 0 THEN 0 ELSE timer.loops - 1
        again == GoesBack(timer)
    IN  /\ pc = "collect" /\ Due(queue, tClock)
        /\ deal' = Append(deal, timer.key)
        /\ queue' = IF again THEN Enqueue(rest, [timer EXCEPT !.loops = left], tClock) ELSE rest
        /\ pool' = IF again THEN pool ELSE pool + 1
        /\ UNCHANGED <<now, wake, api, purge, promise, busy, threadVars>>

\* The sleep it will return is fixed here, before any callback runs.
CollectDone ==
    /\ pc = "collect" /\ ~Due(queue, tClock)
    /\ remain' = Sleep(queue, tClock)
    /\ pc' = "dispatch"
    /\ UNCHANGED <<pool, queue, deal, i, taken, now, tClock, deadline, wake, api, purge, promise, busy>>

\* Its second loop: skip a cancelled entry; copy a live one and unlock; call
\* the copy, with no lock held; or end.
DispatchSkip ==
    /\ pc = "dispatch" /\ i <= Len(deal) /\ deal[i] = NoKey
    /\ i' = i + 1
    /\ UNCHANGED <<pool, queue, deal, pc, taken, now, tClock, remain, deadline, wake, api, purge, promise, busy>>

DispatchTake ==
    /\ pc = "dispatch" /\ i <= Len(deal) /\ deal[i] # NoKey
    /\ pc' = "taken" /\ taken' = deal[i]
    /\ UNCHANGED <<pool, queue, deal, i, now, tClock, remain, deadline, wake, api, purge, promise, busy>>

DispatchCall ==
    /\ pc = "taken"
    /\ pc' = "call"
    /\ UNCHANGED <<pool, queue, deal, i, taken, now, tClock, remain, deadline, wake, api, purge, promise,
                   busy>>

CallReturn ==   \* func(arg) returns and the mutex is taken again
    /\ pc = "call" /\ MutexFree
    /\ pc' = "dispatch" /\ i' = i + 1 /\ taken' = NoKey
    /\ UNCHANGED <<pool, queue, deal, now, tClock, remain, deadline, wake, api, purge, promise, busy>>

DispatchEnd ==
    /\ pc = "dispatch" /\ i > Len(deal)
    /\ pc' = "select" /\ deal' = <<>> /\ i' = 1
    /\ UNCHANGED <<pool, queue, taken, now, tClock, remain, deadline, wake, api, purge, promise, busy>>

\* mid_select_exec: select() starts, and returns for a byte (which
\* mid_timer_select reads) or for its timeout.
SelectBegin ==
    /\ pc = "select"
    /\ pc' = "sleep" /\ deadline' = now + remain
    /\ UNCHANGED <<pool, queue, deal, i, taken, now, tClock, remain, wake, api, purge, promise, busy>>

NextRound == pc' = "deal" /\ tClock' = 0 /\ remain' = 0 /\ deadline' = 0

SelectReadable ==
    /\ pc = "sleep" /\ wake > 0
    /\ wake' = wake - 1 /\ NextRound
    /\ UNCHANGED <<pool, queue, deal, i, taken, now, api, purge, promise, busy>>

SelectTimeout ==
    /\ pc = "sleep" /\ wake = 0 /\ now >= deadline
    /\ NextRound
    /\ UNCHANGED <<pool, queue, deal, i, taken, now, wake, api, purge, promise, busy>>

\* The clock moves: freely while the thread has reason to sleep, and at most
\* MaxBusy ticks in a round otherwise.
Tick ==
    /\ now < MaxClock
    /\ Runnable => busy < MaxBusy
    /\ now' = now + 1
    /\ busy' = IF Runnable THEN busy + 1 ELSE busy
    /\ UNCHANGED <<pool, queue, deal, wake, api, purge, promise, threadVars>>

TimerThread ==
    \/ DealBegin \/ CollectOne \/ CollectDone
    \/ DispatchSkip \/ DispatchTake \/ DispatchCall \/ CallReturn \/ DispatchEnd
    \/ SelectBegin \/ SelectReadable \/ SelectTimeout

DeleteAllStep(c) == DeleteAllOne \/ DeleteAllEnd(c)

Client(c) ==
    \/ \E k \in Keys, intval \in Intervals, loops \in Loops : Create(c, k, intval, loops)
    \/ \E k \in Keys : Delete(c, k)
    \/ \E f \in Funcs : DeleteAllBegin(c, f)
    \/ Refresh(c)
    \/ DeleteAllStep(c)

Next == TimerThread \/ Tick \/ \E c \in Clients : Client(c)

Spec == Init /\ [][Next]_vars

\* Callbacks return, the thread is scheduled, time passes, and a client that is
\* inside the API comes out of it; nobody has to call the API.
FairSpec ==
    /\ Spec
    /\ SF_vars(TimerThread) /\ WF_vars(Tick)
    /\ \A c \in Clients : WF_vars(Refresh(c)) /\ WF_vars(DeleteAllStep(c))

-----------------------------------------------------------------------------
TypeOK ==
    /\ pool \in 0 .. PoolSize
    /\ queue \in Seq(Timers)
    /\ deal \in Seq(Keys \cup {NoKey})
    /\ i \in Nat \ {0}
    /\ pc \in {"deal", "collect", "dispatch", "taken", "call", "select", "sleep"}
    /\ taken \in Keys \cup {NoKey} /\ (taken # NoKey <=> pc \in {"taken", "call"})
    /\ now \in Nat /\ tClock \in Nat /\ remain \in Nat /\ deadline \in Nat
    /\ wake \in 0 .. PipeCap
    /\ api \in [Clients -> {"idle", "refresh", "purge"}]
    /\ purge \in Funcs \cup {NoFunc}
    /\ promise \in [Keys -> {"none", "finite", "forever"}]
    /\ busy \in 0 .. MaxBusy

Ordered(q) ==
    \A j, h \in DOMAIN q : j < h => q[j].clock <= q[h].clock /\ q[j].key # q[h].key

\* No timer record is lost or shared: every one of the pool is either free or
\* in the list, and a name is in the list at most once ("a timer is identified
\* by func and arg"), in the order of expiry on which msg_timer_deal's early
\* stop relies.
ListSound ==
    /\ pool + Len(queue) = PoolSize
    /\ Ordered(queue)

\* The batch never overruns g_deal_funcs, and no timer is in one batch twice: a
\* periodic timer that was late is put back beyond the instant being dealt with.
BatchFits ==
    /\ Len(deal) <= PoolSize
    /\ \A j, h \in DOMAIN deal : j < h /\ deal[j] = deal[h] => deal[j] = NoKey

\* Once mid_timer_delete or mid_timer_delete_all has returned, the timer is
\* neither in the list nor among the batch's entries that the dispatch loop has
\* still to take: whatever the delete interleaved with, the loop never takes it
\* again.  What the loop copied before the delete got the mutex (line 145), it
\* does start (line 147): that one call no delete can stop or wait for.
DeletedNeverTaken ==
    /\ \A j \in DOMAIN queue : promise[queue[j].key] # "none"
    /\ \A k \in Pending : promise[k] # "none"

\* A timer created with loops = 0 stays in the list until it is deleted.
PeriodicStays == \A k \in Keys : promise[k] = "forever" => Queued(queue, {k}) \/ purge = k[1]

\* A thread that is about to sleep, or asleep, with no wake-up on its way will
\* be back in msg_timer_deal for the earliest timer: creating an earlier timer
\* while it computes, runs callbacks or sleeps never goes unnoticed.
NoLostWakeup ==
    (/\ pc \in {"dispatch", "taken", "call", "select", "sleep"} /\ queue # <<>>
     /\ wake = 0 /\ \A c \in Clients : api[c] # "refresh")
    => tClock + remain <= Head(queue).clock

\* However the API calls interleave, a timer waits past its expiry no longer
\* than the thread was kept from its work in one round.
BoundedLateness ==
    pc # "collect" => \A j \in DOMAIN queue : now <= queue[j].clock + busy

\* A timer that falls due is taken out (to run, or because somebody deleted or
\* re-created it), if the model's time lasts for it.
DueTimerServed ==
    \A k \in Keys, t \in {u \in 0 .. MaxClock : u + MaxBusy <= MaxClock} :
        (\E j \in DOMAIN queue : queue[j].key = k /\ queue[j].clock = t)
        ~> ~(\E j \in DOMAIN queue : queue[j].key = k /\ queue[j].clock = t)
=============================================================================
