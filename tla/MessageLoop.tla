----------------------------- MODULE MessageLoop -----------------------------
(***************************************************************************)
(* The message loop of src/middleware/src/app: the pool of Messages        *)
(* (Message/Message.cpp), one thread's MessageQueue, the MessageHandlers   *)
(* that share it, and the loop that serves it (Util/Thread.cpp).           *)
(*                                                                         *)
(* The queue's mMutex and the pool's gMutex are distinct: while a removal  *)
(* holds the first and recycles one message after the other, other threads *)
(* obtain the messages it has already recycled.  A sender reads the clock  *)
(* and fills its message before it takes mMutex.  A handler runs with no   *)
(* lock held, so the loop's own thread is one of the callers while it      *)
(* dispatches.                                                             *)
(*                                                                         *)
(* Left out: mQuiting, which only a message without a target sets, and     *)
(* every send goes through sendMessageAtTime or sendMessageAtFrontOfQueue, *)
(* which set it; the reference counts of obj and callback; hasMessages,    *)
(* which changes nothing; the order of the free list (which free message   *)
(* is obtained next); sends for an absolute time, which nobody outside     *)
(* Message/ uses.  Time is SysTime::GetMSecs() in ticks, from 1.           *)
(***************************************************************************)
EXTENDS Naturals, Sequences, SequencesExt

CONSTANTS
    Loop, Senders,   \* the thread that runs the queue; the other threads
    Handlers,        \* MessageHandlers attached to the queue
    Whats, Args,     \* what and arg1/arg2
    Objs, Runs,      \* obj, or the token of a post; Runnables
    Static,          \* the messages of gMessages
    Heap,            \* bound: the messages that new Message() may return
    Delays, AtFront, \* delayMillis arguments; sent to the front instead
    MaxTurn,         \* bound: the numbers of a thread's outstanding messages
    MaxClock,        \* bound: the last time to send for, and the last tick but for a sleep
    Poll,            \* ticks of the 20 ms sleep in next()
    Null             \* a null pointer; no message; nobody

ASSUME LoopConstants ==
    /\ Loop \notin Senders /\ Null \notin Senders \cup {Loop}
    /\ Static \cap Heap = {} /\ Null \notin Static \cup Heap
    /\ Null \notin Handlers \cup Objs \cup Runs
    /\ AtFront \notin Nat
    /\ 0 \in Whats /\ 0 \in Args
    /\ Delays \subseteq Nat /\ MaxTurn \in Nat /\ MaxClock \in Nat /\ Poll \in Nat

Threads == Senders \cup {Loop}
Ids == Static \cup Heap

Fields == [target : Handlers \cup {Null}, what : Whats, arg : Args,
           obj : Objs \cup {Null}, callback : Runs \cup {Null}, when : Nat]

VARIABLES
    msg,       \* the fields of every message
    fresh,     \* members of gMessages never obtained (beyond mPoolSize)
    pool,      \* the free list mPool
    live,      \* heap messages in existence
    queue,     \* mMessages
    loop,      \* where the loop's thread is
    current,   \* the message it dispatches
    wakeAt,    \* when the 20 ms sleep ends
    out,       \* what each thread is about to enqueue, and for when
    holder,    \* the thread that holds mMutex to remove messages
    doomed,    \* messages it has still to remove
    alive,     \* handlers not destroyed
    now,
    ask        \* history: who sent each message, with what delay and in which turn

vars == <<msg, fresh, pool, live, queue, loop, current, wakeAt, out, holder,
          doomed, alive, now, ask>>
poolVars == <<fresh, pool, live>>
loopVars == <<loop, current, wakeAt>>
sendVars == <<out, ask>>
removeVars == <<holder, doomed>>

Blank == [target |-> Null, what |-> 0, arg |-> 0, obj |-> Null, callback |-> Null, when |-> 0]
NoAsk == [by |-> Null, delay |-> 0, nth |-> 0]
NoOut == [id |-> Null, when |-> 0]

-----------------------------------------------------------------------------
\* Message::obtain: gMessages while it lasts, then the free list, then new.
Obtainable(m) ==
    \/ m \in fresh
    \/ fresh = {} /\ m \in pool
    \/ fresh = {} /\ pool = {} /\ m \in Heap \ live

ObtainSharing(m) ==   \* mutant: mPool is not moved on
    /\ Obtainable(m)
    /\ fresh' = fresh \ {m} /\ pool' = pool
    /\ live' = IF m \in Heap THEN live \cup {m} ELSE live

Obtain(m) ==
    /\ Obtainable(m)
    /\ fresh' = fresh \ {m}
    /\ pool' = pool \ {m}
    /\ live' = IF m \in Heap THEN live \cup {m} ELSE live

\* clearForRecycle: what, arg1 and arg2 are kept.
Cleared(m) ==
    IF m \in Heap THEN Blank
    ELSE [msg[m] EXCEPT !.target = Null, !.obj = Null, !.callback = Null, !.when = 0]

\* Message::recycle: back to the free list, or deleted.
Recycle(m) ==
    /\ msg' = [msg EXCEPT ![m] = Cleared(m)]
    /\ ask' = [ask EXCEPT ![m] = NoAsk]
    /\ pool' = IF m \in Heap THEN pool ELSE pool \cup {m}
    /\ live' = live \ {m}
    /\ UNCHANGED fresh

MutexFree == loop # "unstarted" /\ holder = Null

\* A thread may call the API: it is not inside it, and the loop's own thread
\* does so only from a handler.
Calls(t) == out[t] = NoOut /\ holder # t /\ (t = Loop => loop = "dispatch")

Init ==
    /\ msg = [m \in Ids |-> Blank] /\ ask = [m \in Ids |-> NoAsk]
    /\ fresh = Static /\ pool = {} /\ live = {}
    /\ queue = <<>> /\ loop = "unstarted" /\ current = Null /\ wakeAt = 0
    /\ out = [t \in Threads |-> NoOut]
    /\ holder = Null /\ doomed = {}
    /\ alive = Handlers
    /\ now = 1

\* Thread::start lets the thread past the lock it waits for.
Start == loop = "unstarted" /\ loop' = "next"
         /\ UNCHANGED <<msg, poolVars, queue, current, wakeAt, sendVars, removeVars, alive, now>>

-----------------------------------------------------------------------------
\* The number of a thread's next message: one more than that of its last message
\* still in the system; threads may send without end.
IsTurn(t, n) ==
    /\ \A m \in Ids : ask[m].by = t => ask[m].nth < n
    /\ n = 0 \/ \E m \in Ids : ask[m].by = t /\ ask[m].nth + 1 = n

\* A send, up to the lock of the queue: a message is obtained and filled and
\* the clock read.  d is the delay, or AtFront.
Compose(t, m, fields, d) ==
    /\ Calls(t) /\ fields.target \in alive
    /\ d # AtFront => now + d <= MaxClock
    /\ Obtain(m)
    /\ msg' = [msg EXCEPT ![m] = fields]
    /\ out' = [out EXCEPT ![t] = [id |-> m, when |-> IF d = AtFront THEN 0 ELSE now + d]]
    /\ \E n \in 0 .. MaxTurn :
        /\ IsTurn(t, n)
        /\ ask' = [ask EXCEPT ![m] = [by |-> t, delay |-> d, nth |-> n]]
    /\ UNCHANGED <<queue, loopVars, removeVars, alive, now>>

\* obtainMessage(what, arg1, arg2, obj), then one of the sendMessage calls.
SendMessage(t, h, w, a, o, d) ==
    \E m \in Ids : Compose(t, m,
        [msg[m] EXCEPT !.target = h, !.what = w, !.arg = a, !.obj = o], d)

\* sendEmptyMessage, -Delayed, -AtTime: only what is set.
SendEmptyMessage(t, h, w, d) ==
    \E m \in Ids : Compose(t, m, [msg[m] EXCEPT !.target = h, !.what = w], d)

\* post, postAtTime, postDelayed, postAtFrontOfQueue.
Post(t, h, r, o, d) ==
    \E m \in Ids : Compose(t, m,
        [msg[m] EXCEPT !.target = h, !.callback = r, !.obj = o], d)

\* Behind every message due no later; AtFront is "due at 0", in front of all.
IsPlaceBeforeEqual(p, when) ==   \* mutant: < for <=
    /\ p \in 1 .. Len(queue) + 1
    /\ \A j \in 1 .. p - 1 : msg[queue[j]].when < when
    /\ p <= Len(queue) => msg[queue[p]].when >= when

IsPlaceAtTail(p, when) == p = IF when = 0 THEN 1 ELSE Len(queue) + 1   \* mutant: appends

IsPlace(p, when) ==
    IF when = 0 THEN p = 1
    ELSE /\ p \in 1 .. Len(queue) + 1
         /\ \A j \in 1 .. p - 1 : msg[queue[j]].when <= when
         /\ p <= Len(queue) => msg[queue[p]].when > when

\* pthread_cond_signal(&mCond).
SignalIfFilled == loop' = IF loop = "wait" /\ queue # <<>> THEN "next" ELSE loop   \* mutant
Signal == loop' = IF loop = "wait" THEN "next" ELSE loop

\* MessageQueue::enqueueMessage.
EnqueueMessage(t) ==
    /\ MutexFree /\ out[t] # NoOut
    /\ \E p \in 1 .. Len(queue) + 1 :
        /\ IsPlace(p, out[t].when)
        /\ queue' = InsertAt(queue, p, out[t].id)
    /\ msg' = [msg EXCEPT ![out[t].id].when = out[t].when]
    /\ out' = [out EXCEPT ![t] = NoOut]
    /\ Signal
    /\ UNCHANGED <<poolVars, current, wakeAt, ask, removeVars, alive, now>>

-----------------------------------------------------------------------------
\* The four removals differ in what they look for; obj = Null matches any.
ObjMatches(m, o) == o = Null \/ msg[m].obj = o

ByWhat(h, w, o) == {m \in ToSet(queue) : msg[m].target = h /\ msg[m].what = w /\ ObjMatches(m, o)}
ByCode(h, w, a) == {m \in ToSet(queue) : msg[m].target = h /\ msg[m].what = w /\ msg[m].arg = a}
ByCallback(h, r, o) == {m \in ToSet(queue) : msg[m].target = h /\ msg[m].callback = r /\ ObjMatches(m, o)}
OfHandler(h, o) == {m \in ToSet(queue) : msg[m].target = h /\ ObjMatches(m, o)}

\* A removal takes mMutex and, if it finds any message, keeps it while it
\* unlinks and recycles them one by one.
RemoveBegin(t, found) ==
    /\ Calls(t) /\ MutexFree /\ found # {}
    /\ holder' = t /\ doomed' = found
    /\ UNCHANGED <<msg, poolVars, queue, loopVars, sendVars, now>>

RemoveWhat(t, h, w, o) == RemoveBegin(t, ByWhat(h, w, o)) /\ UNCHANGED alive
RemoveCode(t, h, w, a) == RemoveBegin(t, ByCode(h, w, a)) /\ UNCHANGED alive
RemoveCallbacks(t, h, r, o) == RemoveBegin(t, ByCallback(h, r, o)) /\ UNCHANGED alive
RemoveCallbacksAndMessages(t, h, o) == RemoveBegin(t, OfHandler(h, o)) /\ UNCHANGED alive

\* One round of the removal loops.
RemoveOne ==
    /\ holder # Null
    /\ \E j \in 1 .. Len(queue) :
        /\ queue[j] \in doomed
        /\ \A k \in 1 .. j - 1 : queue[k] \notin doomed
        /\ queue' = RemoveAt(queue, j)
        /\ Recycle(queue[j])
        /\ doomed' = doomed \ {queue[j]}
        /\ holder' = IF doomed = {queue[j]} THEN Null ELSE holder
    /\ UNCHANGED <<loopVars, out, alive, now>>

DestroyKeepingMessages(h) ==   \* mutant: the destructor removes nothing
    /\ h \in alive /\ Calls(Loop) /\ MutexFree
    /\ \A t \in Senders : out[t] # NoOut => msg[out[t].id].target # h
    /\ alive' = alive \ {h}
    /\ UNCHANGED <<msg, poolVars, queue, loopVars, sendVars, removeVars, now>>

\* MessageHandler::~MessageHandler, called by a handler on the loop's thread
\* when no other thread is sending to the object any more.
Destroy(h) ==
    /\ h \in alive
    /\ \A t \in Senders : out[t] # NoOut => msg[out[t].id].target # h
    /\ alive' = alive \ {h}
    /\ \/ RemoveBegin(Loop, OfHandler(h, Null))
       \/ /\ Calls(Loop) /\ MutexFree /\ OfHandler(h, Null) = {}
          /\ UNCHANGED <<msg, poolVars, queue, loopVars, sendVars, removeVars, now>>

-----------------------------------------------------------------------------
\* MessageQueue::next, with pullNextLocked.
Pull ==
    /\ loop = "next" /\ MutexFree
    /\ queue # <<>> /\ now >= msg[Head(queue)].when
    /\ current' = Head(queue) /\ queue' = Tail(queue)
    /\ loop' = "dispatch"
    /\ UNCHANGED <<msg, poolVars, wakeAt, sendVars, removeVars, alive, now>>

PollSleep ==
    /\ loop = "next" /\ MutexFree
    /\ queue # <<>> /\ now < msg[Head(queue)].when
    /\ loop' = "poll" /\ wakeAt' = now + Poll
    /\ UNCHANGED <<msg, poolVars, queue, current, sendVars, removeVars, alive, now>>

PollWake ==
    /\ loop = "poll" /\ now >= wakeAt
    /\ loop' = "next" /\ wakeAt' = 0
    /\ UNCHANGED <<msg, poolVars, queue, current, sendVars, removeVars, alive, now>>

Wait ==
    /\ loop = "next" /\ MutexFree /\ queue = <<>>
    /\ loop' = "wait"
    /\ UNCHANGED <<msg, poolVars, queue, current, wakeAt, sendVars, removeVars, alive, now>>

\* pthread_cond_wait may return without a signal.
Spurious ==
    /\ loop = "wait" /\ loop' = "next"
    /\ UNCHANGED <<msg, poolVars, queue, current, wakeAt, sendVars, removeVars, alive, now>>

\* dispatchMessage has returned; Thread::run recycles the message.
Dispatched ==
    /\ loop = "dispatch" /\ out[Loop] = NoOut /\ holder # Loop
    /\ Recycle(current)
    /\ loop' = "next" /\ current' = Null
    /\ UNCHANGED <<queue, wakeAt, out, removeVars, alive, now>>

Tick ==
    /\ now < MaxClock \/ now < wakeAt
    /\ now' = now + 1
    /\ UNCHANGED <<msg, poolVars, queue, loopVars, sendVars, removeVars, alive>>

-----------------------------------------------------------------------------
Send(t) ==
    \E h \in Handlers, d \in Delays \cup {AtFront} :
        \/ \E w \in Whats, a \in Args, o \in Objs \cup {Null} : SendMessage(t, h, w, a, o, d)
        \/ \E w \in Whats : SendEmptyMessage(t, h, w, d)
        \/ \E r \in Runs, o \in Objs \cup {Null} : Post(t, h, r, o, d)

RemoveMessages(t) ==
    \E h \in alive, o \in Objs \cup {Null} :
        \/ \E w \in Whats : RemoveWhat(t, h, w, o)
        \/ \E w \in Whats, a \in Args : RemoveCode(t, h, w, a)
        \/ \E r \in Runs : RemoveCallbacks(t, h, r, o)
        \/ RemoveCallbacksAndMessages(t, h, o)

LoopThread == Pull \/ PollSleep \/ PollWake \/ Wait \/ Dispatched

Next ==
    \/ \E t \in Threads : Send(t) \/ EnqueueMessage(t) \/ RemoveMessages(t)
    \/ \E h \in Handlers : Destroy(h)
    \/ RemoveOne \/ Start \/ LoopThread \/ Spurious \/ Tick

Spec == Init /\ [][Next]_vars

\* The thread is started and scheduled, handlers return, time passes, and a
\* thread inside the API comes out of it; nobody has to send anything.
FairSpec ==
    /\ Spec
    /\ WF_vars(Start) /\ WF_vars(RemoveOne) /\ WF_vars(Tick)
    /\ SF_vars(LoopThread)
    /\ \A t \in Threads : SF_vars(EnqueueMessage(t))

-----------------------------------------------------------------------------
TypeOK ==
    /\ msg \in [Ids -> Fields]
    /\ fresh \subseteq Static /\ pool \subseteq Static /\ live \subseteq Heap
    /\ queue \in Seq(Ids)
    /\ loop \in {"unstarted", "next", "poll", "wait", "dispatch"}
    /\ current \in Ids \cup {Null}
    /\ wakeAt \in Nat /\ now \in Nat
    /\ out \in [Threads -> [id : Ids \cup {Null}, when : Nat]]
    /\ holder \in Threads \cup {Null} /\ doomed \subseteq Ids
    /\ alive \subseteq Handlers
    /\ ask \in [Ids -> [by : Threads \cup {Null}, delay : Delays \cup {AtFront, 0}, nth : Nat]]

Composing == {out[t].id : t \in {u \in Threads : out[u] # NoOut}}

\* A message is never in two hands: free (in gMessages, on the free list or not
\* allocated), with one sender, queued once, or being dispatched, whatever is
\* obtained and recycled meanwhile; and none is lost between two hands.
OneOwner ==
    /\ fresh \cap pool = {}
    /\ \A j, k \in DOMAIN queue : queue[j] = queue[k] => j = k
    /\ \A t, u \in Threads : out[t] # NoOut /\ out[t].id = out[u].id => t = u
    /\ (ToSet(queue) \cup Composing) \cap (fresh \cup pool \cup (Heap \ live)) = {}
    /\ current \notin ToSet(queue) \cup Composing \cup fresh \cup pool \cup (Heap \ live)
    /\ ToSet(queue) \cap Composing = {}
    /\ Static \cup live = fresh \cup pool \cup ToSet(queue) \cup Composing \cup ({current} \ {Null})

\* One thread's messages overtake each other only by asking to: a message sent
\* earlier is queued behind a later one only if it was delayed longer or the
\* later one was sent to the front.
SenderFifo ==
    \A j, k \in DOMAIN queue :
        LET a == ask[queue[j]]
            b == ask[queue[k]]
        IN  j < k /\ a.by = b.by /\ a.nth > b.nth =>
                a.delay = AtFront \/ (b.delay # AtFront /\ a.delay < b.delay)

\* No message outlives the handler it is for: what is queued when the handler
\* is destroyed goes with it, so dispatchMessage is never called on a dead one.
TargetsAlive ==
    \A j \in DOMAIN queue : msg[queue[j]].target \in alive \/ queue[j] \in doomed

\* The loop is not left waiting on the condition variable with a message queued.
NoLostWakeup == loop = "wait" => queue = <<>>

SendsToFront == \E t \in Threads : out[t] # NoOut /\ out[t].when = 0

IsDue(m) == m \in ToSet(queue) /\ msg[m].when <= now

\* Every message that falls due is taken from the queue, whatever is sent and
\* removed meanwhile, unless messages are sent to its front again and again:
\* those "can easily starve the message queue" (MessageHandler.cpp:207, 368).
DueMessageServed ==
    <>[]~SendsToFront => \A m \in Ids : IsDue(m) ~> ~IsDue(m)

\* The list with its locks behaves as the abstract queue: a message is handled
\* when it is due and never while one due sooner is pending.
DQ == INSTANCE DelayQueue WITH
        NoId <- Null, handled <- current,
        pending <- [m \in ToSet(queue) |-> msg[m].when]

ImplementsDelayQueue == DQ!DQSpec
==============================================================================
