# A verification development for yxstb

yxstb is the middleware of an IPTV set-top box: C and C++ for Linux and Android
that runs timers and socket callbacks, a message loop for the application,
downloads and firmware upgrades, stream playback and recording, and management
agents (TR-069, a monitor tool).  The repository has about 520 000 lines, no
tests and no design documents; the code is the reference, and its few comments
that promise something are quoted where a module checks them.

The modules here model the parts of the code on which the rest runs, the timer
service, the message loop and the ring buffer, and four of their users: the
log, the DNS client, the firmware upgrade and the TR-069 agent.

## Running it

    tlasany M.tla                                  parse
    tlc -workers 2 -config MCMidTimer.cfg MCMidTimer.tla
    tlapm MidTimerProofs.tla                       check the proofs

`PROJECT.json` lists the components, the runs with their properties, the
source lines behind every definition (`map`), a mutant for every property (a
plausible bug in a mapped definition that the run must find), the findings, the
hazards of the code and the theorems.

## The system

    any thread --create/delete--> mid timer service --callbacks--> agents, http
                                    |  (one thread, select on a pipe)
    any thread --send/post/remove--> MessageQueue --dispatch--> MessageHandlers
                                    |  (the loop thread)          |
    http thread, file thread --RingBuffer, onDataArrive/onEnd--> UpgradeReceiver
    USB thread --startMonitorORUdiskUpgrade--> UpgradeManager --start--> burn threads
    any thread --log--> RingBuffer --MC_DataArrive--> LogPool (the loop thread)
    any thread --resolve/gethost--> DNS task --UDP--> servers
    platform --tr069_api--> TR-069 task --HTTP--> main and backup server; disk

| Component | State | Operations | What is hard | What makes it correct |
|---|---|---|---|---|
| mid timer (`tools/mid/mid_timer.c`) | a pool of timers, a sorted list, the batch being run | create, delete, delete_all, the deal loop, wake-ups | callbacks run with the mutex released, from a copied batch; the time to sleep is computed before they run | list and pool sound, a deleted timer is never taken again, no wake-up lost, bounded lateness |
| message loop (`app/Message`, `app/Util/Thread.cpp`) | message pool, time-ordered list, the loop's phase | send, post, remove, recycle, dispatch, destruction of a handler | two locks; removal recycles while others obtain; time read before the lock | one owner per message, order per sender, no dispatch to the dead, no lost signal |
| ring buffer (`app/DataStream/RingBuffer.cpp`) | two indices, memory | get and submit heads | no lock; a wrapping index is stored twice | reads are the stream; grants stay good; a waiting writer is woken |
| log (`app/Log`) | ring buffer of blocks, filters | log, drain | writers under a mutex, reader without; a block's size is all the framing there is | blocks are whole, none is forgotten |
| upgrade (`app/Upgrade`) | manager state, checkers, receiver, burner, sources | checks, requests, answers, downloads, burns | four kinds of threads, objects deleted under others' feet, replies without requests | nothing deleted is used, one burn, no stale end, nobody waits for nothing |
| DNS client (`module/dns`) | list of queries, slots of waiting callers, timers, cache | resolve, gethost, answer, time out, retry | late and duplicate answers, a caller that gives up while its answer is on its way, wake-ups of the task | each caller called back once and with its own answer; every call ends |
| TR-069 agent (`src/tr069`) | events, session, queue of loads, flags on the disk | inform, answers, orders, loads, retries, saving, restart | power failures between order and report, two servers, lost answers | what was promised to the server survives as far as its record can be read back; it is told in the end |
| mid select, queues (`tools/mid`) | descriptor table; pipes | register, unregister, loop | table changed by callbacks of the same round | no callback of an unregistered descriptor |
| streams (`module/play/stream`) | stream tables, buffers, command stacks | open, play, record, read | commands across threads, overflow resets | order, no use of a closed stream |
| client PVR (`cpvr`) | task list, database | schedule, record, remove disk | restart, conflicts, a disk pulled out | every task in one state, database and list agree |
| network manager (`app/Network`) | cards and their states | connect, retry | delayed messages of an earlier state | no stale retry |
| the rest | see `PROJECT.json` | | | not modelled: parsers, screens, vendored code |

## The modules

**MidTimer** (with **MCMidTimer**) is `mid_timer.c` at the grain of its mutex:
`pool`, `queue` and `deal` are `g_timer_q_pool`, `g_timer_q_time` and
`g_deal_funcs`; `pc` and `i` are where `msg_timer_deal` and the loop around it
are; `wake` counts bytes in the pipe.  `Create`, `Delete`, `DeleteAll*`,
`Refresh` are the API (a call is several actions where the code releases the
mutex or writes the pipe after it); `Deal*`, `Collect*`, `Dispatch*`,
`CallReturn`, `Select*` are the thread; `taken` is the `func` and `arg` that the
dispatch loop copied before it lets go of the mutex (`DispatchTake`) and then
calls without it (`DispatchCall`).  `busy` counts the ticks that the
scheduler or a callback kept the thread from its work; it is the yardstick of
`BoundedLateness`.  `promise` is a history variable.  **MidTimerRearm** adds one more.

**MessageLoop** (with **MCMessageLoop**) is the pool of messages with `gMutex`,
the queue with `mMutex`, the ways to send and post, the four removals, the loop
with its 20 ms poll and its condition variable, and the death of a handler.  A
message is an id with its fields; sending is `Send` (clock read, message
filled) and `EnqueueMessage` (under the lock), removing is one action for the
choice and one per message recycled, because others obtain what is recycled
meanwhile.  **DelayQueue** is the abstract queue it implements.

**RingBuffer** (with **MCRingBuffer**) has the two indices, the memory and the
two threads' grants.  An index that reaches the end is stored as `Size` and
then as 0; in the source these are two statements with nothing between, and a
compiler may merge them, so `OneStore` says which build it is.  **ByteStream**
is the pipe it implements.  Memory order is taken to be that of the program:
the code has no barriers, so on a weakly ordered CPU the bytes could arrive
after the index; that is not modelled.

**LogPool** (with **MCLogPool**) composes RingBuffer (`INSTANCE`) with its two
users in the log: `Log::log`, which formats a block into whatever room it is
granted, and `LogPool::receiveData`, which first removes the waiting
MC_DataArrive messages and then reads until the buffer is empty.  `frame` is
what the memory says when it is read as a block's size.  Lengths are scaled.

**UpgradeManager** (with **MCUpgradeManager**) is the upgrade: one action per
message the manager and the receiver handle (`CheckEnd`, `ReceiverEnd`,
`ReceiveEnd`, `BurnEnd`, `NextContent` for the logo and the setting,
`UpgradeRequest`, `AutoUpgrade`), the answer of the user (`Answer`, which runs in the loop
thread), the download of each source (`TransferBegin` .. `Call`; HTTP transfers
run one at a time, a call of the sink is a step after the pointer was read) and
the burn threads.  The message loop is taken at its word: `msgs` is a FIFO and
`later` holds delayed messages.  A use of a null or deleted object sets `fault`
and stops the model.  `stuck` records the seven ways in which the code forgets
what it is doing (below).  Versions are the set of contents a source has that are new.

**DnsClient** (with **MCDnsClient**) is `mid_dnsc.c` with the timer list of
`ind_tmr.c`.  A member of `Addrs` is the memory of a `struct mid_dns`, reused
after it was freed; `slot` is `g_msgq_array`, `arg` the place in it that a
waiting caller named in its resolve, `box` the queues with an answer in them.
What `g_mutex` protects is one action: `TakeSlot`, the `Resolve*` actions, `Stop` and `Leave` are
the callers; `Deal`, `CallTimeout`, `Close`, `Second`, `Snapshot`, `Select`,
`Answer` and the two `Tell*` are the task, which lets go of the mutex before it calls
anybody.  Answers may be lost (`Forget` empties the cache), late, of no use, or
come twice; a query may be refused by the socket.  Seconds are relative.

**Tr069Session** (with **MCTr069Session**) is the TR-069 task: `pc` is where
`tr069_task_loop` is (waiting, dialling a server, or in a phase of the session),
`rc` is `retry_connect`, `queue` is `loadQueue` with each load's transferstate,
`disk` what `tr069_port_infoSave` stored.  `PowerCycle` may come at any step; it
and `Upgraded` restart the agent from `disk` by the code of
`tr069_struct_create`, and the platform then reports the result of a load by its
`FileType`; `LoadEnded` is such a report to an agent that goes on running.
`Legible` are the loads whose saved record `tr069_config_load` can read back:
`Readable` and `Places` drop the others, which is what happens to the file types
of the standard (see Findings).  A configuration file has such a type and is
never legible; any other load may be either.  `Broken` ends a session in any phase, `Unreachable` a
dial.  Several shortcomings of the agent that were found on the way are part of
the model; history variables name them (`slighted`) or state predicates do
(`Mute`, `Revived`), and the properties say that there are no others.

**SeqFacts** holds facts about sequences for the proofs; **MidTimerProofs**,
**RingBufferProofs**, **LogPoolProofs**, **MessageLoopProofs**,
**UpgradeManagerProofs**, **DnsClientProofs** and **Tr069SessionProofs** the
theorems (below).

## What the runs check

| Run | Instance | What it shows |
|---|---|---|
| `timer` | 1 function with 2 arguments, 2 clients, pool of 2, clock 2, fair | `ListSound`, `BatchFits`, `NoLostWakeup`, `BoundedLateness`, `DeletedNeverTaken`; a due timer is served |
| `timer_rearm` | violation; 1 client, clock 3 | a timer created again runs from its old batch entry before its interval |
| `message_loop` | 1 sender and the loop's thread, 2 handlers, 1 pooled and 1 heap message, fair | one owner, order per sender, dead handlers, refinement of DelayQueue; a due message leaves the queue unless messages are sent to its front without end |
| `ring` | 5 slots, 14 bytes, waitLock, two stores, fair | the stream is read in order; grants hold; the pipe until torn; the writer resumes |
| `log` | 12 units of buffer, 26 written, two stores, fair | blocks are whole, nobody forgets a block, every block is read |
| `upgrade` | software checks and USB requests, 3 starts, the prompt's timer | memory safety, one burn, no stale end, no silent wait |
| `upgrade_both` | with template checks, 2 starts, fair | checks do not disturb an upgrade; it ends; a requester is released |
| `upgrade_prompt`, `upgrade_repeat`, `upgrade_mix` | violations | below |
| `dns` | 2 calls, 2 hosts, 2 sockets, 1 slot, 2 timers, fair | types, one callback per call, answers with their callers, no deaf socket, every call ends |
| `tr069` | 3 downloads, 1 of them legible, 3 tries, five budgets, fair | legible loads and records survive, one reboot per order, silence is explained, everything is told |

Bounds.

* `timer`: two names over two pool entries give exhaustion, reuse and equal
  expiries; two ticks with intervals up to 2 let a timer fall due while the
  batch of an earlier one is run.
* `message_loop`: two messages are enough for a double owner, for an insertion
  before and behind, and for a heap message beside a pooled one; longer lists
  are the business of the proofs.  Threads send without end: `MaxTurn` bounds only
  the numbers of what one thread has outstanding, `MaxClock` the times.
* `ring`, `log`: five slots give both indices room to wrap twice within 14
  bytes, and every length of grant; 26 units of log let each index wrap twice
  with blocks of every length at the end of the buffer.
* `upgrade`: three starts give a check under way, a request that stops it and
  one that comes while an image is burnt: the leftovers of one upgrade
  (`g_burner`, checkers) meet the next.
* `dns`: two calls for one host share a query, for two hosts two sockets; one
  slot makes the second waiting caller take the first one's; a queue of one
  message drops a wake-up; retries are one step (`ToArray`), timeouts 2 seconds,
  so that an answer, a retry and a timeout compete.
* `tr069`: each budget joins two or three of: two downloads (a configuration file
  and a legible load, so that a restart keeps one of two and either may come
  first), an upgrade, a power failure, a change of the URL, extended events, orders to reboot and reset, a backup
  server.  All of them at once are too many states.  `Tries` is the code's 3.

Fairness.  `FairSpec` of MidTimer and MessageLoop: the service thread is scheduled,
strongly fair because clients hold its mutex again and again; a client inside a
call comes out of it; time passes.  Nobody has to call the API.  RingBuffer:
the reader, which is sent a message for what is written, goes on reading and
uses something of what it gets.  LogPool: the message thread is scheduled and a
thread inside `log` comes out of it.  UpgradeManager: the loop and the threads go
on; downloads are finite (strong fairness of `Finish`, because data keep
arriving between) and servers answer or time out; the user may never answer.
DnsClient: time passes, the task is scheduled, and so is a thread inside
`mid_dns_gethost`; no server has to answer.  Tr069Session: the task goes on, its
timers come due, the application activates an agent and carries out upgrades;
the main server can be reached again and again and again and again answers what it was
asked (strong: a connection may break any number of times first).

## Findings

* `timer_rearm`: `int_timer_create` moves a timer in the list but leaves its
  entry in the batch (`mid_timer.c:186`; `mid_timer_delete` clears it).
* `upgrade_prompt`: the auto-upgrade timer needs `m_source`, which a prompt
  never sets (`UpgradeManager.cpp:927`); `JseHWUpgrade.cpp:73` promises that the
  box upgrades by itself.  The branch of `AutoUpgrade` that would start the
  upgrade is translated and no run reaches it.
* `upgrade_repeat`: the clean-up loop of `onDestroy` (`UpgradeManager.cpp:620`)
  sees a checker only if it is alone.
* `upgrade_mix`: `MIX_UPGRADE_MODE` calls `reportEvent(NULL)`.

Seen while modelling, without a run of its own.  Messages and timers:

* `mid_timer_delete` does not wait for a call that `msg_timer_deal` has taken from
  the batch: between the unlock (`mid_timer.c:145`) and the call (147) a delete
  may return and its function still starts, once.  `DeletedNeverTaken` is about
  everything else; the callers that free what `arg` names rely on more.
* `clearForRecycle` leaves `what`, `arg1`, `arg2` (`Message.cpp:183`), so "only the what value"
  (`MessageHandler.cpp:257`) is not what a handler gets, and a posted Runnable,
  whose `what` is left over too, is removed by somebody's `removeMessages(what)`.
* Messages sent to the front again and again starve all others, as
  `MessageHandler.cpp:207` and `368` say; `DueMessageServed` has it as its premise
  (without it TLC finds the starved message).
* `recycle` drops the reference to `obj` with the queue's lock held
  (`MessageQueue.cpp:123`): a destructor that ends in `~MessageHandler` waits for itself.
* `mid_10ms` wraps after 497 days and `mid_timer.c:49` compares raw values; so
  do the 32-bit milliseconds of `MessageQueue.cpp:58` after 49.7 days.

Log:

* The last byte of the buffer stays free while nothing has been read and is
  granted alone later; `log` then subtracts more than it has (`Log.cpp:51`).
* `bufLength - blockSize` is unsigned (`Log.cpp:68`): a block larger than its
  grant is submitted, refused, and the message lost, or accepted if the reader
  has moved on meanwhile.

Upgrade:

* With software and template checks at one time `NoFault`, `BurnsUndisturbed` and `DownloadsAreWatched`
  do not hold.  `responseEvent` (`UpgradeManager.cpp:516`) does not look at
  `m_state`: a prompt of one kind that is still open while the image of the
  other is received or burnt destroys the receiver or the burner when it is
  refused, and `HttpDataSource::receiveEnd` (`HttpDataSource.cpp:89`) then goes
  through a null sink; accepted, it replaces the receiver while the http thread
  may be about to call it (`HttpDataSource.cpp:79`).  With three starts
  `EndsAreCurrent` and `SomebodyWorks` fail in the same way.  `upgrade` therefore has
  software checks only, and the properties of `upgrade_both` except what
  follows a fault.  That the open prompt is the only way is proved: as long as
  none is open while an image is received or burnt, all five hold (below).
* The USB source is static (`UpgradeManager.cpp:241`): the content chosen for
  one disk is kept for the next.
* Seven causes after which the manager waits for ever are recorded in `stuck`,
  and `SomebodyWorks` and `UpgradeEnds` say that the model knows no eighth.  For a
  check: `check` (an address nobody may ask).  For a download: `lost` (a file
  that cannot be read), `unregistered` (`mid_http_regist` returns -1 without a
  callback, `mid_http.c:443-457`, which `HttpDataSource.cpp:107` ignores).  For a
  burn: `refused` (the next content is asked for in UMS_BURN, where
  `startReceive` refuses), `unborn` (the burn thread cannot be created,
  `UpgradeBurner.cpp:50`, which `UpgradeManager.cpp:710` ignores), `busy`
  (`g_burner` left set), `setting` (a setting that fails ends without
  UMMC_BURN_END).  A cause exempts only the check, download or burn it befell:
  `stuck` is emptied when the manager is idle again or starts the next download,
  so a request after a check that got no answer is held to its end.

DNS client:

* A first query that `sendto` refuses leaves no message (`mid_dnsc.c:609`).  With
  no timer running the task never looks at the list again and later calls for
  the host only join it (`Deaf`), though `mid_dns.h:14` promises
  DNS_MSG_TIMEOUT when the server cannot be reached.
* The timer is deleted by the address of a list that is empty by then
  (`mid_dnsc.c:147`): it stays.  Each leftover counts a second, so that retries
  come early (line 490).
* After `mid_dns_setsrv` a query keeps its `ns_index` (line 499), and an
  answer of the old server goes into the emptied cache (line 399).
* `mid_dns_gethost_to`, which nobody calls, inserts into the cache without the mutex.

TR-069 agent:

* Without a backup URL, three failures leave no address to dial
  (`tr069_main.c:307`) until the URL changes (`Mute`).  The comment at lines 288-291
  does not describe what 299-302 do.
* EVENT_INFORM_POSTING outlives a broken session (`tr069_main.c:593`) and makes
  the next session's end forget events it never told (`slighted`).
* The answer to an Inform that carried extended events only clears BOOTSTRAP
  and M_REBOOT (`tr069_method.c:756`); steady alarms keep ordinary events
  waiting (line 765).
* A Fault for a TransferComplete ends the talk and the load waits for some other
  event (`tr069_method.c:1454`).  An acknowledged load is not saved as gone
  (line 1435): after a restart it is run again, if it is legible (`Revived`).
* A result is matched with the head of the queue by its file type only
  (`tr069_api.c:106`); `strcmp(name, "Upload.")` never matches one
  (line 341), so an upload blocks the queue.
* The orders for configuration files are swapped: a download uploads, an upload
  downloads (`tr069_main.c:860`, `866`).
* The records of loads are written as they are (`tr069_config.c:720`; only
  `save_param` escapes spaces, 604-613).  `tr069_config_elem` ends a value at the
  first character that is not graphic (190-193), takes the next word for a name,
  finds no `=` (181-182), and `load_load` drops the record (389-390).  So a load
  with a space in its file type, command key or another value is forgotten by
  every restart: all of "1 Firmware Upgrade Image", "3 Vendor Configuration File"
  and the other types of the standard, also by the restart of the very upgrade,
  whose end is then never told to the server.  The platform does report
  "1 Firmware Upgrade Image" as it starts (`net_manager/tr069_interface.c:180-185`),
  and `tr069_api.c:105` matches it with nothing.  A value of 256 characters or
  more is refused too, though a URL may have 1024.  `LoadsSurvive` is about legible loads
  after a restart and about all of them before it.
* The middleware's upgrade reports through `Event.Upgraded` (`UpgradeManager.cpp:430`),
  which `tr069_api.c:328` rejects.
* A configuration beyond 64K, or a load beyond 1024 bytes, is saved without its
  loads (`tr069_config.c:718`); `buf_large` is filled by two threads
  (`tr069_api.c:138`).

## What is proved

For every value of the constants that satisfies the modules' assumptions:

* **MidTimerProofs**: `TypeOK`, `ListSound`, `BatchFits`, `DeletedNeverTaken`,
  `PeriodicStays`, `NoLostWakeup`, `BoundedLateness`.  The inductive invariant
  `IInv` joins the first with what the code relies on between two of its lock
  regions: `Elements` (an entry without an interval runs once), `Purging` (what
  `delete_all` has already removed stays away while it holds the mutex),
  `Collected` (batch and list are disjoint in the part still to come: an entry
  that goes back into the list lies beyond `tClock`, so the batch cannot
  overrun), `Wakes` (the deadline is no later than the head unless a byte is on
  its way), `Promised`, `Periodic` and `Late`.  None of the seven is inductive
  alone: `BatchFits` needs the expiries of what was put back, lateness needs the
  wake-ups.
* **RingBufferProofs**: `TypeOK`, `ReadsAreTheStream`, `GrantsAreKept`,
  `WaitsOnlyWhenFull`, for every size and both builds; that RingBuffer implements
  ByteStream, assuming `OneStore`; and that without it every step up to the
  first torn read is a step of the pipe.  `IInv` counts bytes by the indices
  (`Accounts`, with an index at the end read as 0) and says that a grant stays
  within the free or the unread part however the other index moves
  (`WriterGrant`, `ReaderGrant`).  The reader that meets the writer between its
  two stores (`torn`) is excepted: it is granted the whole buffer.
* **MessageLoopProofs**: `TypeOK`, `OneOwner`, `NoLostWakeup`, `TargetsAlive`,
  `SenderFifo`, and that MessageLoop implements DelayQueue.  Ownership comes
  first (`OInv`: `Shapes`, what each of the hands of the code may hold, and
  `Owners`, that each message is in one of them and a recycled one in none);
  on it rest `Kinds` (the types of a message's fields), `Targets` (a message in
  the list is for a living handler or is one a destructor has still to remove)
  and `InOrder` (`OrderOk`: the list is sorted by time and one sender's
  messages are in turn; `SendingOk`: what a sender has in its hands is newer
  than all it has queued, and its clock was read no earlier; `QueuedOk`).  The
  refinement maps the list to the function from its messages to their times.
* **LogPoolProofs**: `BlocksAreWhole`, `NobodyForgets`, that every block the
  reader submits is accepted and takes it further (`EachBlockAdvances`, the step
  under `BlocksAreRead`), and that the log, whose submits may claim more than
  was granted, still moves its ring as ByteStream does (`LogPipe`); for every
  buffer, headers of any size, any set of lengths, both builds.  `LInv` carries
  the ring's `Accounts` and grants over to a writer that overdraws, and adds
  `Framed`: the unread bytes are a chain of blocks, each of which says its size,
  ends where the next begins and does not go over the end of the buffer (this
  is why a reader can trust the word it reads as a size), and `Announced`: what
  came since the reader found the buffer empty is told by a message or by the
  call that brought it.  The torn read is excepted, as above.
* **UpgradeManagerProofs**: for any checkers and in either mode, `TypeOK` (with
  `Distinct`: no two checkers of a kind, so that the array is no longer than
  `Types`), `ChecksDoNotDisturb` (an answered prompt removes messages too, but
  never as many `check_end` as a handler: `CountWithout`), and `RequestIsQueued`
  (the thread of the USB detector waits exactly as long as its one request is in
  the queue: the safety half of `RequesterReleased`).  Without MIX_UPGRADE_MODE and
  with checks of both kinds: `NoFault`, `BurnsUndisturbed`, `EndsAreCurrent`,
  `DownloadsAreWatched`, `SomebodyWorks`, for any number of checks, requests,
  downloads and burns, each as `Spec /\ []~Rival => []P`.  `Rival` is a prompt
  that is open while an image is received or burnt, from which the code goes
  wrong (see Findings); `OneKindHasNoRivals` proves that a box with software
  checks only, or with template checks only, never gets there, and
  `OneKindUpgrades` that the five hold there in every behaviour.  (For both
  kinds, three starts and every step to a `Rival` state cut off, TLC has found the same.)
  None of the five is inductive: each depends on messages
  still in the queue.  `UInv` says that one hand passes the upgrade on: between
  upgrades (`Between`) no download, no burn and none of their messages is left;
  while an image is received (`Receiving`) there is at most one of a download,
  its message and its delayed message; while it is burnt (`Burning`) at most one
  of a burn thread and its message; `Works` says that the one is there unless
  `stuck` has a cause for its absence, `Prompts` what the checkers are that the user or a server has
  been asked about; `Lone`, for one kind, that only a waiting manager has asked.
* **DnsClientProofs**: `TypeOK`, `InOnePlace`, `AnswersFindTheirCaller`,
  `SomebodyListens`.  `DInv` is
  `Types` (in four groups of variables), `Once` (each waiting call is with one
  `mid_dns` or in the task's hands, `told` counts its callbacks, and what the
  task holds agrees with where it is) and `Seats` (which slot a caller holds
  in which phase, and that a slot's serial number names the call that waits on
  it: this is what makes a stale place in the array harmless).  `Listens` goes
  with it: a socket outside the list is silent; between its look at the list
  and the end of `select` the task has a message for what comes into the list,
  or watches every socket that has or will have something to read; and while
  somebody is listed a timer runs, a message waits, or `lost` is set.
* **Tr069SessionProofs**: `TypeOK` (with `TInv`: `Linked`, where the socket and
  `retry_connect` are in each phase; `Marked`, the flags; `Ordered`, that what
  may still be ordered is in no queue, nor in the one a restart brings back), `NoRebootLoop` (inductive as it stands),
  `RecordsSurvive` (with `RInv`: whatever is recorded in memory and not on the
  disk is marked for saving), `LoadsSurvive` and `WorkIsAtTheHead` (with `QInv`:
  a load at work at the head was due, so no later order is inserted before it;
  what is queued in memory and not on the disk is marked for saving; what a
  restart reads back is exactly the legible part of what was stored, in its order:
  `Enumerable` shows that the places which are left can be put in order, by the smallest
  bound below which they could not, and `ReloadedFacts` what follows),
  `QuietHasACause` (with `SInv`, which follows `slighted` through the phases of
  a session and needs `QInv` for the head of the queue).

So every invariant and every action property that a passing run checks is a
theorem too.  Only model-checked are the liveness properties (fairness and
ENABLED are out of the prover's reach): `DueTimerServed`, `DueMessageServed`,
`WriterResumes`, `BlocksAreRead`, `UpgradeEnds`, `RequesterReleased`,
`EveryCallEnds`, `EventsAreHeard` and `LoadsAreReported`.  What each of them
waits for is proved to be there: `NoLostWakeup` (twice), `WaitsOnlyWhenFull`,
`NobodyForgets` and `EachBlockAdvances`, `SomebodyWorks`, `RequestIsQueued`,
`SomebodyListens`, and `QuietHasACause` for the last two.

## What is not modelled, and why

* Wrap-around of 32-bit times (497 days of `mid_10ms`, 49.7 days of message
  times): planned as a module of its own.
* Sends for an absolute time (`sendMessageAtTime`, `postAtTime`): only the delayed
  ones call them.  `mQuiting` (nothing sets it), `hasMessages` (changes nothing), reference
  counts of message objects.
* The log's filters: they copy a text, one after another, in the loop thread.
* Upgrade: the monitor's source (`m_force`), BootImages, the little system's
  `exit(0)`, progress messages.  The user answers a prompt once: pages that call
  `responseEvent` without having been asked are not modelled.  `g_burner` is
  tested and set in one step, since two burn threads never start together
  (`BurnsUndisturbed`).  A second download of a source that still has one
  stops the model as a fault, which `NoFault` excludes for software checks.
* DNS: building and parsing packets, the addresses in the cache and of the
  servers, `mid_dns_gethost_to`.
* TR-069: parameters and their notifications, objects, schedules, diagnostics,
  connection requests, STUN, and the HTTP and SOAP text.  Uploads are queued
  as downloads are.  The lengths of values: a load with a longer value than the
  parser takes is one that is not legible.
* Ordering of RTP packets (`RtpOrder`, `StrmBufOrder` in
  `module/play/stream`): the only caller is compiled out (`rtsp_recv.c:640`).
* Everything listed as `not_modelled` in `PROJECT.json`, with the reason.

## Plan

The runs are kept to a dozen, one per question; a new module's runs come in
by joining the questions of older ones, as `timer`, `message_loop` and `ring` do.

1. `MidSelect` (descriptor table and its loop), `MidQueue`, then the
   composition with MidTimer's pipe.
2. `StreamBuffer` (queue overflow, play cursors), `StreamAsync` and `strm_msgq`.
3. `MidTime`: 32-bit comparisons of timers and messages, checked with a small
   width.
4. `CpvrTasks`, `NetworkManager`.
5. Proofs: that of an open prompt only the answer does harm (`~Rival` weakened to:
   no prompt is answered while an image is received or burnt, nor one whose
   check a request has stopped).
