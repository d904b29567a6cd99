---------------------------- MODULE Tr069Session ----------------------------
(***************************************************************************)
(* The TR-069 agent (src/tr069/v2_src): one task that sleeps in            *)
(* int_task_wait, dials the server when it has something to report or a    *)
(* retry is due, sends an Inform, answers what the server sends until the  *)
(* server has nothing more, and saves what must survive a restart at the   *)
(* end of the session.                                                     *)
(*                                                                         *)
(* What is abstracted: time (a retry may come at any moment of an error    *)
(* state, a delayed load may fall due at any moment), the parameters and   *)
(* their notifications, object and global event names (alarm stands for a  *)
(* non-empty event_global), command keys, fault codes, and the numbers of  *)
(* retries above 6, which the code does not tell apart.  M_DOWNLOAD and    *)
(* M_UPLOAD are raised with TRANSFER_COMPLETE and are not told from it.    *)
(* Other threads' messages are read from the pipe when the task listens;   *)
(* none of them depends on the state it was written in, except the result  *)
(* of a load, which the platform reports while the load runs or, after a   *)
(* restart, before it activates the agent.                                 *)
(***************************************************************************)
EXTENDS Integers, Sequences, SequencesExt

CONSTANTS
    Loads,        \* downloads the server may order, told apart by their command key
    FileType,     \* the FileType of each, by which the platform's results name them
    Config,       \* those of "3 Vendor Configuration File", which the agent runs itself
    Legible,      \* those whose record on the disk has no space in any value
    Tries,        \* attempts on one server before the other is tried: 3
    Budgets       \* how often what the model bounds may happen: one of these is chosen at first

Budget == [backup : BOOLEAN,            \* URLBackup is set; never changes here
           loads : SUBSET Loads,        \* downloads that may still be ordered
           restarts : Nat,              \* power cycles that no download explains
           urls : Nat,                  \* changes of Device.ManagementServer.URL
           alarms : Nat,                \* extended events that other threads post
           resets : BOOLEAN]            \* the server orders reboots and factory resets

ASSUME Tr069Assumption ==
    /\ Config \subseteq Loads /\ Legible \subseteq Loads \ Config
    /\ DOMAIN FileType = Loads /\ "none" \notin {FileType[l] : l \in Loads}
    /\ Tries \in Nat \ {0}
    /\ Budgets \subseteq Budget

VARIABLES
    pc,           \* where tr069_task_loop is; while it dials, the server dialled
    state,        \* state
    sock,         \* sock_request is open
    rc,           \* retry_connect, 2 * Tries standing for more
    inform,       \* event_inform
    flags,        \* the events of event_array with userFlag
    alarm,        \* event_global is not empty
    bootstrap, reboot, sysReset, save,   \* bootstrap, rebootstate, sys_reset, save_flag
    queue,        \* loadQueue: command key and transferstate
    ndue,         \* how many loads of the queue, from its head, have a loadtime in the past
    armed,        \* a timer with int_load_ontime is queued
    disk,         \* what tr069_port_infoSave has stored
    owedLoads,    \* history: loads some ended session left, unacknowledged and not forgotten
    owedEvents,   \* history: events some ended session left recorded, no Inform answered since
    slighted,     \* history: the server has left out an answer since event_array was last answered
    commanded,    \* history: the server has ordered a reboot since the agent started
    budget

link == <<state, sock, rc>>
events == <<inform, flags, alarm>>
record == <<bootstrap, reboot, sysReset, save>>
loads == <<queue, ndue, armed>>
history == <<owedLoads, owedEvents, slighted, commanded>>
vars == <<pc, link, events, record, loads, disk, history, budget>>

Events == {"BOOT", "BOOTSTRAP", "TRANSFER_COMPLETE", "M_REBOOT", "PERIODIC"}
Servers == {"main", "backup"}
InSession == {"posted", "transfer", "open"}

Ids(q) == {q[i].id : i \in DOMAIN q}
HeadIs(q, st) == q # <<>> /\ q[1].st = st
HeadAs(q, st) == [q EXCEPT ![1].st = st]

Stored(b, r, q) == [bootstrap |-> b, reboot |-> r, queue |-> q]
Recorded(b, r) ==
    (IF b THEN {} ELSE {"BOOTSTRAP"}) \cup (IF r = "null" THEN {} ELSE {"M_REBOOT"})

Init ==
    /\ pc = "wait" /\ state = "suspend" /\ sock = FALSE /\ rc = -1
    /\ inform = "none" /\ flags = {} /\ alarm = FALSE
    /\ bootstrap = FALSE /\ reboot = "null" /\ sysReset = FALSE /\ save = FALSE
    /\ queue = <<>> /\ ndue = 0 /\ armed = FALSE
    /\ disk = Stored(FALSE, "null", <<>>)
    /\ owedLoads = {} /\ owedEvents = {"BOOTSTRAP"} /\ slighted = FALSE /\ commanded = FALSE
    /\ budget \in Budgets

\* tr069_event_inset of ordinary codes
Inset(codes) ==
    /\ flags' = flags \cup codes
    /\ inform' = IF inform = "none" THEN "valid" ELSE inform

-----------------------------------------------------------------------------
(* Messages and timers, in int_task_wait.                                  *)

Pending == alarm \/ inform # "none" \/ ~bootstrap

\* select is reached: an active agent with something to report returns before it
Listening == pc = "wait" /\ ~(state = "active" /\ Pending)

\* every pass of the loop first deals with the timers that are due
Dealt == state = "suspend" \/ ~armed \/ ndue = 0

Activate ==
    /\ Listening /\ ~sock
    /\ sock' = TRUE /\ state' = "active" /\ rc' = 0
    /\ Inset({"BOOT"})
    /\ armed' = (armed \/ HeadIs(queue, "init"))
    /\ UNCHANGED <<pc, alarm, record, queue, ndue, disk, history, budget>>

SuspendKeepingSocket ==
    /\ Listening /\ Dealt /\ state # "suspend"
    /\ state' = "suspend"
    /\ UNCHANGED <<pc, sock, rc, events, record, loads, disk, history, budget>>

Suspend ==
    /\ Listening /\ Dealt /\ state # "suspend"
    /\ sock' = FALSE /\ state' = "suspend"
    /\ UNCHANGED <<pc, rc, events, record, loads, disk, history, budget>>

\* EVENTCODE_X_EXTEND, whatever the state
PostEvent ==
    /\ Listening /\ ~alarm
    /\ budget.alarms > 0 /\ budget' = [budget EXCEPT !.alarms = @ - 1]
    /\ alarm' = TRUE
    /\ UNCHANGED <<pc, link, inform, flags, record, loads, disk, history>>

Periodic ==
    /\ pc = "wait" /\ state # "suspend"
    /\ Inset({"PERIODIC"})
    /\ UNCHANGED <<pc, link, alarm, record, loads, disk, history, budget>>

\* another thread gives the main server another address, at any moment
SetUrl ==
    /\ budget.urls > 0 /\ budget' = [budget EXCEPT !.urls = @ - 1]
    /\ bootstrap' = FALSE /\ save' = TRUE /\ rc' = 0
    /\ UNCHANGED <<pc, state, sock, events, reboot, sysReset, loads, disk, history>>

LoadDue ==
    /\ ndue < Len(queue)
    /\ ndue' = ndue + 1
    /\ UNCHANGED <<pc, link, events, record, queue, armed, disk, history, budget>>

\* a configuration file is transferred on the spot, anything else is left to the platform
LoadOntime ==
    /\ pc = "wait" /\ state # "suspend" /\ armed /\ ndue > 0
    /\ armed' = FALSE
    /\ \/ /\ HeadIs(queue, "init") /\ queue[1].id \in Config
          /\ queue' = HeadAs(queue, "complete") /\ Inset({"TRANSFER_COMPLETE"})
       \/ /\ HeadIs(queue, "init") /\ queue[1].id \notin Config
          /\ queue' = HeadAs(queue, "start") /\ UNCHANGED <<inform, flags>>
       \/ /\ HeadIs(queue, "complete")
          /\ Inset({"TRANSFER_COMPLETE"}) /\ UNCHANGED queue
       \/ /\ HeadIs(queue, "start")
          /\ UNCHANGED <<queue, inform, flags>>
    /\ UNCHANGED <<pc, link, alarm, record, ndue, disk, history, budget>>

\* int_load: the platform has ended the load it was given, and the agent goes on running
LoadEnded ==
    /\ Listening /\ HeadIs(queue, "start")
    /\ queue' = HeadAs(queue, "complete") /\ Inset({"TRANSFER_COMPLETE"})
    /\ disk' = Stored(bootstrap, reboot, queue') /\ save' = FALSE
    /\ UNCHANGED <<pc, link, alarm, bootstrap, reboot, sysReset, ndue, armed, history, budget>>

-----------------------------------------------------------------------------
(* The session.                                                            *)

More(r) == IF r < 2 * Tries THEN r + 1 ELSE r

ChosenOnward == rc

\* retry_connect as int_http_connect corrects it before it chooses an address
Chosen == IF budget.backup /\ (rc < 0 \/ rc >= 2 * Tries) THEN 0 ELSE rc

\* int_task_wait returns and int_http_connect begins
Dial ==
    /\ pc = "wait" /\ Dealt
    /\ \/ state = "active" /\ Pending
       \/ state \in {"connect_error", "parse_error"}
    /\ IF state = "active" /\ ~bootstrap THEN Inset({"BOOTSTRAP"}) ELSE UNCHANGED <<inform, flags>>
    /\ \/ Chosen < Tries /\ pc' = "main" /\ rc' = Chosen /\ UNCHANGED state
       \/ Chosen >= Tries /\ budget.backup /\ pc' = "backup" /\ rc' = Chosen /\ UNCHANGED state
       \/ Chosen >= Tries /\ ~budget.backup /\ pc' = pc /\ rc' = More(Chosen) /\ state' = "connect_error"
    /\ UNCHANGED <<sock, alarm, record, loads, disk, history, budget>>

Unreachable ==
    /\ pc \in Servers
    /\ pc' = "wait" /\ rc' = More(rc) /\ state' = "connect_error"
    /\ UNCHANGED <<sock, events, record, loads, disk, history, budget>>

\* retry_connect after a connection: the server that answered is kept
Settled == IF rc >= Tries THEN Tries ELSE 0

\* int_http_connect succeeds and the Inform is built: of event_global if it is not empty
Connected(server) ==
    /\ pc = server
    /\ pc' = "posted"
    /\ IF state = "connect_error" THEN state' = "active" /\ rc' = Settled ELSE UNCHANGED <<state, rc>>
    /\ inform' = IF alarm THEN inform ELSE "posting"
    /\ save' = (save \/ ~bootstrap)
    /\ UNCHANGED <<sock, flags, alarm, bootstrap, reboot, sysReset, loads, disk, history, budget>>

SayNothing(q) == "open"

\* tr069_c2s_default
Say(q) == IF HeadIs(q, "complete") THEN "transfer" ELSE "open"

InformResponse ==
    /\ pc = "posted"
    /\ bootstrap' = TRUE /\ reboot' = "null"
    /\ save' = (save \/ ~bootstrap \/ reboot # "null")
    /\ IF alarm
       THEN alarm' = FALSE /\ UNCHANGED <<inform, flags, slighted>>
       ELSE flags' = {} /\ inform' = "none" /\ slighted' = FALSE /\ UNCHANGED alarm
    /\ pc' = Say(queue)
    /\ owedEvents' = {}
    /\ UNCHANGED <<link, sysReset, loads, disk, owedLoads, commanded, budget>>

TransferCompleteResponseTimeless ==
    /\ pc = "transfer"
    /\ queue' = Tail(queue) /\ ndue' = ndue - 1
    /\ pc' = Say(Tail(queue))
    /\ owedLoads' = owedLoads \ {queue[1].id}
    /\ UNCHANGED <<link, events, record, armed, disk, owedEvents, slighted, commanded, budget>>

\* the head goes, and the change is not marked for saving
TransferCompleteResponse ==
    /\ pc = "transfer"
    /\ queue' = Tail(queue) /\ ndue' = ndue - 1
    /\ armed' = (armed \/ HeadIs(Tail(queue), "init"))
    /\ pc' = Say(Tail(queue))
    /\ owedLoads' = owedLoads \ {queue[1].id}
    /\ UNCHANGED <<link, events, record, disk, owedEvents, slighted, commanded, budget>>

\* a Fault instead: the agent has nothing to add
TransferRefused ==
    /\ pc = "transfer"
    /\ pc' = "open" /\ slighted' = TRUE
    /\ UNCHANGED <<link, events, record, loads, disk, owedLoads, owedEvents, commanded, budget>>

PlaceBeforeEqual(delayed) == IF delayed THEN ndue .. Len(queue) ELSE 0 .. ndue

\* a load goes before the first one with a later loadtime
Place(delayed) == IF delayed THEN ndue .. Len(queue) ELSE {ndue}

Download(l, delayed) ==
    /\ pc = "open" /\ l \in budget.loads
    /\ budget' = [budget EXCEPT !.loads = @ \ {l}]
    /\ \E p \in Place(delayed) : queue' = InsertAt(queue, p + 1, [id |-> l, st |-> "init"])
    /\ ndue' = IF delayed THEN ndue ELSE ndue + 1
    /\ armed' = (armed \/ HeadIs(queue', "init"))
    /\ save' = TRUE
    /\ UNCHANGED <<pc, link, events, bootstrap, reboot, sysReset, disk, history>>

Reboot ==
    /\ pc = "open" /\ budget.resets
    /\ reboot' = "start" /\ save' = TRUE /\ commanded' = TRUE
    /\ UNCHANGED <<pc, link, events, bootstrap, sysReset, loads, disk,
                   owedLoads, owedEvents, slighted, budget>>

FactoryReset ==
    /\ pc = "open" /\ budget.resets
    /\ sysReset' = TRUE
    /\ UNCHANGED <<pc, link, events, bootstrap, reboot, save, loads, disk, history, budget>>

\* the state int_parse_loop leaves, by its result
Left(ok) == IF state = "suspend" THEN state ELSE IF ok THEN "active" ELSE "parse_error"

\* the server answers with nothing, to an Inform or TransferComplete too
Empty ==
    /\ pc \in InSession
    /\ pc' = "tail"
    /\ inform' = IF inform = "posting" THEN "none" ELSE inform
    /\ state' = Left(bootstrap)
    /\ slighted' = (slighted \/ inform = "posting" \/ pc = "transfer")
    /\ UNCHANGED <<sock, rc, flags, alarm, record, loads, disk, owedLoads, owedEvents, commanded, budget>>

\* the transfer fails or what comes cannot be parsed
Broken ==
    /\ pc \in InSession
    /\ pc' = "tail"
    /\ state' = Left(FALSE)
    /\ UNCHANGED <<sock, rc, events, record, loads, disk, history, budget>>

\* what is on the disk after int_task_tail
Saves ==
    IF sysReset THEN Stored(FALSE, reboot, queue)
    ELSE IF save THEN Stored(bootstrap, reboot, queue)
    ELSE disk

TaskTail ==
    /\ pc = "tail"
    /\ pc' = "wait"
    /\ bootstrap' = (bootstrap /\ ~sysReset)
    /\ sysReset' = FALSE /\ save' = FALSE
    /\ disk' = Saves
    /\ owedLoads' = Ids(queue)
    /\ owedEvents' = owedEvents \cup Recorded(bootstrap', reboot)
    /\ UNCHANGED <<link, events, reboot, loads, slighted, commanded, budget>>

-----------------------------------------------------------------------------
(* Restarts.                                                               *)

ReadableIdle == {i \in DOMAIN disk.queue : disk.queue[i].id \in Legible /\ disk.queue[i].st # "start"}

\* tr069_config_elem ends a value at a space and finds no "=" behind the next word: the whole
\* record is dropped
Readable == {i \in DOMAIN disk.queue : disk.queue[i].id \in Legible}

\* the places of the records that are left, in the order of the file
InOrder(f) ==
    /\ \A i, j \in DOMAIN f : i < j => f[i] < f[j]
    /\ \A p \in Readable : \E i \in DOMAIN f : f[i] = p
Places == CHOOSE f \in SeqOf(Readable, Len(disk.queue)) : InOrder(f)

\* tr069_config_load: a load that was running is to be run again
Reloaded ==
    [i \in DOMAIN Places |->
        [disk.queue[Places[i]] EXCEPT !.st = IF @ = "start" THEN "init" ELSE @]]

ResumedAsSaved == disk.reboot
ResumedNever == "null"

\* the rebootstate that tr069_struct_create leaves
Resumed == IF disk.reboot = "null" THEN "null" ELSE "complete"

\* The platform reports, as it starts, how a load of this type ended: the head is compared.
Matched(type) == Reloaded # <<>> /\ FileType[Reloaded[1].id] = type
Reported(type) == IF Matched(type) THEN HeadAs(Reloaded, "complete") ELSE Reloaded

\* type: the file type of the platform's report, "none" if it has nothing to report
Restart(type) ==
    /\ pc' = "wait" /\ state' = "suspend" /\ sock' = FALSE /\ rc' = -1
    /\ alarm' = FALSE
    /\ flags' = (IF Resumed = "null" THEN {} ELSE {"M_REBOOT"})
                \cup (IF HeadIs(Reported(type), "complete") THEN {"TRANSFER_COMPLETE"} ELSE {})
    /\ inform' = IF flags' = {} THEN "none" ELSE "valid"
    /\ bootstrap' = disk.bootstrap /\ reboot' = Resumed /\ sysReset' = FALSE /\ save' = FALSE
    /\ queue' = Reported(type) /\ ndue' = Len(queue') /\ armed' = FALSE
    /\ disk' = IF Matched(type) THEN Stored(bootstrap', reboot', queue') ELSE disk
    /\ slighted' = FALSE /\ commanded' = FALSE
    /\ owedLoads' = owedLoads \cap Legible
    /\ UNCHANGED owedEvents

Types == {FileType[l] : l \in Loads \ Config}

\* power fails, or the box restarts for a reason of its own
PowerCycle ==
    /\ budget.restarts > 0 /\ budget' = [budget EXCEPT !.restarts = @ - 1]
    /\ \E type \in Types \cup {"none"} : Restart(type)

\* the platform has done what it was asked, and restarts to use it
Upgraded ==
    /\ HeadIs(queue, "start")
    /\ Restart(FileType[queue[1].id])
    /\ UNCHANGED budget

Next ==
    \/ Activate \/ Suspend \/ PostEvent \/ Periodic \/ SetUrl
    \/ LoadDue \/ LoadOntime \/ LoadEnded
    \/ Dial \/ Unreachable \/ \E server \in Servers : Connected(server)
    \/ InformResponse \/ TransferCompleteResponse \/ TransferRefused
    \/ \E l \in Loads, delayed \in BOOLEAN : Download(l, delayed)
    \/ Reboot \/ FactoryReset \/ Empty \/ Broken \/ TaskTail
    \/ PowerCycle \/ Upgraded

Spec == Init /\ [][Next]_vars

\* The task goes on, timers come due, the application activates its agent and does the
\* upgrades; the main server can be reached again and again, and again and again a server
\* gives the answer it owes.
FairSpec ==
    /\ Spec
    /\ WF_vars(Activate) /\ WF_vars(LoadDue) /\ SF_vars(LoadOntime) /\ WF_vars(Upgraded)
    /\ WF_vars(Dial) /\ WF_vars(Unreachable) /\ SF_vars(Connected("main"))
    /\ SF_vars(InformResponse) /\ SF_vars(TransferCompleteResponse)
    /\ WF_vars(Empty) /\ WF_vars(TaskTail)

-----------------------------------------------------------------------------
(* Properties.                                                             *)

\* Types; an agent is suspended exactly while its request socket is closed and never in a
\* session; a load is queued once.
TypeOK ==
    /\ pc \in {"wait", "tail"} \cup Servers \cup InSession
    /\ state \in {"suspend", "active", "connect_error", "parse_error"}
    /\ sock = (state # "suspend") /\ (pc # "wait" => sock)
    /\ rc \in -1 .. 2 * Tries /\ (sock => rc >= 0)
    /\ inform \in {"none", "valid", "posting"} /\ flags \subseteq Events
    /\ {alarm, bootstrap, sysReset, save, armed, slighted, commanded} \subseteq BOOLEAN
    /\ {reboot, disk.reboot} \subseteq {"null", "start", "complete"} /\ disk.bootstrap \in BOOLEAN
    /\ \A q \in {queue, disk.queue} :
          /\ q \in Seq([id : Loads, st : {"init", "start", "complete"}])
          /\ \A i, j \in DOMAIN q : q[i].id = q[j].id => i = j
    /\ ndue \in 0 .. Len(queue)
    /\ owedLoads \subseteq Loads /\ owedEvents \subseteq {"BOOTSTRAP", "M_REBOOT"}
    /\ budget \in Budget

\* int_load, int_load_ontime and tr069_c2s_default look at the head of loadQueue only: no
\* other load may be running or finished, in memory or after a restart, whatever is ordered
\* with whatever delay.
WorkIsAtTheHead ==
    \A q \in {queue, disk.queue} : \A i \in DOMAIN q : i > 1 => q[i].st = "init"

\* A download that was accepted in a session that has ended stays queued, in memory and on the
\* disk, until the server has acknowledged its TransferComplete.  A restart forgets those whose
\* record cannot be read back (every FileType of the standard has spaces), and no others.
LoadsSurvive == owedLoads \subseteq Ids(queue) \cap Ids(disk.queue)

\* A first contact or a reboot that a session left to be announced stays recorded, through
\* power cycles too, until the server has answered an Inform.
RecordsSurvive ==
    owedEvents \subseteq Recorded(bootstrap, reboot) \cap Recorded(disk.bootstrap, disk.reboot)

\* A reboot order reboots the box once: after the restart the agent does not find the order
\* still standing, which int_task_tail would carry out again after every session.
NoRebootLoop == reboot = "start" => commanded

\* the agent sleeps although it has something to tell
Quiet ==
    /\ pc = "wait" /\ state = "active" /\ ~Pending
    /\ flags # {} \/ HeadIs(queue, "complete")

\* The agent sleeps on untold events or a finished load only if, since its ordinary events were
\* last answered for, the server ended a session while an Inform was still marked as under
\* way (it may have been an earlier session's) or refused or passed over a TransferComplete.
QuietHasACause == Quiet => slighted

\* without a backup address, Tries failures leave no address to dial until URL is changed or
\* the agent is suspended and activated
Mute == ~budget.backup /\ rc >= Tries

\* Every event of an agent that is active is told to the server, over the main server or the
\* backup one, unless the agent falls quiet or mute or forgets the event in a restart.
EventsAreHeard == \A e \in Events : (e \in flags) ~> (e \notin flags \/ Quiet \/ Mute)

\* A restart has brought a load back that the server had acknowledged: the acknowledgement
\* was not saved.
Revived == pc = "wait" /\ ~(Ids(queue) \subseteq owedLoads)

\* Every download the server has ordered is run, and its end reported and acknowledged, unless
\* a restart forgets it (never one that is legible), the agent falls quiet or mute, or an
\* acknowledged load comes back: at the head it makes the result of another be rejected.
LoadsAreReported ==
    \A l \in Loads : (l \in owedLoads) ~> (l \notin owedLoads \/ Quiet \/ Mute \/ Revived)

=============================================================================
