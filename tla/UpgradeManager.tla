--------------------------- MODULE UpgradeManager ---------------------------
(***************************************************************************)
(* src/middleware/src/app/Upgrade: checkers ask servers for new versions,  *)
(* a receiver lets a data source download an image into a file, a burner   *)
(* thread writes the file to flash, and the UpgradeManager goes from one   *)
(* to the next on messages of the loop thread.  Downloads run in the http  *)
(* thread (one at a time) or in a thread of their own (USB disk), burns in *)
(* threads of their own, upgrade requests in the thread of the USB         *)
(* detector, which waits until its request has been answered.              *)
(*                                                                         *)
(* Versions are abstracted to the set of contents a source has to offer    *)
(* that are new, images and progress messages to nothing.                  *)
(***************************************************************************)
EXTENDS Naturals, Sequences, FiniteSets

CONSTANTS
    Types,      \* the checkers: "soft" (UMUT_IP_SOFTWARE), "tmpl" (UMUT_IP_TEMPLATE)
    MixMode,    \* upgradeMode = MIX_UPGRADE_MODE
    AutoTimer,  \* HUAWEI_C20: a prompt starts a 15 s timer
    Budget      \* bound: checks and requests started from outside

ASSUME UpgradeConstants ==
    /\ Types \subseteq {"soft", "tmpl"}
    /\ MixMode \in BOOLEAN /\ AutoTimer \in BOOLEAN
    /\ Budget \in Nat

Sources == Types \cup {"disk"}
Contents == {"software", "logo", "setting"}
NoReceiver == [src |-> "none", state |-> "none"]

VARIABLES
    m_state, m_source, m_burner,
    checkers,   \* m_checkerArray
    check,      \* the state of each checker; "idle": it has no source
    asked,      \* checkers whose answer is still on its way from the server
    prompted,   \* checkers the user has been asked about and has not answered
    offers,     \* what each source has that is new
    content,    \* m_currentContent of each source
    receiver,   \* m_receiver; its m_state is "unset" until it has ended
    sink,       \* m_dataSink of each source is the receiver, not NULL
    transfer,   \* where the download of each source is
    thread,     \* the burners made so far and their threads
    g_burner,
    msgs,       \* messages to the manager and the receiver, in order
    later,      \* delayed messages to the manager
    requester,  \* the thread in startMonitorORUdiskUpgrade
    budget,
    stuck,      \* history: why what goes on gets no further
    fault       \* a NULL or deleted object has been used

manager == <<m_state, m_source, m_burner, checkers, check, prompted>>
sources == <<offers, content>>
receiving == <<receiver, sink, transfer>>
burning == <<thread, g_burner>>
outside == <<asked, requester, budget>>
vars == <<manager, sources, receiving, burning, msgs, later, outside, stuck, fault>>

-----------------------------------------------------------------------------
Init ==
    /\ m_state = "idle" /\ m_source = "none" /\ m_burner = 0
    /\ checkers = <<>> /\ check = [t \in Types |-> "none"] /\ asked = {} /\ prompted = {}
    /\ offers = [s \in Sources |-> {}] /\ content = [s \in Sources |-> "none"]
    /\ receiver = NoReceiver
    /\ sink = [s \in Sources |-> FALSE] /\ transfer = [s \in Sources |-> "none"]
    /\ thread = <<>> /\ g_burner = 0
    /\ msgs = <<>> /\ later = [k \in {"receive_end", "auto_upgrade"} |-> 0]
    /\ requester = "idle" /\ budget = Budget
    /\ stuck = {} /\ fault = "none"

\* removeMessages: what is left of q without its elements in gone.
Without(q, gone) ==
    LET kept[i \in 0 .. Len(q)] ==
          IF i = 0 THEN <<>> ELSE IF q[i] \in gone THEN kept[i - 1] ELSE Append(kept[i - 1], q[i])
    IN  kept[Len(q)]

\* compareVersion: the first of the new contents is the one to start with.
First(o) ==
    IF "software" \in o THEN "software" ELSE IF "logo" \in o THEN "logo" ELSE "setting"

\* ~UpgradeReceiver: its messages go, the source forgets it, and a download
\* thread that has just read m_dataSink holds a pointer to nothing.
Purged(q) == Without(q, {"recv_end", "recv_error"})
Detached == [s \in Sources |-> sink[s] /\ s # receiver.src]
Cut == [s \in Sources |->
          IF s = receiver.src /\ transfer[s] \in {"data", "end", "error"} THEN "stale" ELSE transfer[s]]

\* startReceive, with q the messages that are left; false while burning.  What
\* the data source's start returns is not looked at: an http request that is not
\* registered (its URL is too long or cannot be parsed, or the resolver takes no
\* call) is never answered.
\* A second download of a source that still has one is as far as the model goes.
Http == Types
Startable == m_state # "burn"
StartReceiveUnguarded(s, q) ==   \* mutant: the state not looked at
    /\ receiver' = [src |-> s, state |-> "unset"]
    /\ sink' = [Detached EXCEPT ![s] = TRUE]
    /\ \/ transfer' = [Cut EXCEPT ![s] = "queued"] /\ stuck' = {}
       \/ s \in Http /\ transfer' = [Cut EXCEPT ![s] = "none"] /\ stuck' = {"unregistered"}
    /\ fault' = IF transfer[s] = "none" THEN fault ELSE "twice"
    /\ msgs' = Purged(q)
StartReceive(s, q) ==
    IF Startable
    THEN StartReceiveUnguarded(s, q)
    ELSE msgs' = q /\ stuck' = stuck \cup {"refused"} /\ UNCHANGED <<receiving, fault>>

\* onDestroy.  The loop over m_checkerArray, for (it = end() - 1; it == begin();
\* it--), reaches a checker only if it is the only one.
Doomed(chk) == {t \in Types : checkers = <<t>> /\ chk[t] = "finish"}
OnDestroy(q, chk) ==
    /\ m_state' = "idle" /\ m_source' = "none" /\ m_burner' = 0
    /\ receiver' = NoReceiver /\ sink' = Detached /\ transfer' = Cut
    /\ msgs' = Purged(q) /\ stuck' = {}
    /\ checkers' = Without(checkers, Doomed(chk))
    /\ check' = [t \in Types |-> IF t \in Doomed(chk) THEN "none" ELSE chk[t]]

NeverFound(t) == FALSE   \* mutant
findChecker(t) == \E i \in DOMAIN checkers : checkers[i] = t

Crash(f) ==
    /\ fault' = f
    /\ UNCHANGED <<manager, sources, receiving, burning, msgs, later, outside, stuck>>

\* burnerEnded looks into m_source whether there is one or not.
BurnerEnded(q) ==
    IF m_source = "none"
    THEN Crash("null")
    ELSE /\ OnDestroy(q, check)
         /\ UNCHANGED <<prompted, sources, burning, later, outside, fault>>

-----------------------------------------------------------------------------
(* What comes from outside the loop thread. *)

\* touchOffUpgradeCheck.  The template's checker knows at once what there is.
Touch(t) ==
    /\ budget > 0 /\ m_state \in {"idle", "check"}
    /\ ~findChecker(t)
    /\ budget' = budget - 1
    /\ checkers' = Append(checkers, t) /\ m_state' = "check"
    /\ IF t = "soft"
       THEN /\ check' = [check EXCEPT ![t] = "working"] /\ asked' = asked \cup {t}
            /\ UNCHANGED <<msgs, sources>>
       ELSE /\ \E r \in {"ok", "error"} : check' = [check EXCEPT ![t] = r]
            /\ \E o \in {{}, {"software"}} : offers' = [offers EXCEPT ![t] = o]
            /\ content' = [content EXCEPT ![t] = "software"]
            /\ msgs' = Append(msgs, "check_end") /\ UNCHANGED asked
    /\ UNCHANGED <<m_source, m_burner, prompted, receiving, burning, later, requester, stuck, fault>>

\* The server's answer: a configuration that is parsed into the checker's
\* source, an error, or, from an address nobody may ask, nothing.
CheckAnswer(t) ==
    /\ t \in asked /\ asked' = asked \ {t}
    /\ \/ /\ check[t] = "idle" /\ fault' = "stopped"
          /\ UNCHANGED <<check, offers, msgs, stuck>>
       \/ /\ check[t] # "idle"
          /\ check' = [check EXCEPT ![t] = "ok"]
          /\ \E o \in SUBSET Contents : offers' = [offers EXCEPT ![t] = o]
          /\ msgs' = Append(msgs, "check_end") /\ UNCHANGED <<stuck, fault>>
       \/ /\ check' = [check EXCEPT ![t] = "error"]
          /\ msgs' = Append(msgs, "check_end") /\ UNCHANGED <<offers, stuck, fault>>
       \/ /\ stuck' = stuck \cup {"check"} /\ UNCHANGED <<check, offers, msgs, fault>>
    /\ UNCHANGED <<m_state, m_source, m_burner, checkers, prompted, content, receiving, burning,
                   later, requester, budget>>

\* startMonitorORUdiskUpgrade for a USB disk, whose source is the same every
\* time and is looked at only while no content has been chosen for it.
Request ==
    /\ budget > 0 /\ requester = "idle"
    /\ budget' = budget - 1 /\ requester' = "wait"
    /\ \E o \in SUBSET Contents \ {{}} :
         /\ offers' = [offers EXCEPT !["disk"] = o]
         /\ content' = [content EXCEPT !["disk"] = IF @ = "none" THEN First(o) ELSE @]
    /\ msgs' = Append(msgs, "request")
    /\ UNCHANGED <<manager, receiving, burning, later, asked, stuck, fault>>

\* responseEvent, from the dialog or from a page, in the loop thread.
Respond(t, yes, q) ==
    IF ~findChecker(t)
    THEN msgs' = q /\ UNCHANGED <<m_state, m_source, m_burner, checkers, check, receiving, stuck, fault>>
    ELSE IF yes
    THEN IF check[t] = "idle"
         THEN /\ fault' = "null" /\ msgs' = q
              /\ UNCHANGED <<m_state, m_source, m_burner, checkers, check, receiving, stuck>>
         ELSE /\ check' = [check EXCEPT ![t] = "finish"]
              /\ m_source' = t /\ m_state' = "receive"
              /\ StartReceive(t, q)
              /\ UNCHANGED <<m_burner, checkers>>
    ELSE OnDestroy(q, [check EXCEPT ![t] = "finish"]) /\ UNCHANGED fault

\* The user answers a question once.
Answer(t, yes) ==
    /\ t \in prompted /\ prompted' = prompted \ {t}
    /\ later' = [later EXCEPT !.auto_upgrade = 0]
    /\ Respond(t, yes, Without(msgs, {"auto_upgrade"}))
    /\ UNCHANGED <<sources, burning, outside>>

Due(k) ==
    /\ later[k] > 0
    /\ later' = [later EXCEPT ![k] = @ - 1] /\ msgs' = Append(msgs, k)
    /\ UNCHANGED <<manager, sources, receiving, burning, outside, stuck, fault>>

-----------------------------------------------------------------------------
(* Downloads: "queued", "running", in a call of the sink whose pointer has
   been read ("data", "end", "error", or "stale" if it has been deleted since). *)

Busy(s) == transfer[s] \notin {"none", "queued"}

TransferUnchanged == UNCHANGED <<manager, sources, receiver, sink, burning, later, outside>>

TransferBegin(s) ==
    /\ transfer[s] = "queued" /\ (s \in Http => \A h \in Http : ~Busy(h))
    /\ transfer' = [transfer EXCEPT ![s] = "running"]
    /\ TransferUnchanged /\ UNCHANGED <<msgs, stuck, fault>>

\* The disk has gone: readFileStream returns, or reads errors for ever.
TransferLost ==
    /\ transfer["disk"] \in {"queued", "running"}
    /\ transfer' = [transfer EXCEPT !["disk"] = "none"] /\ stuck' = stuck \cup {"lost"}
    /\ TransferUnchanged /\ UNCHANGED <<msgs, fault>>

Arrive(s) ==
    /\ transfer[s] = "running" /\ sink[s]
    /\ transfer' = [transfer EXCEPT ![s] = "data"]
    /\ TransferUnchanged /\ UNCHANGED <<msgs, stuck, fault>>

\* HttpDataSource reports its end without looking for a sink.
Finish(s, r) ==
    /\ transfer[s] = "running" /\ (s = "disk" => r = "end")
    /\ transfer' = [transfer EXCEPT ![s] = IF sink[s] THEN r ELSE "none"]
    /\ fault' = IF ~sink[s] /\ s \in Http THEN "null" ELSE fault
    /\ TransferUnchanged /\ UNCHANGED <<msgs, stuck>>

Call(s) ==
    /\ transfer[s] \in {"data", "end", "error", "stale"}
    /\ transfer' = [transfer EXCEPT ![s] = IF @ = "data" THEN "running" ELSE "none"]
    /\ msgs' = CASE transfer[s] = "end" -> Append(msgs, "recv_end")
                 [] transfer[s] = "error" -> Append(msgs, "recv_error")
                 [] OTHER -> msgs
    /\ fault' = IF transfer[s] = "stale" THEN "dead" ELSE fault
    /\ TransferUnchanged /\ UNCHANGED stuck

Transfer(s) ==
    TransferBegin(s) \/ Arrive(s) \/ (\E r \in {"end", "error"} : Finish(s, r)) \/ Call(s)

-----------------------------------------------------------------------------
(* The loop thread: handleMessage of the manager and of the receiver. *)

Pop(m) == msgs # <<>> /\ Head(msgs) = m
Rest == Tail(msgs)
EarlyUnlessReceiving == m_state # "receive"   \* mutant: only a download counts
Early == m_state \in {"idle", "check"}
Ready == {i \in DOMAIN checkers : check[checkers[i]] \in {"ok", "error"}}
FirstReady == checkers[CHOOSE i \in Ready : \A j \in Ready : i <= j]

\* The template's checker always asks the user, the other one if it was
\* started by TR-069 or by a page.
Report(t, chk) ==
    \/ /\ t = "soft"
       /\ m_source' = t /\ m_state' = "receive" /\ check' = chk
       /\ content' = [content EXCEPT ![t] = First(offers[t])]
       /\ StartReceive(t, Rest)
       /\ UNCHANGED <<m_burner, checkers, prompted, offers, burning, later, outside>>
    \/ /\ m_state' = "wait" /\ check' = [check EXCEPT ![t] = "selected"]
       /\ content' = [content EXCEPT ![t] = First(offers[t])]
       /\ prompted' = prompted \cup {t} /\ msgs' = Rest
       /\ later' = [later EXCEPT !.auto_upgrade = IF AutoTimer /\ t = "soft" THEN @ + 1 ELSE @]
       /\ UNCHANGED <<m_source, m_burner, checkers, offers, receiving, burning, outside, stuck, fault>>

\* onCheckEnd and reportEvent.
Dismiss(t, chk) ==   \* nothing new, or no answer: over, if this is all there is
    IF Early
    THEN /\ OnDestroy(Rest, chk)
         /\ UNCHANGED <<prompted, sources, burning, later, outside, fault>>
    ELSE /\ msgs' = Rest /\ check' = IF check[t] = "error" THEN chk ELSE check
         /\ UNCHANGED <<m_state, m_source, m_burner, checkers, prompted, sources, receiving, burning,
                        later, outside, stuck, fault>>
CheckEndEager(t, chk) ==   \* mutant: checks are reported while receiving
    IF check[t] = "error" \/ offers[t] = {} THEN Dismiss(t, chk) ELSE Report(t, chk)
Judge(t, chk) ==
    IF m_state \in {"receive", "burn"}
    THEN /\ check' = chk /\ msgs' = Rest
         /\ UNCHANGED <<m_state, m_source, m_burner, checkers, prompted, sources, receiving, burning,
                        later, outside, stuck, fault>>
    ELSE CheckEndEager(t, chk)
CheckEnd ==
    /\ Pop("check_end")
    /\ IF MixMode /\ m_state \notin {"receive", "burn"}
       THEN Crash("null")   \* reportEvent(NULL)
       ELSE IF MixMode \/ Ready = {}
       THEN /\ msgs' = Rest
            /\ UNCHANGED <<manager, sources, receiving, burning, later, outside, stuck, fault>>
       ELSE Judge(FirstReady, [check EXCEPT ![FirstReady] = "finish"])

\* receiveEnd and receiveError of the receiver; an error is reported later.
ReceiverEnd ==
    /\ \/ /\ Pop("recv_end")
          /\ receiver' = [receiver EXCEPT !.state = "ok"]
          /\ msgs' = Append(Rest, "receive_end") /\ UNCHANGED later
       \/ /\ Pop("recv_error")
          /\ receiver' = [receiver EXCEPT !.state = "error"]
          /\ later' = [later EXCEPT !.receive_end = @ + 1] /\ msgs' = Rest
    /\ UNCHANGED <<manager, sources, sink, transfer, burning, outside, stuck, fault>>

\* The receiver's m_state is read uninitialised until it has ended.
ReadsOk(ok) == receiver.state \in {"ok", "error"} => (ok <=> receiver.state = "ok")
\* Whether the burner's thread could be created ("start") is not looked at.
StartBurner ==
    /\ \E at \in {"start", "done"} :
         /\ thread' = Append(thread, [tmpl |-> m_source = "tmpl", at |-> at, ok |-> FALSE])
         /\ stuck' = IF at = "start" THEN stuck ELSE stuck \cup {"unborn"}
    /\ m_burner' = Len(thread) + 1 /\ m_state' = "burn" /\ msgs' = Rest
    /\ UNCHANGED <<m_source, checkers, check, prompted, sources, receiving, g_burner, later, outside, fault>>
ReceiveEnd ==
    /\ Pop("receive_end")
    /\ IF m_state = "receive" /\ receiver = NoReceiver
       THEN Crash("null")
       ELSE \E ok \in BOOLEAN :
              /\ ReadsOk(ok)
              /\ IF m_state # "receive" \/ ~ok \/ m_source = "none" THEN BurnerEnded(Rest) ELSE StartBurner

BurnEnd ==
    /\ Pop("burn_end")
    /\ IF m_state # "burn" \/ ~thread[m_burner].ok
       THEN BurnerEnded(Rest)
       ELSE IF m_source = "tmpl" \/ content[m_source] = "setting"
       THEN BurnerEnded(Rest)
       ELSE /\ msgs' = Append(Rest, IF content[m_source] = "software" THEN "logo" ELSE "setting")
            /\ UNCHANGED <<manager, sources, receiving, burning, later, outside, stuck, fault>>

\* onReceiveLogoStart and onReceiverSettingStart; what startReceive returns is
\* not looked at.
NextContent(c) ==
    /\ Pop(c)
    /\ IF m_source = "none"
       THEN BurnerEnded(Rest)
       ELSE IF c \in offers[m_source]
       THEN /\ content' = [content EXCEPT ![m_source] = c]
            /\ StartReceive(m_source, Rest)
            /\ UNCHANGED <<manager, offers, burning, later, outside>>
       ELSE IF c = "logo"
       THEN /\ msgs' = Append(Rest, "setting")
            /\ UNCHANGED <<manager, sources, receiving, burning, later, outside, stuck, fault>>
       ELSE BurnerEnded(Rest)

\* onUpgradeRequest: whatever it comes to, the requester is told.  A check that
\* goes on is stopped: its checker stays, without a source.
RequestTaken ==
    /\ Pop("request")
    /\ IF Early
       THEN /\ check' = [t \in Types |->
                           IF m_state = "check" /\ findChecker(t) THEN "idle" ELSE check[t]]
            /\ m_source' = "disk" /\ m_state' = "receive" /\ StartReceive("disk", Rest)
       ELSE msgs' = Rest /\ UNCHANGED <<m_state, m_source, check, receiving, stuck, fault>>
    /\ UNCHANGED <<m_burner, checkers, prompted, sources, burning, later, asked, budget>>
UpgradeRequestSilent ==   \* mutant: a refused request is not answered
    RequestTaken /\ requester' = IF Early THEN "idle" ELSE requester
UpgradeRequest == RequestTaken /\ requester' = "idle"

\* UMMC_AUTO_UPGRADE_TIMER.
AutoUpgrade ==
    /\ Pop("auto_upgrade")
    /\ IF m_state \in {"idle", "check", "wait"} /\ m_source # "none"
       THEN /\ later' = [later EXCEPT !.auto_upgrade = 0]
            /\ Respond(m_source, TRUE, Without(Rest, {"auto_upgrade"}))
       ELSE /\ msgs' = Rest
            /\ UNCHANGED <<m_state, m_source, m_burner, checkers, check, receiving, later, stuck, fault>>
    /\ UNCHANGED <<prompted, sources, burning, outside>>

Loop ==
    \/ CheckEnd \/ ReceiverEnd \/ ReceiveEnd \/ BurnEnd
    \/ (\E c \in {"logo", "setting"} : NextContent(c))
    \/ UpgradeRequest \/ AutoUpgrade

-----------------------------------------------------------------------------
(* Burn threads. *)

BurnUnchanged == UNCHANGED <<manager, sources, receiving, later, outside>>

\* A burn thread that finds another burner at work gives up without a word.
BurnStart(b) ==
    /\ thread[b].at = "start"
    /\ IF ~thread[b].tmpl /\ g_burner # 0
       THEN /\ thread' = [thread EXCEPT ![b].at = "done"] /\ stuck' = stuck \cup {"busy"}
            /\ UNCHANGED g_burner
       ELSE /\ thread' = [thread EXCEPT ![b].at = "burn"] /\ UNCHANGED stuck
            /\ g_burner' = IF thread[b].tmpl THEN g_burner ELSE b
    /\ BurnUnchanged /\ UNCHANGED <<msgs, fault>>

\* updateEnd, on the way to phase a.
BurntSilent(b, ok, a) ==   \* mutant: a failure is not reported
    /\ thread' = [thread EXCEPT ![b].at = a, ![b].ok = ok]
    /\ msgs' = IF ok THEN Append(msgs, "burn_end") ELSE msgs
    /\ UNCHANGED <<g_burner, stuck, fault>>
Burnt(b, ok, a) ==
    /\ thread' = [thread EXCEPT ![b].at = a, ![b].ok = ok]
    /\ msgs' = Append(msgs, "burn_end")
    /\ UNCHANGED <<g_burner, stuck, fault>>

\* The ways a burn may end: g_burner is reset after an image has been burnt
\* ("ended") or was not fit to be, not after the settings have been written nor
\* after the flash has failed.
BurnRun(b) ==
    /\ thread[b].at = "burn"
    /\ IF m_burner # b
       THEN fault' = "dead" /\ UNCHANGED <<thread, msgs, g_burner, stuck>>
       ELSE \/ thread[b].tmpl /\ \E ok \in BOOLEAN : Burnt(b, ok, "done")
            \/ ~thread[b].tmpl /\ Burnt(b, FALSE, "ended")
            \/ ~thread[b].tmpl /\ m_source # "none" /\ content[m_source] # "setting"
               /\ (Burnt(b, TRUE, "ended") \/ Burnt(b, FALSE, "done"))
            \/ ~thread[b].tmpl /\ m_source # "none" /\ content[m_source] = "setting"
               /\ \/ Burnt(b, TRUE, "done")
                  \/ /\ thread' = [thread EXCEPT ![b].at = "done"] /\ g_burner' = 0
                     /\ stuck' = stuck \cup {"setting"} /\ UNCHANGED <<msgs, fault>>
    /\ BurnUnchanged

BurnReset(b) ==
    /\ thread[b].at = "ended"
    /\ thread' = [thread EXCEPT ![b].at = "done"] /\ g_burner' = 0
    /\ BurnUnchanged /\ UNCHANGED <<msgs, stuck, fault>>

Burn(b) == BurnStart(b) \/ BurnRun(b) \/ BurnReset(b)

-----------------------------------------------------------------------------
Environment ==
    \/ \E t \in Types : Touch(t) \/ CheckAnswer(t) \/ (\E yes \in BOOLEAN : Answer(t, yes))
    \/ Request
    \/ \E k \in DOMAIN later : Due(k)

Next ==
    /\ fault = "none"
    /\ \/ Environment \/ Loop
       \/ (\E s \in Sources : Transfer(s)) \/ TransferLost
       \/ \E b \in DOMAIN thread : Burn(b)

Spec == Init /\ [][Next]_vars

\* The loop and the threads go on, delayed messages fall due, and servers
\* answer or time out; whether the user does is open.
FairSpec ==
    /\ Spec
    /\ WF_vars(fault = "none" /\ Loop)
    /\ \A s \in Sources : WF_vars(fault = "none" /\ (TransferBegin(s) \/ Call(s)))
    /\ \A s \in Sources : SF_vars(fault = "none" /\ \E r \in {"end", "error"} : Finish(s, r))
    /\ \A t \in Types : WF_vars(fault = "none" /\ CheckAnswer(t))
    /\ \A k \in {"receive_end", "auto_upgrade"} : WF_vars(fault = "none" /\ Due(k))
    /\ WF_vars(fault = "none" /\ \E b \in DOMAIN thread : Burn(b))

-----------------------------------------------------------------------------
Phases == {"none", "queued", "running", "data", "end", "error", "stale"}
Kinds == {"check_end", "recv_end", "recv_error", "receive_end", "burn_end", "logo", "setting", "request",
          "auto_upgrade"}
\* Why nothing will come of a download, and of a burn.
NoData == {"lost", "unregistered"}
NoBurn == {"refused", "unborn", "busy", "setting"}
Causes == {"check"} \cup NoData \cup NoBurn

TypeOK ==
    /\ m_state \in {"idle", "check", "wait", "receive", "burn"}
    /\ m_source \in Sources \cup {"none"} /\ m_burner \in 0 .. Len(thread)
    /\ checkers \in Seq(Types) /\ Len(checkers) <= Cardinality(Types)
    /\ check \in [Types -> {"none", "idle", "working", "ok", "error", "selected", "finish"}]
    /\ asked \subseteq Types /\ prompted \subseteq Types
    /\ offers \in [Sources -> SUBSET Contents] /\ content \in [Sources -> Contents \cup {"none"}]
    /\ receiver \in [src : Sources \cup {"none"}, state : {"none", "unset", "ok", "error"}]
    /\ sink \in [Sources -> BOOLEAN] /\ transfer \in [Sources -> Phases]
    /\ thread \in Seq([tmpl : BOOLEAN, at : {"start", "burn", "ended", "done"}, ok : BOOLEAN])
    /\ g_burner \in 0 .. Len(thread)
    /\ msgs \in Seq(Kinds) /\ later \in [{"receive_end", "auto_upgrade"} -> Nat]
    /\ requester \in {"idle", "wait"} /\ budget \in 0 .. Budget
    /\ stuck \subseteq Causes
    /\ fault \in {"none", "null", "dead", "twice", "stopped"}

Pending(m) == \E i \in DOMAIN msgs : msgs[i] = m

\* No object is used before it is there or after it has been deleted, by the
\* loop, a download or a burn thread; only the late answer to a check that a
\* request has stopped finds its checker without a source.
NoFault == fault \in {"none", "stopped"}

\* While an image is burnt nothing replaces the burner or takes the manager out
\* of UMS_BURN, and no other burn begins: flash is written by one thread, whose
\* burner lives until it has reported.
BurnsUndisturbed ==
    \A b \in DOMAIN thread : thread[b].at \in {"start", "burn"} => m_state = "burn" /\ m_burner = b

\* A UMMC_RECEIVE_END, delayed or not, always belongs to the download the manager
\* is waiting for: the 500 ms one of a failed download never ends the next.
EndsAreCurrent ==
    LET count == Cardinality({i \in DOMAIN msgs : msgs[i] = "receive_end"}) + later.receive_end
    IN  count > 0 => count = 1 /\ m_state = "receive" /\ receiver.state \in {"ok", "error"}

\* A download always has the sink of the current receiver: nothing runs on for a
\* receiver that has gone.
DownloadsAreWatched ==
    \A s \in Sources : transfer[s] # "none" => sink[s] /\ receiver.src = s

\* The manager is never left waiting for nothing: in every state but UMS_IDLE
\* somebody is at work who will bring it on, or one of the seven causes is on
\* record for which this code forgets a check, a download or a burn, and that
\* for the one it is waiting for, not for an earlier one.
SomebodyWorks ==
    \/ m_state = "idle" \/ fault # "none"
    \/ m_state = "check" /\ ("check" \in stuck \/ asked # {} \/ Pending("check_end") \/ Pending("request"))
    \/ m_state = "wait" /\ prompted # {}
    \/ /\ m_state = "receive"
       /\ \/ stuck \cap NoData # {}
          \/ \E s \in Sources : transfer[s] # "none"
          \/ later.receive_end > 0
          \/ \E m \in {"recv_end", "recv_error", "receive_end"} : Pending(m)
    \/ /\ m_state = "burn"
       /\ \/ stuck \cap NoBurn # {}
          \/ \E b \in DOMAIN thread : thread[b].at \in {"start", "burn"}
          \/ \E m \in {"burn_end", "logo", "setting"} : Pending(m)

\* A check that ends while an image is received or burnt does not disturb it:
\* "If receiving or burning now, don't send error message for check failed".
ChecksDoNotDisturb ==
    [][(m_state \in {"receive", "burn"} /\ Pop("check_end") /\ msgs' = Rest)
        => UNCHANGED <<m_state, m_source, m_burner, receiver, prompted>>]_vars

\* An upgrade that has begun ends: received or not, burnt or not, the manager is
\* idle again, unless it is itself one of those the code forgets.
UpgradeEnds ==
    (m_state \in {"receive", "burn"})
        ~> (m_state = "idle" \/ stuck \cap (NoData \cup NoBurn) # {} \/ fault # "none")

\* The thread of the USB detector does not wait for ever, whatever the manager
\* is doing when the request comes.
RequesterReleased == (requester = "wait") ~> (requester = "idle" \/ fault # "none")

(* What comments of the code say and the code does not do. *)

\* "Wait for IP and DVB all check end, then select bigger version": with
\* MIX_UPGRADE_MODE, a check that ends is survived by the manager.
MixModeSelects == fault # "null"

\* When the time to answer a prompt is over, the box upgrades by itself.
PromptTimesOut ==
    [][(m_state = "wait" /\ "soft" \in prompted /\ Pop("auto_upgrade") /\ msgs' # msgs)
        => m_state' = "receive"]_vars

\* Two checks "at one time": once all is over, none of them is in the way of the
\* next check of its kind.
ChecksCanBeRepeated ==
    (m_state = "idle" /\ msgs = <<>> /\ asked = {} /\ prompted = {} /\ stuck = {} /\ fault = "none")
        => \A i \in DOMAIN checkers : check[checkers[i]] # "finish"
=============================================================================
