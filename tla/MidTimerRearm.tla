---------------------------- MODULE MidTimerRearm ----------------------------
(***************************************************************************)
(* MidTimer with one history variable: the first tick at which the timer   *)
(* that the last create of a name asked for may run its function.          *)
(***************************************************************************)
EXTENDS MidTimer

VARIABLE notBefore

InitRearm == Init /\ notBefore = [k \in Keys |-> 0]

NextRearm ==
    \/ \E c \in Clients, k \in Keys, intval \in Intervals, loops \in Loops :
          /\ Create(c, k, intval, loops)
          /\ notBefore' = [notBefore EXCEPT ![k] = now + intval]
    \/ /\ \/ TimerThread \/ Tick
          \/ \E c \in Clients : Refresh(c) \/ DeleteAllStep(c)
          \/ \E c \in Clients, k \in Keys : Delete(c, k)
       /\ UNCHANGED notBefore

SpecRearm == InitRearm /\ [][NextRearm]_<<vars, notBefore>>

\* mid_timer.c:169 calls intval the interval after which func runs.  Creating a
\* timer again while its former expiry is still in the batch moves it in the
\* list but leaves the batch entry live: func runs before the interval is over.
IntervalRespected ==
    [][pc = "dispatch" /\ pc' = "taken" => now >= notBefore[taken']]_<<vars, notBefore>>
=============================================================================
