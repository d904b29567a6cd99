----------------------------- MODULE DelayQueue -----------------------------
(***************************************************************************)
(* What a MessageQueue with its loop promises: a pool of messages, each    *)
(* due at some instant, of which one at a time is handled; it is never     *)
(* handled before it is due, nor while another pending one was due sooner. *)
(* What happens to messages is all there is: no list, no free list, no     *)
(* locks.                                                                  *)
(***************************************************************************)
EXTENDS Naturals

CONSTANTS Ids, NoId

VARIABLES
    pending,   \* the instant each queued message is due: a partial function on Ids
    handled,   \* the message being handled
    now

dqVars == <<pending, handled, now>>

Without(m) == [n \in DOMAIN pending \ {m} |-> pending[n]]

DQInit == pending = [m \in {} |-> 0] /\ handled = NoId /\ now \in Nat

Put(m) ==
    /\ m \notin DOMAIN pending /\ m # handled
    /\ pending' \in [DOMAIN pending \cup {m} -> Nat]
    /\ \A n \in DOMAIN pending : pending'[n] = pending[n]
    /\ UNCHANGED <<handled, now>>

Take(m) ==
    /\ handled = NoId
    /\ m \in DOMAIN pending
    /\ pending[m] <= now
    /\ \A n \in DOMAIN pending : pending[m] <= pending[n]
    /\ pending' = Without(m) /\ handled' = m
    /\ UNCHANGED now

Finish == handled # NoId /\ handled' = NoId /\ UNCHANGED <<pending, now>>

Discard(m) == m \in DOMAIN pending /\ pending' = Without(m) /\ UNCHANGED <<handled, now>>

Pass == now' \in Nat /\ now' > now /\ UNCHANGED <<pending, handled>>

DQNext ==
    \/ \E m \in Ids : Put(m) \/ Take(m) \/ Discard(m)
    \/ Finish \/ Pass

DQSpec == DQInit /\ [][DQNext]_dqVars
=============================================================================
