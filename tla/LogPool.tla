------------------------------ MODULE LogPool ------------------------------
(***************************************************************************)
(* The log of src/middleware/src/app/Log over its RingBuffer.  Any thread  *)
(* logs (Log.cpp, one at a time under g_mutex): it formats a block         *)
(* into whatever room it is granted, submits it and sends MC_DataArrive.   *)
(* The message thread (LogPool.cpp) removes every such message and then    *)
(* reads blocks until the buffer is empty.  A block begins with its size,  *)
(* which is the only thing that tells the reader where the next one is.    *)
(*                                                                         *)
(* Lengths are scaled: Header stands for the two sizes, Prefix for what    *)
(* comes before the message's text, Slack for rounding up.  Filters only   *)
(* copy the text and are left out.                                         *)
(***************************************************************************)
EXTENDS Naturals, FiniteSetsExt

CONSTANTS
    Size,        \* LOG_BUFFER_SIZE
    OneStore,    \* the build stores a wrapping index once
    Header, Prefix, Slack,
    Texts,       \* lengths of messages
    MaxBlock,    \* MAX_BLOCK_SIZE
    MaxBytes,    \* bound: bytes written
    MaxArrive    \* bound: MC_DataArrive messages that wait

ASSUME LogConstants ==
    /\ Size \in Nat /\ Size > 1 /\ OneStore \in BOOLEAN
    /\ Header \in Nat \ {0} /\ Prefix \in Nat \ {0} /\ Slack \in Nat \ {0}
    /\ Texts \subseteq Nat /\ MaxBlock \in Nat
    /\ MaxBytes \in Nat /\ MaxArrive \in Nat \ {0}

VARIABLES
    mWrite, mRead, slot, wpc, wlen, rpc, rlen, written, taken, refused, torn,
    call,       \* a thread is inside log()
    frame,      \* the memory read as a block size: 0 where there is none
    arrive,     \* MC_DataArrive messages in the queue
    pool,       \* where LogPool::receiveData is
    overrun     \* a call wrote beyond its grant: the model ends

ringVars == <<mWrite, mRead, slot, wpc, wlen, rpc, rlen, written, taken, refused, torn>>
vars == <<mWrite, mRead, slot, wpc, wlen, rpc, rlen, written, taken, refused, torn,
          call, frame, arrive, pool, overrun>>

Ring == INSTANCE RingBuffer WITH WaitLock <- FALSE

-----------------------------------------------------------------------------
\* dataSize and blockSize of a message of t, and whether log() comes to
\* submit it: logVerbose gives up when the prefix alone fills the grant.
BlockSize(t) ==
    IF Header + Prefix + t < wlen THEN Header + Prefix + t + Slack ELSE wlen + Slack

\* bufLength - blockSize is unsigned: a block that does not fit compares as
\* one with much room behind it, and is submitted only to be refused.
Published(t) ==
    IF BlockSize(t) > wlen \/ wlen - BlockSize(t) > MaxBlock THEN BlockSize(t) ELSE wlen

\* What the block's first word says.
SizeFieldOfText(t) == BlockSize(t)   \* mutant: the rest of the grant is forgotten
SizeField(t) == Published(t)

\* The sizes handed to snprintf go below 0.
TooSmall(verbose) == wlen < IF verbose THEN Header ELSE Header + Prefix
GivesUp(verbose) == verbose /\ Header + Prefix >= wlen

Init ==
    /\ Ring!Init
    /\ call = FALSE /\ frame = [k \in 0 .. Size - 1 |-> 0]
    /\ arrive = 0 /\ pool = "asleep" /\ overrun = FALSE

Running == ~overrun /\ ~torn

GetWriteHead ==
    /\ Running /\ ~call /\ arrive < MaxArrive
    /\ Ring!GetWriteHead
    /\ call' = TRUE
    /\ UNCHANGED <<frame, arrive, pool, overrun>>

\* Nothing is granted, or the prefix does not fit: the message is dropped.
Drop(verbose) ==
    /\ Running /\ wpc = "granted"
    /\ wlen = 0 \/ (~TooSmall(verbose) /\ GivesUp(verbose))
    /\ wpc' = "idle" /\ wlen' = 0 /\ call' = FALSE
    /\ UNCHANGED <<mWrite, mRead, slot, rpc, rlen, written, taken, refused, torn>>
    /\ UNCHANGED <<frame, arrive, pool, overrun>>

Overrun(verbose) ==
    /\ Running /\ wpc = "granted" /\ wlen > 0 /\ TooSmall(verbose)
    /\ overrun' = TRUE
    /\ UNCHANGED <<ringVars, call, frame, arrive, pool>>

Format(verbose, t) ==
    /\ Running /\ wpc = "granted" /\ wlen > 0
    /\ ~TooSmall(verbose) /\ ~GivesUp(verbose)
    /\ written + Published(t) <= MaxBytes
    /\ LET filled == mWrite .. mWrite + Min({wlen, Published(t)}) - 1
       IN  /\ slot' = [k \in DOMAIN slot |-> IF k \in filled THEN written + 1 + (k - mWrite) ELSE slot[k]]
           /\ frame' = [k \in DOMAIN frame |->
                          IF k = mWrite THEN SizeField(t) ELSE IF k \in filled THEN 0 ELSE frame[k]]
    /\ wlen' = Published(t) /\ wpc' = "filled"
    /\ UNCHANGED <<mWrite, mRead, rpc, rlen, written, taken, refused, torn, call, arrive, pool, overrun>>

\* The result of submitWrite is not looked at.
SubmitWrite == Running /\ Ring!SubmitWrite /\ UNCHANGED <<call, frame, arrive, pool, overrun>>

WrapWrite == Running /\ Ring!WrapWrite /\ UNCHANGED <<call, frame, arrive, pool, overrun>>

NotifyIfAsleep ==   \* mutant
    /\ Running /\ call /\ wpc = "idle"
    /\ arrive' = (IF pool = "asleep" THEN arrive + 1 ELSE arrive) /\ call' = FALSE
    /\ UNCHANGED <<ringVars, frame, pool, overrun>>

\* onDataArrive, then g_mutex is released.
Notify ==
    /\ Running /\ call /\ wpc = "idle"
    /\ arrive' = arrive + 1 /\ call' = FALSE
    /\ UNCHANGED <<ringVars, frame, pool, overrun>>

\* handleMessage, and the removal with which receiveData begins.
HandleDataArrive ==
    /\ Running /\ pool = "asleep" /\ arrive > 0
    /\ arrive' = arrive - 1 /\ pool' = "handling"
    /\ UNCHANGED <<ringVars, call, frame, overrun>>

RemoveMessages ==
    /\ Running /\ pool = "handling"
    /\ arrive' = 0 /\ pool' = "draining"
    /\ UNCHANGED <<ringVars, call, frame, overrun>>

GetReadHead ==
    /\ Running /\ pool = "draining"
    /\ Ring!GetReadHead
    /\ UNCHANGED <<call, frame, arrive, pool, overrun>>

DrainedRemoving ==   \* mutant: the messages are removed afterwards
    /\ Running /\ pool = "draining" /\ rpc = "granted" /\ rlen = 0
    /\ rpc' = "idle" /\ pool' = "asleep" /\ arrive' = 0
    /\ UNCHANGED <<mWrite, mRead, slot, wpc, wlen, rlen, written, taken, refused, torn>>
    /\ UNCHANGED <<call, frame, overrun>>

Drained ==   \* bufLength == 0
    /\ Running /\ pool = "draining" /\ rpc = "granted" /\ rlen = 0
    /\ rpc' = "idle" /\ pool' = "asleep"
    /\ UNCHANGED <<mWrite, mRead, slot, wpc, wlen, rlen, written, taken, refused, torn>>
    /\ UNCHANGED <<call, frame, arrive, overrun>>

\* One block goes through the filters: its size is what the memory says.
Use ==
    /\ Running /\ pool = "draining" /\ rpc = "granted" /\ rlen > 0
    /\ rpc' = "used" /\ rlen' = frame[mRead]
    /\ UNCHANGED <<mWrite, mRead, slot, wpc, wlen, written, taken, refused, torn>>
    /\ UNCHANGED <<call, frame, arrive, pool, overrun>>

SubmitRead == Running /\ Ring!SubmitRead /\ UNCHANGED <<call, frame, arrive, pool, overrun>>

WrapRead == Running /\ Ring!WrapRead /\ UNCHANGED <<call, frame, arrive, pool, overrun>>

LogCall ==
    \/ GetWriteHead \/ SubmitWrite \/ WrapWrite \/ Notify
    \/ \E verbose \in BOOLEAN : \/ Drop(verbose) \/ Overrun(verbose)
                                \/ \E t \in Texts : Format(verbose, t)

Receive ==
    \/ HandleDataArrive \/ RemoveMessages \/ GetReadHead \/ Drained \/ Use
    \/ SubmitRead \/ WrapRead

Next == LogCall \/ Receive

Spec == Init /\ [][Next]_vars

\* The message thread is scheduled; a thread inside log() comes out of it.
FairSpec ==
    /\ Spec
    /\ WF_vars(HandleDataArrive) /\ WF_vars(RemoveMessages) /\ WF_vars(Drained) /\ WF_vars(Use)
    /\ WF_vars(GetReadHead) /\ WF_vars(SubmitRead) /\ WF_vars(WrapRead)
    /\ WF_vars(SubmitWrite) /\ WF_vars(WrapWrite) /\ WF_vars(Notify)

-----------------------------------------------------------------------------
\* What the reader is granted begins with a block that is in the buffer as a
\* whole, so that every later block is found too (receiveData trusts the size).
BlocksAreWhole ==
    ~torn /\ rpc = "granted" /\ rlen > 0 =>
        /\ frame[mRead] \in 1 .. rlen
        /\ \A k \in 0 .. frame[mRead] - Slack - 1 : slot[mRead + k] = taken + 1 + k

\* No block waits in the buffer with nobody told: the reader is at work, a
\* message waits, or the writer has still to send one.
NobodyForgets ==
    pool = "asleep" /\ taken < written => arrive > 0 \/ call

\* Where a call gets less room than its header and prefix need: the last byte of
\* the buffer, left free while mRead was 0 and granted alone later.
OverrunAtTheEnd == overrun /\ wlen = 1 /\ mWrite = Size - 1

\* Every block reaches the filters, unless the reader met a torn wrap or a call
\* overran, which it does in that one place (then the model ends).
BlocksAreRead ==
    \A k \in 1 .. MaxBytes : (written >= k) ~> (taken >= k \/ torn \/ OverrunAtTheEnd)
=============================================================================
