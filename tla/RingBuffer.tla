----------------------------- MODULE RingBuffer -----------------------------
(***************************************************************************)
(* src/middleware/src/app/DataStream/RingBuffer.cpp between one writer (a  *)
(* download or a log call) and one reader (a message handler).  Either     *)
(* asks for a head, works on the memory it was granted, and submits what   *)
(* it has done.  The indices are plain integers, each stored by one thread *)
(* and read by the other without a lock; only waitLock buffers take the    *)
(* mutex, in getWriteHead, which then waits for space, and in submitRead.  *)
(*                                                                         *)
(* An index that reaches the end is stored there and then stored as 0.     *)
(* Nothing orders the two stores for the other thread, and a compiler may  *)
(* merge them: OneStore says which build this is.                          *)
(***************************************************************************)
EXTENDS Naturals

CONSTANTS
    Size,       \* mBufLength
    WaitLock,   \* mWaitLock
    OneStore,   \* the build stores a wrapping index once
    MaxBytes    \* bound: bytes written, and bytes read

ASSUME BufferConstants ==
    /\ Size \in Nat /\ Size > 1
    /\ WaitLock \in BOOLEAN /\ OneStore \in BOOLEAN
    /\ MaxBytes \in Nat

VARIABLES
    mWrite, mRead,
    slot,       \* the memory: which byte of the stream each slot holds
    wpc, wlen,  \* the writer; its grant, then what it has copied
    rpc, rlen,  \* the reader; its grant, then what it has used
    written,    \* history: bytes submitted by the writer ...
    taken,      \* ... and by the reader
    refused,    \* history: a submit returned -1
    torn        \* history: getReadHead at 0 met a writer between its stores

vars == <<mWrite, mRead, slot, wpc, wlen, rpc, rlen, written, taken, refused, torn>>
writerVars == <<mWrite, wpc, wlen, written>>
readerVars == <<mRead, rpc, rlen, taken, torn>>

-----------------------------------------------------------------------------
\* maxWriteLength: up to the end, or up to one slot short of the reader.
WriteSpaceFull ==   \* mutant: the free slot before 0 forgotten
    IF mWrite >= mRead THEN Size - mWrite ELSE (mRead - 1) - mWrite

WriteSpace ==
    IF mWrite >= mRead
    THEN IF mRead = 0 THEN Size - mWrite - 1 ELSE Size - mWrite
    ELSE (mRead - 1) - mWrite

\* maxReadLength.
ReadSpaceToEnd == IF mRead >= mWrite THEN Size - mRead ELSE mWrite - mRead   \* mutant: empty taken for full

ReadSpace == IF mRead > mWrite THEN Size - mRead ELSE mWrite - mRead

\* waitLock: submitRead holds the mutex over its two stores.
MutexFree == WaitLock => rpc # "wrap"

Init ==
    /\ mWrite = 0 /\ mRead = 0
    /\ slot = [k \in 0 .. Size - 1 |-> 0]
    /\ wpc = "idle" /\ wlen = 0 /\ rpc = "idle" /\ rlen = 0
    /\ written = 0 /\ taken = 0
    /\ refused = FALSE /\ torn = FALSE

GetWriteHead ==
    /\ wpc = "idle" /\ MutexFree
    /\ IF WaitLock /\ WriteSpace = 0
       THEN wpc' = "wait" /\ UNCHANGED wlen
       ELSE wpc' = "granted" /\ wlen' = WriteSpace
    /\ UNCHANGED <<mWrite, slot, written, readerVars, refused>>

\* The writer copies n bytes to the memory it was granted.
Fill(n) ==
    /\ wpc = "granted" /\ n \in 0 .. wlen /\ written + n <= MaxBytes
    /\ slot' = [k \in 0 .. Size - 1 |->
                  IF k \in mWrite .. mWrite + n - 1 THEN written + 1 + (k - mWrite) ELSE slot[k]]
    /\ wpc' = "filled" /\ wlen' = n
    /\ UNCHANGED <<mWrite, written, readerVars, refused>>

SubmitWrite ==
    /\ wpc = "filled"
    /\ IF WriteSpace < wlen
       THEN refused' = TRUE /\ wpc' = "idle" /\ UNCHANGED <<mWrite, written>>
       ELSE /\ written' = written + wlen /\ UNCHANGED refused
            /\ IF mWrite + wlen = Size /\ OneStore
               THEN mWrite' = 0 /\ wpc' = "idle"
               ELSE /\ mWrite' = mWrite + wlen
                    /\ wpc' = IF mWrite + wlen = Size THEN "wrap" ELSE "idle"
    /\ wlen' = 0
    /\ UNCHANGED <<slot, readerVars>>

WrapWrite ==
    /\ wpc = "wrap" /\ mWrite' = 0 /\ wpc' = "idle"
    /\ UNCHANGED <<slot, wlen, written, readerVars, refused>>

GetReadHead ==
    /\ rpc = "idle"
    /\ rpc' = "granted" /\ rlen' = ReadSpace
    /\ torn' = (torn \/ (mRead = 0 /\ mWrite = Size))
    /\ UNCHANGED <<mRead, slot, taken, writerVars, refused>>

\* The reader has used n bytes: all of them, or one block of the log.
Use(n) ==
    /\ rpc = "granted" /\ n \in 0 .. rlen /\ taken + n <= MaxBytes
    /\ rpc' = "used" /\ rlen' = n
    /\ UNCHANGED <<mRead, slot, taken, torn, writerVars, refused>>

\* pthread_cond_signal: the writer retries.
NoSignal == UNCHANGED wpc   \* mutant
Signal == wpc' = IF wpc = "wait" THEN "idle" ELSE wpc

\* A submit of n = rlen that is accepted, up to its last store.
SubmitRead ==
    /\ rpc = "used"
    /\ rlen' = 0
    /\ IF ReadSpace < rlen
       THEN refused' = TRUE /\ rpc' = "idle" /\ UNCHANGED <<mRead, taken, wpc>>
       ELSE /\ taken' = taken + rlen /\ UNCHANGED refused
            /\ IF mRead + rlen = Size /\ ~OneStore
               THEN mRead' = Size /\ rpc' = "wrap" /\ UNCHANGED wpc
               ELSE /\ mRead' = IF mRead + rlen = Size THEN 0 ELSE mRead + rlen
                    /\ rpc' = "idle" /\ Signal
    /\ UNCHANGED <<mWrite, slot, wlen, written, torn>>

WrapRead ==
    /\ rpc = "wrap" /\ mRead' = 0 /\ rpc' = "idle" /\ Signal
    /\ UNCHANGED <<mWrite, slot, wlen, written, rlen, taken, torn, refused>>

Writer == GetWriteHead \/ (\E n \in 0 .. Size : Fill(n)) \/ SubmitWrite \/ WrapWrite
Reader == GetReadHead \/ (\E n \in 0 .. Size : Use(n)) \/ SubmitRead \/ WrapRead

Next == Writer \/ Reader

Spec == Init /\ [][Next]_vars

\* The reader is woken for what is written and uses some of it; the writer,
\* once inside a call, comes out of it unless it waits for space.
FairSpec ==
    /\ Spec
    /\ WF_vars(GetReadHead) /\ WF_vars(\E n \in 1 .. Size : Use(n)) /\ WF_vars(rlen = 0 /\ Use(0))
    /\ WF_vars(SubmitRead) /\ WF_vars(WrapRead) /\ WF_vars(WrapWrite) /\ WF_vars(GetWriteHead)

-----------------------------------------------------------------------------
TypeOK ==
    /\ mWrite \in 0 .. Size /\ mRead \in 0 .. Size
    /\ mWrite = Size <=> wpc = "wrap"
    /\ mRead = Size <=> rpc = "wrap"
    /\ slot \in [0 .. Size - 1 -> Nat]
    /\ wpc \in {"idle", "wait", "granted", "filled", "wrap"} /\ wlen \in 0 .. Size
    /\ rpc \in {"idle", "granted", "used", "wrap"} /\ rlen \in 0 .. Size
    /\ written \in Nat /\ taken \in Nat
    /\ refused \in BOOLEAN /\ torn \in BOOLEAN

\* What the reader was granted stays, until it submits, the next unread bytes
\* of the stream: none that is not yet written, none overwritten meanwhile.
\* The only exception is a read head taken at 0 between the writer's two stores.
ReadsAreTheStream ==
    ~torn /\ rpc \in {"granted", "used"} =>
        /\ taken + rlen <= written
        /\ \A k \in 0 .. rlen - 1 : slot[mRead + k] = taken + 1 + k

\* A submit of no more than was granted is never refused, however far the other
\* thread has moved since: callers do not look at the result.
GrantsAreKept == ~torn => ~refused

\* A writer waits only while the buffer is full; the reader that makes room
\* signals, at the latest when its index has wrapped.
WaitsOnlyWhenFull == wpc = "wait" /\ rpc # "wrap" => WriteSpace = 0 /\ mRead # mWrite

\* A waiting writer gets its space, as long as the reader goes on reading and
\* has not lost its place by a head taken between the writer's two stores.
WriterResumes == (wpc = "wait") ~> (wpc # "wait" \/ torn)

\* In a build that stores an index once the buffer is a pipe of Size - 1 bytes.
Stream == INSTANCE ByteStream WITH Capacity <- Size - 1

ImplementsByteStream == Stream!BSSpec

\* With two stores it is that pipe, too, until a reader has met one between them.
PipeUntilTorn ==
    Stream!BSInit /\ [][Stream!Write \/ Stream!Read \/ torn']_<<written, taken>>
=============================================================================
