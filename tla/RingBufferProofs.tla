-------------------------- MODULE RingBufferProofs --------------------------
(***************************************************************************)
(* Proofs about RingBuffer for every buffer size, locked or not, in both   *)
(* builds.                                                                 *)
(***************************************************************************)
EXTENDS RingBuffer, Integers, TLAPS

\* The indices without the instant at which they stand at the end.
W == IF mWrite = Size THEN 0 ELSE mWrite
R == IF mRead = Size THEN 0 ELSE mRead

\* The slot k places after the reader's index.
At(k) == IF R + k < Size THEN R + k ELSE R + k - Size

\* The indices tell how many bytes are in the buffer, and those bytes are the
\* next of the stream.
Accounts ==
    /\ written - taken = IF W >= R THEN W - R ELSE W + Size - R
    /\ \A k \in 0 .. Size - 1 : k < written - taken => slot[At(k)] = taken + 1 + k

\* A grant to the writer is free space, a grant to the reader is unread, and
\* neither grows stale while the other thread moves.
WriterGrant ==
    wpc \in {"granted", "filled"} =>
        /\ mWrite + wlen <= Size
        /\ written - taken + wlen <= Size - 1
        /\ wpc = "filled" =>
            \A k \in 0 .. Size - 1 : k < wlen => slot[mWrite + k] = written + 1 + k

ReaderGrant ==
    rpc \in {"granted", "used"} => mRead + rlen <= Size /\ taken + rlen <= written

Intact == Accounts /\ WriterGrant /\ ReaderGrant /\ ~refused

Waiting == wpc = "wait" /\ rpc # "wrap" => WriteSpace = 0 /\ mRead # mWrite

IInv == TypeOK /\ (~torn => Intact) /\ Waiting

-----------------------------------------------------------------------------
USE BufferConstants

LEMMA InitIInv == Init => IInv
  <1> SUFFICES ASSUME Init PROVE IInv
    OBVIOUS
  <1>1. TypeOK
    <2>1. /\ mWrite \in 0 .. Size /\ mRead \in 0 .. Size /\ mWrite # Size /\ mRead # Size
          /\ slot \in [0 .. Size - 1 -> Nat]
          /\ wlen \in 0 .. Size /\ rlen \in 0 .. Size /\ written \in Nat /\ taken \in Nat
      BY DEF Init
    <2> QED BY <2>1 DEF Init, TypeOK
  <1>2. W = 0 /\ R = 0
    BY DEF Init, W, R
  <1>3. Accounts
    BY <1>2 DEF Init, Accounts
  <1> QED
    BY <1>1, <1>3 DEF Init, IInv, Intact, WriterGrant, ReaderGrant, Waiting

\* Space is counted right whatever the state.
LEMMA Spaces ==
    ASSUME TypeOK
    PROVE  /\ wpc # "wrap" => WriteSpace \in 0 .. Size /\ mWrite + WriteSpace <= Size
           /\ rpc # "wrap" => ReadSpace \in 0 .. Size /\ mRead + ReadSpace <= Size
  BY DEF TypeOK, WriteSpace, ReadSpace

\* ... and, while the accounts are right, it is what the accounts say.
LEMMA SpacesExact ==
    ASSUME TypeOK, Accounts
    PROVE  /\ wpc # "wrap" => written - taken + WriteSpace <= Size - 1
           /\ wpc # "wrap" /\ WriteSpace = 0 => written - taken = Size - 1
           /\ rpc # "wrap" /\ ~(mRead = 0 /\ mWrite = Size) => taken + ReadSpace <= written
           /\ wpc \in {"granted", "filled"} => \A n \in 0 .. Size :
                mWrite + n <= Size /\ written - taken + n <= Size - 1 => n <= WriteSpace
           /\ rpc \in {"granted", "used"} => \A n \in 0 .. Size :
                mRead + n <= Size /\ taken + n <= written => n <= ReadSpace
  BY DEF TypeOK, Accounts, W, R, WriteSpace, ReadSpace

LEMMA StepIInv == IInv /\ [Next]_vars => IInv'
  <1> SUFFICES ASSUME IInv, [Next]_vars PROVE IInv'
    OBVIOUS
  <1> USE DEF IInv
  <1>1. CASE GetWriteHead
    <2>1. TypeOK'
      BY <1>1, Spaces DEF GetWriteHead, TypeOK, readerVars
    <2>2. ASSUME ~torn' PROVE Intact'
      <3>1. Intact /\ wpc # "wrap" /\ ~torn
        BY <1>1, <2>2 DEF GetWriteHead, readerVars
      <3>2. Accounts' /\ ReaderGrant' /\ ~refused'
        BY <1>1, <3>1 DEF Intact, GetWriteHead, readerVars, Accounts, At, W, R, ReaderGrant
      <3>3. WriterGrant'
        BY <1>1, <3>1, Spaces, SpacesExact
        DEF Intact, GetWriteHead, readerVars, WriterGrant, TypeOK
      <3> QED BY <3>2, <3>3 DEF Intact
    <2>3. Waiting'
      BY <1>1 DEF GetWriteHead, readerVars, Waiting, WriteSpace, TypeOK
    <2> QED BY <2>1, <2>2, <2>3
  <1>2. ASSUME NEW n \in 0 .. Size, Fill(n) PROVE IInv'
    <2>1. TypeOK'
      BY <1>2 DEF Fill, TypeOK, readerVars
    <2>2. ASSUME ~torn' PROVE Intact'
      <3>1. Intact /\ wpc = "granted" /\ ~torn /\ n <= wlen
        BY <1>2, <2>2 DEF Fill, readerVars
      <3>2. ReaderGrant' /\ ~refused'
        BY <1>2, <3>1 DEF Intact, Fill, readerVars, ReaderGrant
      <3>3. Accounts'
        <4>1. \A k \in 0 .. Size - 1 : k < written - taken =>
                At(k) \in 0 .. Size - 1 /\ ~(At(k) \in mWrite .. mWrite + n - 1)
          BY <3>1 DEF Intact, Accounts, WriterGrant, At, W, R, TypeOK
        <4>2. \A k \in 0 .. Size - 1 : At(k)' = At(k)
          BY <1>2 DEF Fill, At, R, readerVars
        <4>3. \A k \in 0 .. Size - 1 : k < written - taken => slot'[At(k)] = slot[At(k)]
          BY <1>2, <4>1 DEF Fill
        <4> QED
          BY <1>2, <3>1, <4>2, <4>3 DEF Fill, Intact, Accounts, readerVars, W, R
      <3>4. WriterGrant'
        <4>1. \A k \in 0 .. Size - 1 : k < n => slot'[mWrite + k] = written + 1 + k
          BY <1>2, <3>1 DEF Fill, Intact, WriterGrant, TypeOK
        <4> QED
          BY <1>2, <3>1, <4>1 DEF Fill, Intact, WriterGrant, TypeOK, readerVars
      <3> QED BY <3>2, <3>3, <3>4 DEF Intact
    <2>3. Waiting'
      BY <1>2 DEF Fill, Waiting
    <2> QED BY <2>1, <2>2, <2>3
  <1>3. CASE SubmitWrite
    <2>1. wpc = "filled" /\ mWrite \in 0 .. Size - 1 /\ wlen \in 0 .. Size /\ WriteSpace \in 0 .. Size
          /\ mWrite + WriteSpace <= Size
      BY <1>3, Spaces DEF SubmitWrite, TypeOK
    <2>2. CASE WriteSpace < wlen
      <3>1. torn
        BY <2>1, <2>2, SpacesExact DEF Intact, WriterGrant
      <3>2. TypeOK'
        BY <1>3, <2>1, <2>2 DEF SubmitWrite, TypeOK, readerVars
      <3>3. Waiting'
        BY <1>3, <2>2 DEF SubmitWrite, Waiting
      <3> QED BY <1>3, <3>1, <3>2, <3>3 DEF SubmitWrite, readerVars
    <2>3. CASE ~(WriteSpace < wlen)
      <3>1. /\ written' = written + wlen /\ wlen' = 0 /\ UNCHANGED <<refused, slot, readerVars>>
            /\ wpc' \in {"idle", "wrap"} /\ mWrite + wlen <= Size
            /\ mWrite' = IF mWrite + wlen = Size /\ OneStore THEN 0 ELSE mWrite + wlen
            /\ mWrite' = Size <=> wpc' = "wrap"
        BY <1>3, <2>1, <2>3 DEF SubmitWrite
      <3>2. TypeOK'
        BY <2>1, <3>1 DEF TypeOK, readerVars
      <3>3. ASSUME ~torn' PROVE Intact'
        <4>1. Intact /\ ~torn
          BY <3>1, <3>3 DEF readerVars
        <4>2. /\ R' = R /\ W = mWrite
              /\ W' = IF mWrite + wlen = Size THEN 0 ELSE mWrite + wlen
          BY <2>1, <3>1 DEF R, W, readerVars
        <4>3. written' - taken' = IF W' >= R' THEN W' - R' ELSE W' + Size - R'
          <5>1. /\ R \in 0 .. Size - 1 /\ W \in 0 .. Size - 1 /\ W + wlen <= Size
                /\ W < R => W + wlen < R
                /\ R = 0 => W + wlen < Size
            BY <2>1, <2>3, <3>1, <4>2 DEF W, R, WriteSpace, TypeOK
          <5>2. written' - taken' = written - taken + wlen
            BY <2>1, <3>1 DEF readerVars, TypeOK
          <5>3. written - taken = IF W >= R THEN W - R ELSE W + Size - R
            BY <4>1 DEF Intact, Accounts
          <5> QED BY <2>1, <4>2, <5>1, <5>2, <5>3
        <4>4. ASSUME NEW k \in 0 .. Size - 1, k < written' - taken'
              PROVE  slot[At(k)] = taken + 1 + k
          <5>1. CASE k < written - taken
            BY <4>1, <5>1 DEF Intact, Accounts
          <5>2. CASE ~(k < written - taken)
            <6> DEFINE j == k - (written - taken)
            <6>1. j \in 0 .. Size - 1 /\ j < wlen
              BY <2>1, <3>1, <4>1, <4>4, <5>2 DEF Intact, Accounts, W, R, TypeOK, readerVars
            <6>2. slot[mWrite + j] = written + 1 + j
              BY <2>1, <4>1, <6>1 DEF Intact, WriterGrant
            <6>3. At(k) = mWrite + j
              BY <2>1, <3>1, <4>1, <4>4, <5>2 DEF Intact, Accounts, At, W, R, TypeOK, readerVars
            <6> QED BY <6>2, <6>3 DEF TypeOK
          <5> QED BY <5>1, <5>2
        <4>5. Accounts'
          BY <3>1, <4>2, <4>3, <4>4 DEF Accounts, At, readerVars
        <4>6. ReaderGrant'
          BY <2>1, <3>1, <4>1 DEF Intact, ReaderGrant, readerVars, TypeOK
        <4> QED
          BY <3>1, <4>1, <4>5, <4>6 DEF Intact, WriterGrant
      <3>4. Waiting'
        BY <3>1 DEF Waiting
      <3> QED BY <3>2, <3>3, <3>4
    <2> QED BY <2>2, <2>3
  <1>4. CASE WrapWrite
    <2>1. TypeOK' /\ Waiting'
      BY <1>4 DEF WrapWrite, TypeOK, readerVars, Waiting
    <2>2. ASSUME ~torn' PROVE Intact'
      <3>1. mWrite = Size
        BY <1>4 DEF WrapWrite, TypeOK
      <3> QED
        BY <1>4, <2>2, <3>1 DEF WrapWrite, TypeOK, readerVars, Intact, Accounts, W, R, At, WriterGrant, ReaderGrant
    <2> QED BY <2>1, <2>2
  <1>5. CASE GetReadHead
    <2>1. TypeOK'
      BY <1>5, Spaces DEF GetReadHead, TypeOK, writerVars
    <2>2. ASSUME ~torn' PROVE Intact'
      <3>1. Intact /\ rpc = "idle" /\ ~torn /\ ~(mRead = 0 /\ mWrite = Size)
        BY <1>5, <2>2 DEF GetReadHead
      <3>2. Accounts' /\ WriterGrant' /\ ~refused'
        BY <1>5, <3>1 DEF Intact, GetReadHead, writerVars, Accounts, At, W, R, WriterGrant
      <3>3. ReaderGrant'
        BY <1>5, <3>1, Spaces, SpacesExact DEF Intact, GetReadHead, writerVars, ReaderGrant, TypeOK
      <3> QED BY <3>2, <3>3 DEF Intact
    <2>3. Waiting'
      BY <1>5 DEF GetReadHead, writerVars, Waiting, WriteSpace
    <2> QED BY <2>1, <2>2, <2>3
  <1>6. ASSUME NEW n \in 0 .. Size, Use(n) PROVE IInv'
    <2>1. TypeOK'
      BY <1>6 DEF Use, TypeOK, writerVars
    <2>2. ASSUME ~torn' PROVE Intact'
      BY <1>6, <2>2 DEF Use, TypeOK, writerVars, Intact, Accounts, W, R, At, WriterGrant, ReaderGrant
    <2>3. Waiting'
      BY <1>6 DEF Use, writerVars, Waiting, WriteSpace
    <2> QED BY <2>1, <2>2, <2>3
  <1>7. CASE SubmitRead
    <2>1. rpc = "used" /\ mRead \in 0 .. Size - 1 /\ rlen \in 0 .. Size /\ ReadSpace \in 0 .. Size
          /\ mRead + ReadSpace <= Size
      BY <1>7, Spaces DEF SubmitRead, TypeOK
    <2>2. CASE ReadSpace < rlen
      <3>1. torn
        BY <2>1, <2>2, SpacesExact DEF Intact, ReaderGrant
      <3>2. TypeOK'
        BY <1>7, <2>1, <2>2 DEF SubmitRead, TypeOK
      <3>3. Waiting'
        BY <1>7, <2>1, <2>2 DEF SubmitRead, Waiting, WriteSpace
      <3> QED BY <1>7, <3>1, <3>2, <3>3 DEF SubmitRead
    <2>3. CASE ~(ReadSpace < rlen)
      <3>1. /\ taken' = taken + rlen /\ rlen' = 0
            /\ UNCHANGED <<refused, slot, torn, mWrite, wlen, written>>
            /\ rpc' \in {"idle", "wrap"} /\ mRead + rlen <= Size
            /\ wpc' = wpc \/ (wpc = "wait" /\ wpc' = "idle")
            /\ rpc' # "wrap" => wpc' # "wait"
            /\ mRead' = IF mRead + rlen = Size /\ OneStore THEN 0 ELSE mRead + rlen
            /\ mRead' = Size <=> rpc' = "wrap"
        BY <1>7, <2>1, <2>3 DEF SubmitRead, Signal
      <3>2. TypeOK'
        BY <2>1, <3>1 DEF TypeOK
      <3>3. ASSUME ~torn' PROVE Intact'
        <4>1. Intact /\ ~torn
          BY <3>1, <3>3
        <4>2. /\ W' = W /\ R = mRead
              /\ R' = IF mRead + rlen = Size THEN 0 ELSE mRead + rlen
          BY <2>1, <3>1 DEF R, W
        <4>3. taken + rlen <= written
          BY <2>1, <4>1 DEF Intact, ReaderGrant
        <4>4. written' - taken' = IF W' >= R' THEN W' - R' ELSE W' + Size - R'
          BY <2>1, <3>1, <4>1, <4>2, <4>3 DEF Intact, Accounts, TypeOK, W, R
        <4>5. ASSUME NEW k \in 0 .. Size - 1, k < written' - taken'
              PROVE  slot[At(k)'] = taken' + 1 + k
          <5> DEFINE j == k + rlen
          <5>1. j \in 0 .. Size - 1 /\ j < written - taken
            BY <2>1, <3>1, <4>1, <4>2, <4>5 DEF Intact, Accounts, TypeOK, W, R
          <5>2. slot[At(j)] = taken + 1 + j
            BY <4>1, <5>1 DEF Intact, Accounts
          <5>3. At(k)' = At(j)
            BY <2>1, <3>1, <4>2, <5>1 DEF At, TypeOK
          <5> QED BY <2>1, <3>1, <5>2, <5>3 DEF TypeOK
        <4>6. Accounts'
          BY <3>1, <4>4, <4>5 DEF Accounts
        <4>7. WriterGrant'
          <5> SUFFICES ASSUME wpc' \in {"granted", "filled"} PROVE WriterGrant'
            BY DEF WriterGrant
          <5>1. wpc' = wpc
            BY <3>1
          <5>2. /\ mWrite + wlen <= Size
                /\ written - taken + wlen <= Size - 1
                /\ wpc = "filled" =>
                     \A k \in 0 .. Size - 1 : k < wlen => slot[mWrite + k] = written + 1 + k
            BY <4>1, <5>1 DEF Intact, WriterGrant
          <5>3. written' - taken' + wlen' <= Size - 1
            BY <2>1, <3>1, <5>2 DEF TypeOK
          <5> QED BY <3>1, <5>1, <5>2, <5>3 DEF WriterGrant
        <4> QED
          BY <3>1, <4>1, <4>6, <4>7 DEF Intact, ReaderGrant
      <3>4. Waiting'
        BY <3>1 DEF Waiting
      <3> QED BY <3>2, <3>3, <3>4
    <2> QED BY <2>2, <2>3
  <1>8. CASE WrapRead
    <2>1. /\ mRead' = 0 /\ rpc' = "idle" /\ UNCHANGED <<mWrite, slot, wlen, written, rlen, taken, torn, refused>>
          /\ wpc' = wpc \/ (wpc = "wait" /\ wpc' = "idle")
          /\ wpc' # "wait" /\ rpc = "wrap"
      BY <1>8 DEF WrapRead, Signal
    <2>2. TypeOK' /\ Waiting'
      BY <2>1 DEF TypeOK, Waiting
    <2>3. mRead = Size
      BY <2>1 DEF TypeOK
    <2>4. ASSUME ~torn' PROVE Intact'
      BY <2>1, <2>3, <2>4 DEF TypeOK, Intact, Accounts, W, R, At, WriterGrant, ReaderGrant
    <2> QED BY <2>2, <2>4
  <1>9. CASE UNCHANGED vars
    BY <1>9 DEF vars, TypeOK, Intact, Accounts, W, R, At, WriterGrant, ReaderGrant, Waiting, WriteSpace
  <1> QED
    BY <1>1, <1>2, <1>3, <1>4, <1>5, <1>6, <1>7, <1>8, <1>9 DEF Next, Writer, Reader

LEMMA Invariance == Spec => []IInv
  BY InitIInv, StepIInv, PTL DEF Spec

-----------------------------------------------------------------------------
\* Every variable of RingBuffer keeps its type; an index stands at the end only
\* between the two stores of a wrap.
THEOREM TypeCorrect == Spec => []TypeOK
  <1>1. IInv => TypeOK
    BY DEF IInv
  <1> QED BY <1>1, Invariance, PTL

\* What getReadHead grants is the next unread part of the stream until it is
\* submitted, unless the head was taken between the writer's two stores.
THEOREM ReaderSeesTheStream == Spec => []ReadsAreTheStream
  <1>1. IInv => ReadsAreTheStream
    <2> SUFFICES ASSUME IInv, ~torn, rpc \in {"granted", "used"}
                 PROVE  /\ taken + rlen <= written
                        /\ \A k \in 0 .. rlen - 1 : slot[mRead + k] = taken + 1 + k
      BY DEF ReadsAreTheStream
    <2>1. /\ mRead \in 0 .. Size - 1 /\ rlen \in 0 .. Size /\ written \in Nat /\ taken \in Nat
          /\ mRead + rlen <= Size /\ taken + rlen <= written /\ Accounts
      BY DEF IInv, Intact, ReaderGrant, TypeOK
    <2>2. ASSUME NEW k \in 0 .. rlen - 1 PROVE slot[mRead + k] = taken + 1 + k
      <3>1. k \in 0 .. Size - 1 /\ k < written - taken /\ At(k) = mRead + k
        BY <2>1 DEF At, R
      <3> QED BY <2>1, <3>1 DEF Accounts
    <2> QED BY <2>1, <2>2
  <1> QED BY <1>1, Invariance, PTL

\* submitWrite and submitRead accept whatever the head granted, however far the
\* other thread has moved in between.
THEOREM GrantsHold == Spec => []GrantsAreKept
  <1>1. IInv => GrantsAreKept
    BY DEF IInv, Intact, GrantsAreKept
  <1> QED BY <1>1, Invariance, PTL

\* A writer of a waitLock buffer waits only while there is no space, and then
\* the reader has something to read, and to signal.
THEOREM WaitersHaveReason == Spec => []WaitsOnlyWhenFull
  <1>1. IInv => WaitsOnlyWhenFull
    BY DEF IInv, Waiting, WaitsOnlyWhenFull
  <1> QED BY <1>1, Invariance, PTL

-----------------------------------------------------------------------------
\* In a build with one store per index nobody is ever between two of them.
Whole == OneStore => wpc # "wrap" /\ rpc # "wrap" /\ ~torn

LEMMA StepWhole == IInv /\ Whole /\ [Next]_vars => Whole'
  <1> SUFFICES ASSUME IInv, Whole, [Next]_vars, OneStore
               PROVE  wpc' # "wrap" /\ rpc' # "wrap" /\ ~torn'
    BY DEF Whole
  <1>1. wpc # "wrap" /\ rpc # "wrap" /\ ~torn /\ mWrite # Size
    BY DEF Whole, IInv, TypeOK
  <1>2. CASE GetWriteHead \/ (\E n \in 0 .. Size : Fill(n))
    BY <1>1, <1>2 DEF GetWriteHead, Fill, readerVars
  <1>3. CASE SubmitWrite
    <2>1. wpc' = "idle"
      BY <1>3, <1>1 DEF SubmitWrite, IInv, TypeOK
    <2> QED BY <1>1, <1>3, <2>1 DEF SubmitWrite, readerVars
  <1>4. CASE GetReadHead
    <2>1. ~(mRead = 0 /\ mWrite = Size)
      BY <1>1
    <2> QED BY <1>1, <1>4, <2>1 DEF GetReadHead, writerVars
  <1>7. CASE \E n \in 0 .. Size : Use(n)
    BY <1>1, <1>7 DEF Use, writerVars
  <1>5. CASE SubmitRead
    BY <1>1, <1>5 DEF SubmitRead, Signal
  <1>6. CASE WrapWrite \/ WrapRead \/ UNCHANGED vars
    BY <1>1, <1>6 DEF WrapWrite, WrapRead, vars
  <1> QED
    BY <1>2, <1>3, <1>4, <1>5, <1>6, <1>7 DEF Next, Writer, Reader

\* What the indices can account for.
LEMMA Fits == ASSUME TypeOK, Accounts PROVE taken <= written /\ written - taken <= Size - 1
  <1>1. W \in 0 .. Size - 1 /\ R \in 0 .. Size - 1 /\ written \in Nat /\ taken \in Nat
    BY DEF TypeOK, W, R
  <1>2. written - taken = IF W >= R THEN W - R ELSE W + Size - R
    BY DEF Accounts
  <1> QED BY <1>1, <1>2

\* Only a submit moves the histories, and only one of them.
LEMMA Moves ==
    ASSUME IInv, [Next]_vars
    PROVE  \/ UNCHANGED <<written, taken>>
           \/ written' = written + wlen /\ taken' = taken
           \/ taken' = taken + rlen /\ written' = written
  <1>1. CASE SubmitWrite
    BY <1>1 DEF SubmitWrite, readerVars
  <1>2. CASE SubmitRead
    BY <1>2 DEF SubmitRead
  <1>3. CASE ~SubmitWrite /\ ~SubmitRead
    BY <1>3 DEF Next, Writer, Reader, GetWriteHead, Fill, WrapWrite, GetReadHead, Use, WrapRead,
       writerVars, readerVars, vars
  <1> QED BY <1>1, <1>2, <1>3

\* A submit is a step of the pipe while what the indices say is true.
LEMMA PipeStep ==
    ASSUME IInv, IInv', ~torn', [Next]_vars
    PROVE  [Stream!Write \/ Stream!Read]_<<written, taken>>
  <1>1. /\ written \in Nat /\ taken \in Nat /\ written' \in Nat /\ taken' \in Nat
        /\ wlen \in 0 .. Size /\ rlen \in 0 .. Size
    BY DEF IInv, TypeOK
  <1>2. TypeOK' /\ Accounts'
    BY DEF IInv, Intact
  <1>3. taken' <= written' /\ written' - taken' <= Size - 1
    <2>1. (taken <= written /\ written - taken <= Size - 1)'
      BY <1>2, Fits, PTL
    <2> QED BY <2>1
  <1>4. CASE UNCHANGED <<written, taken>>
    BY <1>4
  <1>5. CASE written' = written + wlen /\ taken' = taken
    <2>1. written' \in written .. taken + (Size - 1)
      BY <1>1, <1>3, <1>5
    <2> QED BY <1>5, <2>1 DEF Stream!Write
  <1>6. CASE taken' = taken + rlen /\ written' = written
    <2>1. taken' \in taken .. written
      BY <1>1, <1>3, <1>6
    <2> QED BY <1>6, <2>1 DEF Stream!Read
  <1> QED BY <1>4, <1>5, <1>6, Moves

\* For every size the buffer is then a pipe of Size - 1 bytes between the two
\* threads: what is read has been written, and never is more on its way than
\* fits, whatever the interleaving.
THEOREM ImplementsStream == ASSUME OneStore PROVE Spec => ImplementsByteStream
  <1>1. Init => Stream!BSInit /\ Whole
    BY DEF Init, Stream!BSInit, Whole
  <1>2. IInv /\ IInv' /\ Whole /\ Whole' /\ [Next]_vars
        => [Stream!Write \/ Stream!Read]_<<written, taken>>
    BY PipeStep DEF Whole
  <1>3. Spec => [](IInv /\ Whole)
    BY <1>1, InitIInv, StepIInv, StepWhole, PTL DEF Spec
  <1> QED
    BY <1>1, <1>2, <1>3, PTL DEF Spec, ImplementsByteStream, Stream!BSSpec

\* With two stores per wrap it is that pipe as long as no reader has taken the
\* writer's index between them.
THEOREM PipeWhileWhole == Spec => PipeUntilTorn
  <1>1. Init => Stream!BSInit
    BY DEF Init, Stream!BSInit
  <1>2. IInv /\ IInv' /\ [Next]_vars
        => [Stream!Write \/ Stream!Read \/ torn']_<<written, taken>>
    BY PipeStep
  <1> QED
    BY <1>1, <1>2, Invariance, PTL DEF Spec, PipeUntilTorn
=============================================================================
