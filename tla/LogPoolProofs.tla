--------------------------- MODULE LogPoolProofs ---------------------------
(***************************************************************************)
(* Proofs about LogPool for every buffer size, every size of the headers   *)
(* and every set of message lengths, in both builds of the RingBuffer.     *)
(***************************************************************************)
EXTENDS LogPool, Integers, TLAPS

\* The indices without the instant at which they stand at the end.
W == IF mWrite = Size THEN 0 ELSE mWrite
R == IF mRead = Size THEN 0 ELSE mRead

\* The slot of the byte behind the first b of the stream.
Place(b) == IF R + (b - taken) < Size THEN R + (b - taken) ELSE R + (b - taken) - Size

LogTypes ==
    /\ mWrite \in 0 .. Size /\ mRead \in 0 .. Size
    /\ mWrite = Size <=> wpc = "wrap"
    /\ mRead = Size <=> rpc = "wrap"
    /\ slot \in [0 .. Size - 1 -> Nat] /\ frame \in [0 .. Size - 1 -> Nat]
    /\ wpc \in {"idle", "granted", "filled", "wrap"} /\ wlen \in Nat
    /\ rpc \in {"idle", "granted", "used", "wrap"} /\ rlen \in Nat
    /\ written \in Nat /\ taken \in Nat /\ arrive \in Nat
    /\ torn \in BOOLEAN /\ call \in BOOLEAN

\* The indices tell how many bytes are in the buffer.
Accounts == written - taken = IF W >= R THEN W - R ELSE W + Size - R

\* Behind the first b bytes of the stream begins a block that says its size,
\* does not go over the end and is in the buffer up to its rounding.
Block(b) ==
    /\ frame[Place(b)] > 0
    /\ Place(b) + frame[Place(b)] <= Size /\ b + frame[Place(b)] <= written
    /\ \A k \in 0 .. Size - 1 : k + Slack < frame[Place(b)] => slot[Place(b) + k] = b + 1 + k

\* The unread bytes are a chain of such blocks, from taken to written.
Chain(B) ==
    /\ taken < written => taken \in B
    /\ \A b \in B : Block(b) /\ b + frame[Place(b)] \in B \cup {written}

Framed == \E B \in SUBSET (taken .. written - 1) : Chain(B)

\* A grant to the writer is free space; what it has formatted there is a
\* block, which may claim up to its rounding more than was granted.
WriterGrant ==
    /\ wpc = "granted" => mWrite + wlen <= Size /\ written - taken + wlen <= Size - 1
    /\ wpc = "filled" =>
         /\ wlen > 0 /\ frame[mWrite] = wlen
         /\ \A k \in 0 .. Size - 1 : k + Slack < wlen => slot[mWrite + k] = written + 1 + k

\* A grant to the reader holds its first block; what it uses is that block.
ReaderGrant ==
    /\ rpc \in {"granted", "used"} => mRead + rlen <= Size /\ taken + rlen <= written
    /\ rpc = "granted" /\ rlen > 0 => frame[mRead] <= rlen
    /\ rpc = "used" => rlen > 0 /\ frame[mRead] = rlen

Intact == Accounts /\ Framed /\ WriterGrant /\ ReaderGrant

\* A thread that has submitted its block and has not told yet.
Telling == call /\ wpc \in {"idle", "wrap"}

\* Where the reader has found the buffer empty, or sleeps, whatever came since
\* is announced: by a message, or by the call that brought it.
Announced ==
    /\ wpc # "idle" => call
    /\ rpc # "idle" => pool = "draining"
    /\ pool = "asleep" \/ (pool = "draining" /\ rpc = "granted" /\ rlen = 0)
         => taken = written \/ arrive > 0 \/ Telling

LInv == LogTypes /\ (torn => pool = "draining") /\ (~torn => Intact /\ Announced)

-----------------------------------------------------------------------------
USE LogConstants

LEMMA MinOfTwo == ASSUME NEW a \in Nat, NEW b \in Nat PROVE Min({a, b}) = IF a <= b THEN a ELSE b
  <1>1. PICK m \in {a, b} : m = (IF a <= b THEN a ELSE b) /\ \A y \in {a, b} : m <= y
    OBVIOUS
  <1>2. \A x \in {a, b} : (\A y \in {a, b} : x <= y) => x = m
    BY <1>1
  <1>3. (CHOOSE x \in {a, b} : \A y \in {a, b} : x <= y) = m
    BY <1>1, <1>2
  <1> QED BY <1>1, <1>3 DEF Min

LEMMA InitLInv == Init => LInv
  <1> SUFFICES ASSUME Init PROVE LInv
    OBVIOUS
  <1> USE DEF Init, Ring!Init
  <1>1. LogTypes
    <2>1. /\ mWrite \in 0 .. Size /\ mRead \in 0 .. Size /\ mWrite # Size /\ mRead # Size
          /\ slot \in [0 .. Size - 1 -> Nat] /\ frame \in [0 .. Size - 1 -> Nat]
          /\ wlen \in Nat /\ rlen \in Nat /\ written \in Nat /\ taken \in Nat /\ arrive \in Nat
      OBVIOUS
    <2> QED BY <2>1 DEF LogTypes
  <1>2. W = 0 /\ R = 0 /\ taken = 0 /\ written = 0
    BY DEF W, R
  <1>3. Accounts
    BY <1>2 DEF Accounts
  <1>4. Framed
    <2>1. Chain({})
      BY <1>2 DEF Chain
    <2> QED BY <2>1 DEF Framed
  <1> QED
    BY <1>1, <1>2, <1>3, <1>4 DEF LInv, Intact, WriterGrant, ReaderGrant, Announced

\* What the heads grant, by the accounts.
LEMMA Spaces ==
    ASSUME LogTypes, Accounts
    PROVE  /\ wpc # "wrap" => /\ Ring!WriteSpace \in 0 .. Size /\ mWrite + Ring!WriteSpace <= Size
                              /\ written - taken + Ring!WriteSpace <= Size - 1
           /\ rpc # "wrap" /\ ~(mRead = 0 /\ mWrite = Size) =>
                /\ Ring!ReadSpace \in 0 .. Size /\ mRead + Ring!ReadSpace <= Size
                /\ taken + Ring!ReadSpace <= written
                /\ Ring!ReadSpace = 0 => taken = written
                /\ taken + Ring!ReadSpace = written \/ mRead + Ring!ReadSpace = Size
           /\ rpc \in {"granted", "used"} => \A n \in Nat :
                mRead + n <= Size /\ taken + n <= written => n <= Ring!ReadSpace
  BY DEF LogTypes, Accounts, W, R, Ring!WriteSpace, Ring!ReadSpace

\* A chain depends on nothing but what lies in the buffer.
LEMMA SameChain ==
    ASSUME Framed, UNCHANGED <<slot, frame, written, taken>>, R' = R
    PROVE  Framed'
  BY DEF Framed, Chain, Block, Place

\* The first unread block.
LEMMA FirstBlock ==
    ASSUME LogTypes, Accounts, Framed, taken < written, mRead < Size
    PROVE  /\ frame[mRead] > 0 /\ mRead + frame[mRead] <= Size /\ taken + frame[mRead] <= written
           /\ \A k \in 0 .. Size - 1 : k + Slack < frame[mRead] => slot[mRead + k] = taken + 1 + k
  <1>1. Block(taken)
    BY DEF Framed, Chain
  <1>2. Place(taken) = mRead
    BY DEF Place, R, LogTypes
  <1> QED BY <1>1, <1>2 DEF Block

\* The reader is never ahead of the writer.
LEMMA Occupied == ASSUME LogTypes, Accounts PROVE taken <= written /\ written - taken < Size
  <1>1. W \in 0 .. Size - 1 /\ R \in 0 .. Size - 1
    BY DEF LogTypes, W, R
  <1> QED BY <1>1 DEF Accounts, LogTypes

\* What each action may rely on.
LEMMA Sound ==
    ASSUME LInv, Running
    PROVE  LogTypes /\ ~torn /\ Accounts /\ Framed /\ WriterGrant /\ ReaderGrant /\ Announced
  BY DEF LInv, Intact, Running

LEMMA GetWriteHeadLInv == ASSUME LInv, GetWriteHead PROVE LInv'
  <1>1. /\ wpc = "idle" /\ ~call /\ wpc' = "granted" /\ wlen' = Ring!WriteSpace /\ call' = TRUE
        /\ UNCHANGED <<mWrite, slot, written, mRead, rpc, rlen, taken, torn, frame, arrive, pool>>
    BY DEF GetWriteHead, Ring!GetWriteHead, Ring!readerVars
  <1>2. LogTypes /\ ~torn /\ Accounts /\ Framed /\ WriterGrant /\ ReaderGrant /\ Announced
    BY Sound DEF GetWriteHead
  <1>3. /\ Ring!WriteSpace \in 0 .. Size /\ mWrite + Ring!WriteSpace <= Size
        /\ written - taken + Ring!WriteSpace <= Size - 1
    BY <1>1, <1>2, Spaces
  <1>4. LogTypes'
    BY <1>1, <1>2, <1>3 DEF LogTypes
  <1>5. W' = W /\ R' = R
    BY <1>1 DEF W, R
  <1>6. Accounts' /\ Framed'
    BY <1>1, <1>2, <1>5, SameChain DEF Accounts
  <1>7. WriterGrant' /\ ReaderGrant'
    BY <1>1, <1>2, <1>3 DEF WriterGrant, ReaderGrant
  <1>8. Announced'
    BY <1>1, <1>2 DEF Announced, Telling
  <1> QED BY <1>1, <1>2, <1>4, <1>6, <1>7, <1>8 DEF LInv, Intact

LEMMA DropLInv == ASSUME LInv, NEW verbose \in BOOLEAN, Drop(verbose) PROVE LInv'
  <1>1. /\ wpc = "granted" /\ wpc' = "idle" /\ wlen' = 0 /\ call' = FALSE
        /\ UNCHANGED <<mWrite, slot, written, mRead, rpc, rlen, taken, torn, frame, arrive, pool>>
    BY DEF Drop
  <1>2. LogTypes /\ ~torn /\ Accounts /\ Framed /\ WriterGrant /\ ReaderGrant /\ Announced
    BY Sound DEF Drop
  <1>4. LogTypes'
    BY <1>1, <1>2 DEF LogTypes
  <1>5. W' = W /\ R' = R
    BY <1>1 DEF W, R
  <1>6. Accounts' /\ Framed'
    BY <1>1, <1>2, <1>5, SameChain DEF Accounts
  <1>7. WriterGrant' /\ ReaderGrant'
    BY <1>1, <1>2 DEF WriterGrant, ReaderGrant
  <1>8. Announced'
    BY <1>1, <1>2 DEF Announced, Telling
  <1> QED BY <1>1, <1>2, <1>4, <1>6, <1>7, <1>8 DEF LInv, Intact

LEMMA OverrunLInv == ASSUME LInv, NEW verbose \in BOOLEAN, Overrun(verbose) PROVE LInv'
  <1>1. UNCHANGED <<ringVars, call, frame, arrive, pool>>
    BY DEF Overrun
  <1>2. W' = W /\ R' = R
    BY <1>1 DEF W, R, ringVars
  <1>3. Framed => Framed'
    BY <1>1, <1>2, SameChain DEF ringVars
  <1> QED
    BY <1>1, <1>2, <1>3 DEF ringVars, LInv, LogTypes, Intact, Accounts, WriterGrant, ReaderGrant, Announced, Telling

\* What log() formats fits its grant up to the rounding of the block.
LEMMA Formatted ==
    ASSUME NEW t \in Texts, wlen \in Nat, wlen > 0
    PROVE  /\ Published(t) \in Nat /\ Published(t) > 0
           /\ Min({wlen, Published(t)}) \in 0 .. wlen
           /\ Min({wlen, Published(t)}) > 0
           /\ Published(t) <= Min({wlen, Published(t)}) + Slack
  <1>1. t \in Nat
    OBVIOUS
  <1>2. Published(t) \in Nat /\ Published(t) > 0 /\ Published(t) <= wlen + Slack
    BY <1>1 DEF Published, BlockSize
  <1> QED BY <1>2, MinOfTwo

LEMMA FormatLInv == ASSUME LInv, NEW verbose \in BOOLEAN, NEW t \in Texts, Format(verbose, t) PROVE LInv'
  <1>1. PICK n, m : n = Published(t) /\ m = Min({wlen, n})
    OBVIOUS
  <1>2. LogTypes /\ ~torn /\ Accounts /\ Framed /\ WriterGrant /\ ReaderGrant /\ Announced
    BY Sound DEF Format
  <1>3. /\ wpc = "granted" /\ wpc' = "filled" /\ wlen > 0 /\ wlen' = n
        /\ UNCHANGED <<mWrite, mRead, rpc, rlen, written, taken, torn, call, arrive, pool>>
        /\ slot' = [k \in DOMAIN slot |->
                      IF k \in mWrite .. mWrite + m - 1 THEN written + 1 + (k - mWrite) ELSE slot[k]]
        /\ frame' = [k \in DOMAIN frame |->
                       IF k = mWrite THEN n ELSE IF k \in mWrite .. mWrite + m - 1 THEN 0 ELSE frame[k]]
    BY <1>1 DEF Format, SizeField
  <1>4. n \in Nat /\ n > 0 /\ m \in 1 .. wlen /\ n <= m + Slack
    BY <1>1, <1>2, <1>3, Formatted DEF LogTypes
  <1>5. mWrite + wlen <= Size /\ written - taken + wlen <= Size - 1 /\ wlen \in Nat /\ mWrite \in 0 .. Size - 1
    BY <1>2, <1>3, <1>4 DEF WriterGrant, LogTypes
  <1>6. LogTypes'
    <2>1. /\ slot' \in [0 .. Size - 1 -> Nat] /\ frame' \in [0 .. Size - 1 -> Nat]
      BY <1>2, <1>3, <1>4, <1>5 DEF LogTypes
    <2> QED BY <1>2, <1>3, <1>4, <2>1 DEF LogTypes
  <1>7. W' = W /\ R' = R /\ W = mWrite
    BY <1>3, <1>5 DEF W, R
  <1>8. Accounts'
    BY <1>2, <1>3, <1>7 DEF Accounts
  <1>9. \A k \in 0 .. Size - 1 : k \notin mWrite .. mWrite + m - 1 => slot'[k] = slot[k] /\ frame'[k] = frame[k]
    BY <1>2, <1>3, <1>4, <1>5 DEF LogTypes
  <1>10. Framed'
    <2>1. PICK B \in SUBSET (taken .. written - 1) : Chain(B)
      BY <1>2 DEF Framed
    <2>2. \A b : Place(b)' = Place(b)
      BY <1>3, <1>7 DEF Place
    <2>3. ASSUME NEW b \in B PROVE Block(b)' /\ (frame[Place(b)])' = frame[Place(b)]
      <3>1. PICK p : p = Place(b)
        OBVIOUS
      <3>2. /\ b \in Int /\ taken <= b /\ b < written /\ frame[p] > 0 /\ p + frame[p] <= Size
            /\ b + frame[p] <= written
            /\ \A k \in 0 .. Size - 1 : k + Slack < frame[p] => slot[p + k] = b + 1 + k
        <4>1. b \in Int /\ taken <= b /\ b < written
          BY <1>2, <2>1 DEF LogTypes
        <4>2. Block(b)
          BY <2>1 DEF Chain
        <4> QED BY <3>1, <4>1, <4>2 DEF Block
      <3>3. p \in 0 .. Size - 1 /\ frame[p] \in Nat
        BY <1>2, <3>1, <3>2 DEF Place, LogTypes, R, W, Accounts
      <3>4. p + frame[p] <= mWrite \/ mWrite + m - 1 < p
        BY <1>2, <1>4, <1>5, <1>7, <3>1, <3>2, <3>3 DEF Place, LogTypes, R, Accounts
      <3>5. frame'[p] = frame[p]
        BY <1>4, <1>5, <1>9, <3>2, <3>3, <3>4
      <3>6. ASSUME NEW k \in 0 .. Size - 1, k + Slack < frame[p] PROVE slot'[p + k] = b + 1 + k
        BY <1>4, <1>5, <1>9, <3>2, <3>3, <3>4, <3>6
      <3> QED BY <2>2, <3>1, <3>2, <3>5, <3>6, <1>3 DEF Block
    <2>4. Chain(B)'
      BY <1>3, <2>1, <2>2, <2>3 DEF Chain
    <2> QED BY <1>3, <2>1, <2>4 DEF Framed
  <1>11. WriterGrant'
    <2>1. frame'[mWrite] = n
      BY <1>2, <1>3, <1>5 DEF LogTypes
    <2>2. ASSUME NEW k \in 0 .. Size - 1, k + Slack < n PROVE slot'[mWrite + k] = written + 1 + k
      BY <1>2, <1>3, <1>4, <1>5, <2>2 DEF LogTypes
    <2> QED BY <1>3, <1>4, <2>1, <2>2 DEF WriterGrant
  <1>12. ReaderGrant'
    <2>1. ASSUME rpc \in {"granted", "used"}, rlen > 0 PROVE frame'[mRead] = frame[mRead]
      <3>1. mRead \in 0 .. Size - 1 /\ R = mRead /\ taken < written /\ rlen \in Nat
        BY <1>2, <2>1 DEF LogTypes, R, ReaderGrant
      <3>2. mRead \notin mWrite .. mWrite + m - 1
        BY <1>2, <1>4, <1>5, <1>7, <3>1 DEF Accounts, LogTypes
      <3> QED BY <1>9, <3>1, <3>2
    <2> QED BY <1>2, <1>3, <2>1 DEF ReaderGrant
  <1>13. Announced'
    BY <1>2, <1>3 DEF Announced, Telling
  <1> QED BY <1>2, <1>3, <1>6, <1>8, <1>10, <1>11, <1>12, <1>13 DEF LInv, Intact

LEMMA SubmitWriteLInv == ASSUME LInv, SubmitWrite PROVE LInv'
  <1>1. LogTypes /\ ~torn /\ Accounts /\ Framed /\ WriterGrant /\ ReaderGrant /\ Announced
    BY Sound DEF SubmitWrite
  <1>2. /\ wpc = "filled" /\ wlen' = 0
        /\ UNCHANGED <<slot, mRead, rpc, rlen, taken, torn, call, frame, arrive, pool>>
        /\ mWrite \in 0 .. Size - 1 /\ wlen \in Nat /\ Ring!WriteSpace \in 0 .. Size
        /\ mWrite + Ring!WriteSpace <= Size /\ written - taken + Ring!WriteSpace <= Size - 1
    BY <1>1, Spaces DEF SubmitWrite, Ring!SubmitWrite, Ring!readerVars, LogTypes
  <1>3. W = mWrite /\ R' = R /\ call
    BY <1>1, <1>2 DEF W, R, Announced
  <1>4. CASE Ring!WriteSpace < wlen
    <2>1. wpc' = "idle" /\ UNCHANGED <<mWrite, written>>
      BY <1>4 DEF SubmitWrite, Ring!SubmitWrite
    <2>2. LogTypes'
      BY <1>1, <1>2, <2>1 DEF LogTypes
    <2>3. W' = W
      BY <2>1 DEF W
    <2>4. Accounts' /\ Framed'
      BY <1>1, <1>2, <1>3, <2>1, <2>3, SameChain DEF Accounts
    <2>5. WriterGrant' /\ ReaderGrant' /\ Announced'
      BY <1>1, <1>2, <1>3, <2>1 DEF WriterGrant, ReaderGrant, Announced, Telling
    <2> QED BY <1>1, <1>2, <2>2, <2>4, <2>5 DEF LInv, Intact
  <1>5. CASE ~(Ring!WriteSpace < wlen)
    <2>1. /\ written' = written + wlen
          /\ wpc' \in {"idle", "wrap"} /\ mWrite + wlen <= Size
          /\ mWrite' = IF mWrite + wlen = Size /\ OneStore THEN 0 ELSE mWrite + wlen
          /\ mWrite' = Size <=> wpc' = "wrap"
      BY <1>2, <1>5 DEF SubmitWrite, Ring!SubmitWrite
    <2>2. LogTypes'
      BY <1>1, <1>2, <2>1 DEF LogTypes
    <2>3. /\ W' = IF mWrite + wlen = Size THEN 0 ELSE mWrite + wlen
          /\ wlen > 0 /\ frame[mWrite] = wlen
          /\ \A k \in 0 .. Size - 1 : k + Slack < wlen => slot[mWrite + k] = written + 1 + k
      BY <1>1, <1>2, <2>1 DEF W, WriterGrant
    <2>4. Accounts'
      <3>1. R \in 0 .. Size - 1 /\ (W < R => W + wlen < R) /\ (R = 0 => W + wlen < Size)
        BY <1>1, <1>2, <1>3, <1>5 DEF LogTypes, R, Ring!WriteSpace
      <3>2. written' - taken' = written - taken + wlen
        BY <1>1, <1>2, <2>1 DEF LogTypes
      <3>3. written - taken = IF W >= R THEN W - R ELSE W + Size - R
        BY <1>1 DEF Accounts
      <3>4. written' - taken' = IF W' >= R' THEN W' - R' ELSE W' + Size - R'
        BY <1>2, <1>3, <2>1, <2>3, <3>1, <3>2, <3>3
      <3> QED BY <3>4 DEF Accounts
    <2>5. Framed'
      <3>1. PICK B \in SUBSET (taken .. written - 1) : Chain(B)
        BY <1>1 DEF Framed
      <3>2. PICK e : e = written
        OBVIOUS
      <3>3. \A b : Place(b)' = Place(b)
        BY <1>2, <1>3 DEF Place
      <3>4. ASSUME NEW b \in B PROVE Block(b)' /\ b + frame[Place(b)] \in B \cup {e}
        <4>1. Block(b) /\ b + frame[Place(b)] \in B \cup {e}
          BY <3>1, <3>2 DEF Chain
        <4>2. PICK p : p = Place(b)
          OBVIOUS
        <4>3. p \in 0 .. Size - 1 /\ b \in Int
          BY <1>1, <4>2 DEF Place, LogTypes, R, W, Accounts
        <4>4. frame[p] \in Nat /\ b + frame[p] <= written
          BY <1>1, <4>1, <4>2, <4>3 DEF Block, LogTypes
        <4>5. b + frame[p] <= written'
          BY <1>1, <1>2, <2>1, <4>3, <4>4 DEF LogTypes
        <4> QED BY <1>2, <3>3, <4>1, <4>2, <4>5 DEF Block
      <3>5. Place(e) = mWrite /\ e \in Nat /\ taken <= e
        BY <1>1, <1>2, <1>3, <3>2, Occupied DEF Place, Accounts, LogTypes, R
      <3>6. Block(e)' /\ e + frame[Place(e)] = written'
        BY <1>2, <2>1, <2>3, <3>2, <3>3, <3>5 DEF Block
      <3>7. (B \cup {e}) \in SUBSET (taken' .. written' - 1)
        BY <1>1, <1>2, <2>1, <2>3, <3>2, <3>5 DEF LogTypes
      <3>8. taken' < written' => taken' \in B \cup {e}
        <4>1. taken < written => taken \in B
          BY <3>1 DEF Chain
        <4> QED BY <1>1, <1>2, <3>2, <3>5, <4>1 DEF LogTypes
      <3>9. ASSUME NEW b \in B \cup {e} PROVE Block(b)' /\ b + frame'[Place(b)'] \in (B \cup {e}) \cup {written'}
        BY <1>2, <3>3, <3>4, <3>6
      <3>10. Chain(B \cup {e})'
        BY <3>8, <3>9 DEF Chain
      <3> QED BY <3>7, <3>10 DEF Framed
    <2>6. WriterGrant'
      BY <2>1 DEF WriterGrant
    <2>7. ReaderGrant'
      BY <1>1, <1>2, <2>1 DEF ReaderGrant, LogTypes
    <2>8. Announced'
      BY <1>1, <1>2, <1>3, <2>1 DEF Announced, Telling
    <2> QED BY <1>1, <1>2, <2>2, <2>4, <2>5, <2>6, <2>7, <2>8 DEF LInv, Intact
  <1> QED BY <1>4, <1>5

LEMMA WrapWriteLInv == ASSUME LInv, WrapWrite PROVE LInv'
  <1>1. LogTypes /\ ~torn /\ Accounts /\ Framed /\ WriterGrant /\ ReaderGrant /\ Announced
    BY Sound DEF WrapWrite
  <1>2. /\ wpc = "wrap" /\ mWrite' = 0 /\ wpc' = "idle" /\ mWrite = Size
        /\ UNCHANGED <<slot, wlen, written, mRead, rpc, rlen, taken, torn, call, frame, arrive, pool>>
    BY <1>1 DEF WrapWrite, Ring!WrapWrite, Ring!readerVars, LogTypes
  <1>3. W' = W /\ R' = R
    BY <1>2 DEF W, R
  <1>4. LogTypes' /\ Accounts' /\ Framed'
    BY <1>1, <1>2, <1>3, SameChain DEF LogTypes, Accounts
  <1>5. WriterGrant' /\ ReaderGrant' /\ Announced'
    BY <1>1, <1>2 DEF WriterGrant, ReaderGrant, Announced, Telling
  <1> QED BY <1>1, <1>2, <1>4, <1>5 DEF LInv, Intact

LEMMA NotifyLInv == ASSUME LInv, Notify PROVE LInv'
  <1>1. LogTypes /\ ~torn /\ Accounts /\ Framed /\ WriterGrant /\ ReaderGrant /\ Announced
    BY Sound DEF Notify
  <1>2. wpc = "idle" /\ arrive' = arrive + 1 /\ call' = FALSE /\ UNCHANGED <<ringVars, frame, pool>>
    BY DEF Notify
  <1>5. W' = W /\ R' = R
    BY <1>2 DEF W, R, ringVars
  <1>3. arrive' \in Nat
    <2>1. arrive \in Nat /\ arrive' = arrive + 1
      BY <1>1, <1>2 DEF LogTypes
    <2> QED BY <2>1
  <1>4. LogTypes'
    BY <1>1, <1>2, <1>3 DEF LogTypes, ringVars
  <1>6. Accounts' /\ Framed'
    BY <1>1, <1>2, <1>5, SameChain DEF Accounts, ringVars
  <1>7. WriterGrant' /\ ReaderGrant' /\ Announced'
    BY <1>1, <1>2 DEF WriterGrant, ReaderGrant, Announced, ringVars, LogTypes
  <1> QED BY <1>1, <1>2, <1>4, <1>6, <1>7 DEF LInv, Intact, ringVars

LEMMA HandleLInv == ASSUME LInv, HandleDataArrive \/ RemoveMessages PROVE LInv'
  <1>1. LogTypes /\ ~torn /\ Accounts /\ Framed /\ WriterGrant /\ ReaderGrant /\ Announced
    BY Sound DEF HandleDataArrive, RemoveMessages
  <1>2. arrive' \in Nat /\ UNCHANGED <<ringVars, frame, call>>
    BY <1>1 DEF HandleDataArrive, RemoveMessages, LogTypes
  <1>3. W' = W /\ R' = R
    BY <1>2 DEF W, R, ringVars
  <1>4. LogTypes'
    BY <1>1, <1>2 DEF LogTypes, ringVars
  <1>6. Accounts' /\ Framed'
    BY <1>1, <1>2, <1>3, SameChain DEF Accounts, ringVars
  <1>5. WriterGrant' /\ ReaderGrant'
    BY <1>1, <1>2 DEF WriterGrant, ReaderGrant, ringVars
  <1>7. rpc = "idle" /\ pool' \in {"handling", "draining"}
    BY <1>1 DEF HandleDataArrive, RemoveMessages, Announced
  <1>8. Announced'
    BY <1>1, <1>2, <1>7 DEF Announced, ringVars
  <1> QED BY <1>1, <1>2, <1>4, <1>5, <1>6, <1>8 DEF LInv, Intact, ringVars

LEMMA GetReadHeadLInv == ASSUME LInv, GetReadHead PROVE LInv'
  <1>1. LogTypes /\ ~torn /\ Accounts /\ Framed /\ WriterGrant /\ ReaderGrant /\ Announced
    BY Sound DEF GetReadHead
  <1>2. /\ pool = "draining" /\ rpc = "idle" /\ rpc' = "granted" /\ rlen' = Ring!ReadSpace
        /\ torn' = (torn \/ (mRead = 0 /\ mWrite = Size))
        /\ UNCHANGED <<mRead, slot, taken, mWrite, wpc, wlen, written, call, frame, arrive, pool>>
    BY DEF GetReadHead, Ring!GetReadHead, Ring!writerVars
  <1>3. Ring!ReadSpace \in Nat
    BY <1>1, <1>2 DEF LogTypes, Ring!ReadSpace
  <1>4. LogTypes'
    BY <1>1, <1>2, <1>3 DEF LogTypes
  <1>5. ASSUME ~torn' PROVE Intact' /\ Announced'
    <2>1. /\ mRead + Ring!ReadSpace <= Size /\ taken + Ring!ReadSpace <= written
          /\ Ring!ReadSpace = 0 => taken = written
          /\ taken + Ring!ReadSpace = written \/ mRead + Ring!ReadSpace = Size
      BY <1>1, <1>2, <1>5, Spaces
    <2>2. W' = W /\ R' = R
      BY <1>2 DEF W, R
    <2>3. Accounts' /\ Framed' /\ WriterGrant'
      BY <1>1, <1>2, <2>2, SameChain DEF Accounts, WriterGrant
    <2>4. ASSUME Ring!ReadSpace > 0 PROVE frame[mRead] <= Ring!ReadSpace
      <3>1. taken < written /\ mRead < Size
        BY <1>1, <1>2, <1>3, <2>1, <2>4 DEF LogTypes
      <3>2. mRead + frame[mRead] <= Size /\ taken + frame[mRead] <= written /\ frame[mRead] \in Nat
        BY <1>1, <3>1, FirstBlock DEF LogTypes
      <3> QED BY <1>1, <1>3, <2>1, <3>2 DEF LogTypes
    <2>5. ReaderGrant'
      BY <1>2, <2>1, <2>4 DEF ReaderGrant
    <2>6. Announced'
      BY <1>1, <1>2, <2>1 DEF Announced, Telling
    <2> QED BY <2>3, <2>5, <2>6 DEF Intact
  <1> QED BY <1>2, <1>4, <1>5 DEF LInv

LEMMA DrainedLInv == ASSUME LInv, Drained PROVE LInv'
  <1>1. LogTypes /\ ~torn /\ Accounts /\ Framed /\ WriterGrant /\ ReaderGrant /\ Announced
    BY Sound DEF Drained
  <1>2. /\ pool = "draining" /\ rpc = "granted" /\ rlen = 0 /\ rpc' = "idle" /\ pool' = "asleep"
        /\ UNCHANGED <<mWrite, mRead, slot, wpc, wlen, rlen, written, taken, torn, call, frame, arrive>>
    BY DEF Drained
  <1>3. W' = W /\ R' = R
    BY <1>2 DEF W, R
  <1>4. LogTypes' /\ Accounts' /\ Framed'
    BY <1>1, <1>2, <1>3, SameChain DEF LogTypes, Accounts
  <1>5. WriterGrant' /\ ReaderGrant' /\ Announced'
    BY <1>1, <1>2 DEF WriterGrant, ReaderGrant, Announced, Telling
  <1> QED BY <1>1, <1>2, <1>4, <1>5 DEF LInv, Intact

LEMMA UseLInv == ASSUME LInv, Use PROVE LInv'
  <1>1. LogTypes /\ ~torn /\ Accounts /\ Framed /\ WriterGrant /\ ReaderGrant /\ Announced
    BY Sound DEF Use
  <1>2. /\ pool = "draining" /\ rpc = "granted" /\ rlen > 0 /\ rpc' = "used" /\ rlen' = frame[mRead]
        /\ UNCHANGED <<mWrite, mRead, slot, wpc, wlen, written, taken, torn, call, frame, arrive, pool>>
    BY DEF Use
  <1>3. W' = W /\ R' = R
    BY <1>2 DEF W, R
  <1>4. taken < written /\ mRead < Size /\ mRead \in 0 .. Size - 1
    BY <1>1, <1>2 DEF LogTypes, ReaderGrant
  <1>5. /\ frame[mRead] \in Nat /\ frame[mRead] > 0
        /\ mRead + frame[mRead] <= Size /\ taken + frame[mRead] <= written
    BY <1>1, <1>4, FirstBlock DEF LogTypes
  <1>6. LogTypes' /\ Accounts' /\ Framed'
    BY <1>1, <1>2, <1>3, <1>5, SameChain DEF LogTypes, Accounts
  <1>7. WriterGrant' /\ ReaderGrant' /\ Announced'
    BY <1>1, <1>2, <1>5 DEF WriterGrant, ReaderGrant, Announced, Telling
  <1> QED BY <1>1, <1>2, <1>6, <1>7 DEF LInv, Intact

LEMMA SubmitReadLInv == ASSUME LInv, SubmitRead PROVE LInv'
  <1>1. LogTypes /\ ~torn /\ Accounts /\ Framed /\ WriterGrant /\ ReaderGrant /\ Announced
    BY Sound DEF SubmitRead
  <1>2. /\ rpc = "used" /\ mRead \in 0 .. Size - 1 /\ rlen \in Nat /\ rlen > 0 /\ frame[mRead] = rlen
        /\ mRead + rlen <= Size /\ taken + rlen <= written /\ rlen <= Ring!ReadSpace
        /\ Ring!ReadSpace \in Nat
    BY <1>1, Spaces DEF SubmitRead, Ring!SubmitRead, LogTypes, ReaderGrant, Ring!ReadSpace
  <1>3. /\ taken' = taken + rlen /\ rlen' = 0 /\ rpc' \in {"idle", "wrap"} /\ wpc' = wpc
        /\ mRead' = IF mRead + rlen = Size /\ OneStore THEN 0 ELSE mRead + rlen
        /\ mRead' = Size <=> rpc' = "wrap"
        /\ UNCHANGED <<slot, torn, mWrite, wlen, written, call, frame, arrive, pool>>
    <2>1. ~(Ring!ReadSpace < rlen) /\ wpc # "wait"
      BY <1>1, <1>2 DEF LogTypes
    <2> QED BY <1>2, <2>1 DEF SubmitRead, Ring!SubmitRead, Ring!Signal
  <1>4. LogTypes'
    BY <1>1, <1>2, <1>3 DEF LogTypes
  <1>5. /\ W' = W /\ R = mRead /\ W \in 0 .. Size - 1
        /\ R' = IF mRead + rlen = Size THEN 0 ELSE mRead + rlen
    BY <1>1, <1>2, <1>3 DEF R, W, LogTypes
  <1>6. Accounts'
    BY <1>1, <1>2, <1>3, <1>5 DEF Accounts, LogTypes
  <1>7. \A b \in taken' .. written : Place(b)' = Place(b)
    BY <1>1, <1>2, <1>3, <1>5, Occupied DEF Place, LogTypes
  <1>8. Framed'
    <2>1. PICK B \in SUBSET (taken .. written - 1) : Chain(B)
      BY <1>1 DEF Framed
    <2>2. PICK C : C = {b \in B : taken + rlen <= b}
      OBVIOUS
    <2>3. C \in SUBSET (taken' .. written' - 1)
      <3>1. \A b \in C : b \in taken .. written - 1 /\ taken + rlen <= b
        BY <2>1, <2>2
      <3>2. \A b \in C : b \in taken' .. written' - 1
        BY <1>1, <1>2, <1>3, <3>1 DEF LogTypes
      <3> QED BY <3>2
    <2>4. taken' < written' => taken' \in C
      <3>1. taken \in B /\ taken + frame[Place(taken)] \in B \cup {written}
        <4>1. taken < written
          BY <1>1, <1>2 DEF LogTypes
        <4> QED BY <2>1, <4>1 DEF Chain
      <3>2. Place(taken) = mRead
        BY <1>1, <1>2, <1>5 DEF Place, LogTypes
      <3> QED BY <1>1, <1>2, <1>3, <2>2, <3>1, <3>2 DEF LogTypes
    <2>5. ASSUME NEW b \in C PROVE Block(b)' /\ b + frame'[Place(b)'] \in C \cup {written'}
      <3>1. Block(b) /\ b + frame[Place(b)] \in B \cup {written} /\ b \in B /\ b \in taken' .. written
        <4>1. b \in B /\ taken + rlen <= b
          BY <2>2
        <4>2. b \in taken' .. written
          BY <1>1, <1>2, <1>3, <2>1, <4>1 DEF LogTypes
        <4> QED BY <2>1, <4>1, <4>2 DEF Chain
      <3>2. PICK p : p = Place(b)
        OBVIOUS
      <3>3. p \in 0 .. Size - 1 /\ b \in Int
        BY <1>1, <1>2, <1>3, <1>5, <3>1, <3>2 DEF Place, LogTypes, Accounts
      <3>4. frame[p] \in Nat /\ Place(b)' = p
        BY <1>1, <1>7, <3>1, <3>2, <3>3 DEF LogTypes
      <3>5. b + frame[p] \in C \cup {written}
        BY <1>1, <1>2, <1>3, <2>2, <3>1, <3>2, <3>3, <3>4 DEF LogTypes
      <3> QED BY <1>3, <3>1, <3>2, <3>4, <3>5 DEF Block
    <2>6. Chain(C)'
      BY <2>4, <2>5 DEF Chain
    <2> QED BY <2>3, <2>6 DEF Framed
  <1>9. WriterGrant'
    <2>1. wpc = "granted" => written' - taken' + wlen' <= Size - 1 /\ mWrite + wlen <= Size
      BY <1>1, <1>2, <1>3 DEF WriterGrant, LogTypes
    <2> QED BY <1>1, <1>3, <2>1 DEF WriterGrant
  <1>10. ReaderGrant' /\ Announced'
    BY <1>1, <1>2, <1>3 DEF ReaderGrant, Announced, Telling
  <1> QED BY <1>1, <1>3, <1>4, <1>6, <1>8, <1>9, <1>10 DEF LInv, Intact

LEMMA WrapReadLInv == ASSUME LInv, WrapRead PROVE LInv'
  <1>1. LogTypes /\ ~torn /\ Accounts /\ Framed /\ WriterGrant /\ ReaderGrant /\ Announced
    BY Sound DEF WrapRead
  <1>2. /\ rpc = "wrap" /\ mRead = Size /\ mRead' = 0 /\ rpc' = "idle" /\ wpc' = wpc
        /\ UNCHANGED <<mWrite, slot, wlen, written, rlen, taken, torn, call, frame, arrive, pool>>
    BY <1>1 DEF WrapRead, Ring!WrapRead, Ring!Signal, LogTypes
  <1>3. W' = W /\ R' = R
    BY <1>2 DEF W, R
  <1>4. LogTypes' /\ Accounts' /\ Framed'
    BY <1>1, <1>2, <1>3, SameChain DEF LogTypes, Accounts
  <1>5. WriterGrant' /\ ReaderGrant' /\ Announced'
    BY <1>1, <1>2 DEF WriterGrant, ReaderGrant, Announced, Telling
  <1> QED BY <1>1, <1>2, <1>4, <1>5 DEF LInv, Intact

LEMMA StepLInv == LInv /\ [Next]_vars => LInv'
  <1> SUFFICES ASSUME LInv, [Next]_vars PROVE LInv'
    OBVIOUS
  <1>1. CASE LogCall
    BY <1>1, GetWriteHeadLInv, SubmitWriteLInv, WrapWriteLInv, NotifyLInv, DropLInv, OverrunLInv, FormatLInv
    DEF LogCall
  <1>2. CASE Receive
    BY <1>2, HandleLInv, GetReadHeadLInv, DrainedLInv, UseLInv, SubmitReadLInv, WrapReadLInv DEF Receive
  <1>3. CASE UNCHANGED vars
    <2>1. W' = W /\ R' = R
      BY <1>3 DEF W, R, vars
    <2>2. Framed => Framed'
      BY <1>3, <2>1, SameChain DEF vars
    <2> QED
      BY <1>3, <2>1, <2>2
      DEF vars, LInv, LogTypes, Intact, Accounts, WriterGrant, ReaderGrant, Announced, Telling
  <1> QED BY <1>1, <1>2, <1>3 DEF Next

LEMMA Invariance == Spec => []LInv
  BY InitLInv, StepLInv, PTL DEF Spec

-----------------------------------------------------------------------------
\* What receiveData is granted begins with a block that says its size and is in
\* the buffer as a whole, for every size of the buffer, of the headers and of
\* the messages: also where a block claims more than the writer was granted and
\* its submit is accepted all the same.
THEOREM BlocksStayWhole == Spec => []BlocksAreWhole
  <1>1. LInv => BlocksAreWhole
    <2> SUFFICES ASSUME LInv, ~torn, rpc = "granted", rlen > 0
                 PROVE  /\ frame[mRead] \in 1 .. rlen
                        /\ \A k \in 0 .. frame[mRead] - Slack - 1 : slot[mRead + k] = taken + 1 + k
      BY DEF BlocksAreWhole
    <2>1. LogTypes /\ Accounts /\ Framed /\ ReaderGrant
      BY DEF LInv, Intact
    <2>2. mRead \in 0 .. Size - 1 /\ rlen \in Nat /\ taken < written /\ frame[mRead] <= rlen
      BY <2>1 DEF ReaderGrant, LogTypes
    <2>3. /\ frame[mRead] > 0 /\ mRead + frame[mRead] <= Size
          /\ \A k \in 0 .. Size - 1 : k + Slack < frame[mRead] => slot[mRead + k] = taken + 1 + k
      BY <2>1, <2>2, FirstBlock
    <2>4. frame[mRead] \in Nat
      BY <2>1, <2>2 DEF LogTypes
    <2>5. ASSUME NEW k \in 0 .. frame[mRead] - Slack - 1 PROVE slot[mRead + k] = taken + 1 + k
      <3>1. k \in 0 .. Size - 1 /\ k + Slack < frame[mRead]
        BY <2>2, <2>3, <2>4
      <3> QED BY <2>3, <3>1
    <2> QED BY <2>2, <2>3, <2>4, <2>5
  <1> QED BY <1>1, Invariance, PTL

\* Whatever the interleaving of a log call with the end of receiveData, a block
\* in the buffer is announced by a message or by the call that brought it.
THEOREM BlocksAreAnnounced == Spec => []NobodyForgets
  <1>1. LInv => NobodyForgets
    BY DEF LInv, Announced, Telling, NobodyForgets, LogTypes
  <1> QED BY <1>1, Invariance, PTL

-----------------------------------------------------------------------------
\* receiveData does not turn on one place: each submit of a block is accepted
\* and takes the reader further.
EachBlockAdvances == [][SubmitRead => taken' > taken /\ refused' = refused]_vars

\* No block with size 0 and no refused submit ever keeps the message thread in
\* the loop of receiveData.
THEOREM DrainingAdvances == Spec => EachBlockAdvances
  <1>1. ASSUME LInv, SubmitRead PROVE taken' > taken /\ refused' = refused
    <2>1. LogTypes /\ Accounts /\ ReaderGrant
      BY <1>1, Sound DEF SubmitRead
    <2>2. /\ rpc = "used" /\ rlen \in Nat /\ rlen > 0 /\ rlen <= Ring!ReadSpace /\ Ring!ReadSpace \in Nat
      BY <1>1, <2>1, Spaces DEF SubmitRead, Ring!SubmitRead, LogTypes, ReaderGrant, Ring!ReadSpace
    <2>3. ~(Ring!ReadSpace < rlen)
      BY <2>2
    <2> QED BY <1>1, <2>1, <2>2, <2>3 DEF SubmitRead, Ring!SubmitRead, LogTypes
  <1>2. LInv /\ [Next]_vars => [SubmitRead => taken' > taken /\ refused' = refused]_vars
    BY <1>1
  <1> QED BY <1>2, Invariance, PTL DEF Spec, EachBlockAdvances

\* The log's ring is a pipe of Size - 1 bytes for whole blocks, as long as no
\* reader has taken the writer's index between its two stores.
LogPipe == [][Ring!Stream!Write \/ Ring!Stream!Read \/ torn']_<<written, taken>>

\* ... although a submit may claim more than it was granted and may be refused.
THEOREM LogIsAPipe == Spec => LogPipe
  <1>1. ASSUME LInv, LInv', ~torn', [Next]_vars
        PROVE  [Ring!Stream!Write \/ Ring!Stream!Read]_<<written, taken>>
    <2>1. /\ written \in Nat /\ taken \in Nat /\ written' \in Nat /\ taken' \in Nat
          /\ wlen \in Nat /\ rlen \in Nat
      BY <1>1 DEF LInv, LogTypes
    <2>2. taken' <= written' /\ written' - taken' < Size
      <3>1. LogTypes' /\ Accounts'
        BY <1>1 DEF LInv, Intact
      <3>2. (taken <= written /\ written - taken < Size)'
        BY <3>1, Occupied, PTL
      <3> QED BY <3>2
    <2>3. CASE UNCHANGED <<written, taken>>
      BY <2>3
    <2>4. CASE written' = written + wlen /\ taken' = taken
      <3>1. written' \in written .. taken + (Size - 1)
        BY <2>1, <2>2, <2>4
      <3> QED BY <2>4, <3>1 DEF Ring!Stream!Write
    <2>5. CASE taken' = taken + rlen /\ written' = written
      <3>1. taken' \in taken .. written
        BY <2>1, <2>2, <2>5
      <3> QED BY <2>5, <3>1 DEF Ring!Stream!Read
    <2>6. \/ UNCHANGED <<written, taken>>
          \/ written' = written + wlen /\ taken' = taken
          \/ taken' = taken + rlen /\ written' = written
      <3>1. CASE SubmitWrite
        BY <3>1 DEF SubmitWrite, Ring!SubmitWrite, Ring!readerVars
      <3>2. CASE SubmitRead
        BY <3>2 DEF SubmitRead, Ring!SubmitRead
      <3>3. CASE UNCHANGED vars
        BY <3>3 DEF vars
      <3>4. CASE LogCall /\ ~SubmitWrite
        BY <3>4 DEF LogCall, GetWriteHead, Drop, Overrun, Format, WrapWrite, Notify,
           Ring!GetWriteHead, Ring!WrapWrite, Ring!readerVars, ringVars
      <3>5. CASE Receive /\ ~SubmitRead
        BY <3>5 DEF Receive, HandleDataArrive, RemoveMessages, GetReadHead, Drained, Use, WrapRead,
           Ring!GetReadHead, Ring!WrapRead, Ring!writerVars, ringVars
      <3> QED BY <1>1, <3>1, <3>2, <3>3, <3>4, <3>5 DEF Next
    <2> QED BY <2>3, <2>4, <2>5, <2>6
  <1>2. LInv /\ LInv' /\ [Next]_vars => [Ring!Stream!Write \/ Ring!Stream!Read \/ torn']_<<written, taken>>
    BY <1>1 DEF LInv, LogTypes
  <1> QED BY <1>2, Invariance, PTL DEF Spec, LogPipe
=============================================================================
