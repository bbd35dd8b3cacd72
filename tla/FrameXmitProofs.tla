-------------------------- MODULE FrameXmitProofs ---------------------------
(***************************************************************************)
(* Proofs about the frame broadcast, for any number of radio buffers,      *)
(* packets and frames and any loss, duplication and reordering of packets: *)
(* IndInv is inductive, and from it QueuedDataIntact, PoolSuffices and     *)
(* AcceptedIsSent; as long as the sequence numbers do not repeat, receive  *)
(* implements FrameChannel.                                                *)
(***************************************************************************)
EXTENDS FrameXmit, NumberLemmas, FiniteSetTheorems, FunctionTheorems, TLAPS

-----------------------------------------------------------------------------
(* Numbers, packet lists, the pool *)

\* Sequence numbers are below SeqMod.
LEMMA SeqRange == \A x \in Int : x % SeqMod \in Seqs
  BY SizesAssumption DEF Seqs

\* A list of packets without duplicates.
NoDuplicates(list) ==
    /\ list \subseteq PacketType
    /\ \A p, q \in list : p.seq = q.seq /\ p.num = q.num => p = q

\* The sorted packet list has a front.
LEMMA FrontInList ==
    ASSUME NEW list, NoDuplicates(list), list # {}
    PROVE  Front(list) \in list
<1> DEFINE S == {p.seq : p \in list}
<1>1. \A p \in list : p.seq \in Nat /\ p.num \in Nat
  BY SizesAssumption DEF NoDuplicates, PacketType, Seqs, PktIds
<1>2. S \in SUBSET Nat /\ S # {}
  BY <1>1
<1>3. PICK s \in S : \A t \in S : s <= t
  BY <1>2, LeastElement
<1> DEFINE N == {p.num : p \in {q \in list : q.seq = s}}
<1>4. N \in SUBSET Nat /\ N # {}
  BY <1>1, <1>3
<1>5. PICK n \in N : \A m \in N : n <= m
  BY <1>4, LeastElement
<1>6. PICK p \in list : p.seq = s /\ p.num = n
  BY <1>5
<1>7. ASSUME NEW q \in list
      PROVE  q = p \/ Before(p, q)
  <2>1. s <= q.seq /\ (q.seq = s => n <= q.num)
    BY <1>3, <1>5
  <2>2. s \in Nat /\ n \in Nat /\ q.seq \in Nat /\ q.num \in Nat
    BY <1>1, <1>6
  <2>3. CASE q.seq = s /\ q.num = n
    BY <1>6, <2>3 DEF NoDuplicates
  <2>4. CASE q.seq = s /\ q.num # n
    BY <1>6, <2>1, <2>2, <2>4 DEF Before
  <2>5. CASE q.seq # s
    BY <1>6, <2>1, <2>2, <2>5 DEF Before
  <2> QED BY <2>3, <2>4, <2>5
<1>8. \E x \in list : \A q \in list : q = x \/ Before(x, q)
  BY <1>6, <1>7
<1> QED BY <1>8 DEF Front

\* The types of the queue, field by field.
LEMMA QueueType ==
    ASSUME TypeOK
    PROVE  /\ Len(buffers) \in Nat /\ curbuf \in Int /\ nextFrame \in Nat
           /\ curbuf >= -1 /\ curbuf <= Len(buffers)
           /\ \A i \in 1..Len(buffers) :
                /\ buffers[i] \in Buffer
                /\ buffers[i].seq \in Seqs /\ buffers[i].radio \in RadioIds
                /\ buffers[i].total \in 1..MaxPackets
                /\ buffers[i].sofar \in 0..MaxPackets
<1>1. buffers \in Seq(Buffer)
  BY DEF TypeOK
<1>2. \A i \in 1..Len(buffers) : buffers[i] \in Buffer
  BY <1>1, Element
<1>3. \A b \in Buffer : /\ b.seq \in Seqs /\ b.radio \in RadioIds
                        /\ b.total \in 1..MaxPackets /\ b.sofar \in 0..MaxPackets
  BY DEF Buffer
<1>4. /\ Len(buffers) \in Nat /\ curbuf \in Int /\ nextFrame \in Nat
      /\ curbuf >= -1 /\ curbuf <= Len(buffers)
  BY <1>1, FramesAssumption DEF TypeOK
<1> QED BY <1>2, <1>3, <1>4

\* The network writer has one radio buffer more than the queue holds: as long
\* as those in use are queued there is a free one.
LEMMA PoolHasFree ==
    ASSUME TypeOK, Len(buffers) <= MaxBuffers,
           \A r \in RadioIds : inUse[r] =>
               \E i \in 1..Len(buffers) : buffers[i].radio = r
    PROVE  FreeBufs # {}
<1> SUFFICES ASSUME FreeBufs = {} PROVE FALSE
  OBVIOUS
<1> DEFINE n == Len(buffers)
           f == [i \in 1..n |-> buffers[i].radio]
<1>1. n \in Nat /\ buffers \in Seq(Buffer)
  BY DEF TypeOK
<1>2. \A i \in 1..n : f[i] \in RadioIds
  BY QueueType
<1>3. \A r \in RadioIds : \E i \in 1..n : f[i] = r
  BY DEF FreeBufs
<1>4. f \in Surjection(1..n, RadioIds)
  BY <1>2, <1>3 DEF Surjection
<1> HIDE DEF f
<1>5. ExistsSurjection(1..n, RadioIds)
  BY <1>4 DEF ExistsSurjection
<1>6. Cardinality(RadioIds) <= n
  BY <1>1, <1>5, FS_SurjCardinalityBound
<1>7. Cardinality(RadioIds) = RadioBufs
  <2>1. RadioBufs \in Nat /\ RadioBufs - 1 \in Int /\ ~(0 > RadioBufs - 1)
    BY SizesAssumption
  <2>2. Cardinality(0..(RadioBufs - 1)) = RadioBufs - 1 - 0 + 1
    BY <2>1, FS_Interval
  <2> QED BY <2>1, <2>2 DEF RadioIds
<1> QED BY <1>1, <1>6, <1>7, SizesAssumption

-----------------------------------------------------------------------------
(* The network writer and send *)

\* What a step of the network writer that changes no queue leaves alone.
LEMMA WriterStep ==
    ASSUME IndInv, UNCHANGED <<inUse, queueVars, dpc, netVars, recvVars>>,
           wpc # "aborted", wpc' \in {"idle", "filled"}, wbuf' \in RadioIds,
           bufdata' \in [RadioIds -> Frames \union {NoFrame}],
           \A r \in RadioIds : inUse[r] => bufdata'[r] = bufdata[r],
           wpc' = "filled" => /\ ~inUse[wbuf'] /\ bufdata'[wbuf'] = nextFrame
                              /\ nextFrame <= LastFrame
    PROVE  IndInv'
<1> USE DEF queueVars, netVars, recvVars
<1>1. TypeOK'
  BY DEF IndInv, TypeOK
<1>2. \A i \in 1..Len(buffers) : FrameAt(i)' = FrameAt(i)
  BY DEF FrameAt
<1>3. QueueInv'
  <2>1. QueuedDataIntact'
    BY <1>2, QueueType DEF IndInv, QueueInv, QueuedDataIntact
  <2> QED BY <1>2, <2>1 DEF IndInv, QueueInv
<1>4. RadioInv'
  BY DEF IndInv, RadioInv, PoolSuffices
<1>5. NetInv'
  BY DEF IndInv, NetInv
<1>6. SentInv'
  BY <1>2 DEF IndInv, SentInv, SentInFull, PacketOf
<1> QED BY <1>1, <1>3, <1>4, <1>5, <1>6 DEF IndInv

\* A free radio buffer is filled; the queued ones keep their data.
LEMMA FillRadioBufferKeeps ==
    ASSUME IndInv, FillRadioBuffer
    PROVE  IndInv'
<1>1. FreeBufs # {}
  BY PoolHasFree DEF IndInv, QueueInv, RadioInv
<1>2. FreeBufs \in SUBSET Nat
  BY SizesAssumption DEF FreeBufs, RadioIds
<1>3. \E r \in FreeBufs : \A q \in FreeBufs : r <= q
  BY <1>1, <1>2, LeastElement
<1>4. /\ wbuf' = CHOOSE r \in FreeBufs : \A q \in FreeBufs : r <= q
      /\ bufdata' = [bufdata EXCEPT ![wbuf'] = nextFrame]
      /\ wpc' = "filled"
  BY <1>1 DEF FillRadioBuffer
<1>5. wbuf' \in FreeBufs
  BY <1>3, <1>4
<1>6. wbuf' \in RadioIds /\ ~inUse[wbuf']
  BY <1>5 DEF FreeBufs
<1>7. nextFrame \in Frames /\ nextFrame <= LastFrame
  BY FramesAssumption DEF FillRadioBuffer, IndInv, TypeOK, Frames
<1>8. /\ bufdata' \in [RadioIds -> Frames \union {NoFrame}]
      /\ bufdata'[wbuf'] = nextFrame
      /\ \A r \in RadioIds : inUse[r] => bufdata'[r] = bufdata[r]
  BY <1>4, <1>6, <1>7 DEF IndInv, TypeOK
<1> QED BY <1>4, <1>6, <1>7, <1>8, WriterStep DEF FillRadioBuffer

\* The frame is dropped.
LEMMA SendClosedKeeps ==
    ASSUME IndInv, SendClosed
    PROVE  IndInv'
  BY WriterStep DEF SendClosed, IndInv, TypeOK

\* Before the flush the queue has no gap.
LEMMA NoneSkipped ==
    ASSUME IndInv, wpc # "aborted"
    PROVE  /\ skippedDataBuffers = 0
           /\ \A i \in Int : FrameAt(i) = nextFrame - 1 - (Len(buffers) - i)
<1>1. skippedDataBuffers = 0
  BY DEF IndInv, QueueInv
<1>2. Len(buffers) \in Nat /\ nextFrame \in Nat
  BY QueueType DEF IndInv
<1> QED BY <1>1, <1>2 DEF FrameAt

\* How many buffers send destroys.
Popped == IF TooManyOld THEN 1 ELSE 0

\* send moves the window of the queue: one frame more, and Popped frames less.
LEMMA SendFacts ==
    ASSUME IndInv, Send
    PROVE  /\ Popped \in {0, 1} /\ Popped <= Len(buffers) /\ Popped <= curbuf + 1
           /\ Len(buffers') = Len(buffers) + 1 - Popped
           /\ Len(buffers') <= MaxBuffers
           /\ NewBuffer \in Buffer
           /\ buffers' \in Seq(Buffer)
           /\ \A i \in 1..(Len(buffers) - Popped) : buffers'[i] = buffers[i + Popped]
           /\ buffers'[Len(buffers')] = NewBuffer
           /\ curbuf' = IF curbuf = -1 THEN 0 ELSE curbuf - Popped
           /\ \A i \in 1..Len(buffers') : FrameAt(i)' = FrameAt(i + Popped)
           /\ curbuf # -1 => curbuf - Popped >= 0
           /\ inUse' \in [RadioIds -> BOOLEAN] /\ inUse'[wbuf]
           /\ \A r \in RadioIds : r # wbuf =>
                inUse'[r] = (inUse[r] /\ (Popped = 1 => r # buffers[1].radio))
<1> DEFINE n == Len(buffers)
           h == MaxBuffers \div 2
<1>1. /\ n \in Nat /\ curbuf \in Int /\ nextFrame \in Nat
      /\ curbuf >= -1 /\ curbuf <= n /\ buffers \in Seq(Buffer)
  BY QueueType DEF IndInv, TypeOK
<1>2. h \in Nat /\ h >= 1 /\ h <= MaxBuffers
  BY SizesAssumption
<1>3. NewBuffer \in Buffer
  <2>1. nextFrame \in Frames
    BY FramesAssumption DEF IndInv, TypeOK, RadioInv, Send, Frames
  <2>2. nextFrame % SeqMod \in Seqs
    BY <1>1, SeqRange
  <2>3. PktTotal(nextFrame) \in 1..MaxPackets /\ 0 \in 0..MaxPackets
    BY <2>1, FramesAssumption, SizesAssumption
  <2> QED BY <2>2, <2>3 DEF NewBuffer, Buffer, IndInv, TypeOK
<1>4. wbuf \in RadioIds /\ inUse \in [RadioIds -> BOOLEAN] /\ ~inUse[wbuf]
  BY DEF IndInv, TypeOK, RadioInv, Send
<1>5. skippedDataBuffers = 0 /\ skippedDataBuffers' = 0
  BY NoneSkipped DEF Send
<1>6. CASE TooManyOld
  <2>1. curbuf >= 1 /\ n >= 1 /\ Popped = 1 /\ curbuf # -1
    BY <1>1, <1>2, <1>6 DEF TooManyOld, Popped
  <2>2. /\ buffers' = Append(Tail(buffers), NewBuffer)
        /\ curbuf' = curbuf - 1
        /\ inUse' = [inUse EXCEPT ![wbuf] = TRUE, ![Head(buffers).radio] = FALSE]
        /\ nextFrame' = nextFrame + 1
    BY <1>6 DEF Send, Enqueue
  <2>3. /\ buffers' \in Seq(Buffer) /\ Len(buffers') = n
        /\ \A i \in 1..(n - 1) : buffers'[i] = buffers[i + 1]
        /\ buffers'[n] = NewBuffer
    <3> DEFINE t == Tail(buffers)
    <3>1. t \in Seq(Buffer) /\ Len(t) = n - 1 /\ \A i \in 1..(n - 1) : t[i] = buffers[i + 1]
      BY <1>1, <2>1
    <3> HIDE DEF t
    <3>2. buffers' = Append(t, NewBuffer)
      BY <2>2 DEF t
    <3> QED BY <1>1, <1>3, <2>1, <3>1, <3>2
  <2>4. \A i \in 1..n : FrameAt(i)' = FrameAt(i + 1)
    BY <1>1, <1>5, <2>2, <2>3 DEF FrameAt
  <2>5. Head(buffers) = buffers[1] /\ buffers[1].radio \in RadioIds
    BY <1>1, <2>1, QueueType DEF IndInv
  <2>6. inUse[buffers[1].radio]
    BY <1>1, <2>1 DEF IndInv, QueueInv, QueuedDataIntact
  <2>7. buffers[1].radio # wbuf
    BY <1>4, <2>6
  <2>8. /\ inUse' \in [RadioIds -> BOOLEAN] /\ inUse'[wbuf]
        /\ \A r \in RadioIds : r # wbuf =>
             inUse'[r] = (inUse[r] /\ r # buffers[1].radio)
    <3> DEFINE x == buffers[1].radio
    <3>1. inUse' = [inUse EXCEPT ![wbuf] = TRUE, ![x] = FALSE] /\ x \in RadioIds /\ x # wbuf
      BY <2>2, <2>5, <2>7
    <3> HIDE DEF x
    <3>2. /\ inUse' \in [RadioIds -> BOOLEAN] /\ inUse'[wbuf]
          /\ \A r \in RadioIds : r # wbuf =>
             inUse'[r] = (inUse[r] /\ r # x)
      BY <1>4, <3>1
    <3> QED BY <3>2 DEF x
  <2>9. n <= MaxBuffers
    BY DEF IndInv, QueueInv
  <2>10. /\ \A i \in 1..(n - Popped) : buffers'[i] = buffers[i + Popped]
         /\ \A i \in 1..n : FrameAt(i)' = FrameAt(i + Popped)
    BY <2>1, <2>3, <2>4
  <2>11. /\ Popped \in {0, 1} /\ Popped <= n /\ Popped <= curbuf + 1
         /\ Len(buffers') = n + 1 - Popped /\ Len(buffers') <= MaxBuffers
         /\ curbuf' = IF curbuf = -1 THEN 0 ELSE curbuf - Popped
         /\ curbuf # -1 => curbuf - Popped >= 0
    BY <1>1, <2>1, <2>2, <2>3, <2>9
  <2>12. \A r \in RadioIds : r # wbuf =>
           inUse'[r] = (inUse[r] /\ (Popped = 1 => r # buffers[1].radio))
    BY <2>1, <2>8
  <2> QED BY <1>3, <2>3, <2>8, <2>10, <2>11, <2>12
<1>7. CASE ~TooManyOld
  <2>1. Popped = 0
    BY <1>7 DEF Popped
  <2>2. /\ buffers' = Append(buffers, NewBuffer)
        /\ curbuf' = IF curbuf = -1 THEN 0 ELSE curbuf
        /\ inUse' = [inUse EXCEPT ![wbuf] = TRUE]
        /\ nextFrame' = nextFrame + 1
    BY <1>7 DEF Send, Enqueue
  <2>3. /\ buffers' \in Seq(Buffer) /\ Len(buffers') = n + 1
        /\ \A i \in 1..n : buffers'[i] = buffers[i]
        /\ buffers'[n + 1] = NewBuffer
    BY <1>1, <1>3, <2>2
  <2>5. /\ inUse' \in [RadioIds -> BOOLEAN] /\ inUse'[wbuf]
        /\ \A r \in RadioIds : r # wbuf => inUse'[r] = inUse[r]
    BY <1>4, <2>2
  <2>6. n + 1 <= MaxBuffers
    <3>1. CASE curbuf = -1
      BY <1>1, <3>1, SizesAssumption DEF IndInv, QueueInv
    <3>2. CASE curbuf # -1
      BY <1>1, <1>7, <3>2, SizesAssumption DEF Send, QueueFull
    <3> QED BY <3>1, <3>2
  <2>7. \A i \in 1..(n - Popped) : buffers'[i] = buffers[i + Popped]
    BY <1>1, <2>1, <2>3
  <2>8. \A i \in 1..(n + 1) : FrameAt(i)' = FrameAt(i + Popped)
    BY <1>1, <1>5, <2>1, <2>2, <2>3 DEF FrameAt
  <2>9. /\ Popped \in {0, 1} /\ Popped <= n /\ Popped <= curbuf + 1
        /\ Len(buffers') = n + 1 - Popped /\ Len(buffers') <= MaxBuffers
        /\ curbuf' = IF curbuf = -1 THEN 0 ELSE curbuf - Popped
        /\ curbuf # -1 => curbuf - Popped >= 0
    BY <1>1, <2>1, <2>2, <2>3, <2>6
  <2>10. \A r \in RadioIds : r # wbuf =>
           inUse'[r] = (inUse[r] /\ (Popped = 1 => r # buffers[1].radio))
    <3>1. \A r \in RadioIds : inUse[r] \in BOOLEAN
      BY <1>4
    <3> QED BY <2>1, <2>5, <3>1
  <2> QED BY <1>3, <2>3, <2>5, <2>7, <2>8, <2>9, <2>10
<1> QED BY <1>6, <1>7

\* send keeps the queue a window of the accepted frames, and what it destroys
\* was sent.
LEMMA SendKeeps ==
    ASSUME IndInv, Send
    PROVE  IndInv'
<1> DEFINE n == Len(buffers)
           m == Len(buffers')
           k == Popped
<1> USE DEF queueVars, netVars, recvVars
<1>1. /\ k \in {0, 1} /\ k <= n /\ k <= curbuf + 1 /\ m = n + 1 - k
      /\ m <= MaxBuffers /\ buffers' \in Seq(Buffer)
      /\ curbuf' = (IF curbuf = -1 THEN 0 ELSE curbuf - k)
      /\ curbuf # -1 => curbuf - k >= 0
      /\ inUse' \in [RadioIds -> BOOLEAN] /\ inUse'[wbuf]
  BY SendFacts
<1>2. \A i \in 1..(n - k) : buffers'[i] = buffers[i + k]
  BY SendFacts
<1>3. buffers'[m] = NewBuffer
  BY SendFacts
<1>4. \A i \in 1..m : FrameAt(i)' = FrameAt(i + k)
  BY SendFacts
<1>5. \A r \in RadioIds : r # wbuf =>
        inUse'[r] = (inUse[r] /\ (k = 1 => r # buffers[1].radio))
  BY SendFacts
<1>6. /\ n \in Nat /\ curbuf \in Int /\ nextFrame \in Nat
      /\ curbuf >= -1 /\ curbuf <= n
  BY QueueType DEF IndInv
<1>7. \A i \in 1..n : /\ buffers[i].radio \in RadioIds
                      /\ buffers[i].total \in 1..MaxPackets
                      /\ buffers[i].sofar \in 0..MaxPackets
  BY QueueType DEF IndInv
<1>8. /\ wpc = "filled" /\ wpc' = "idle" /\ nextFrame' = nextFrame + 1
      /\ UNCHANGED <<wbuf, bufdata, dpc, netVars, recvVars>>
      /\ skippedDataBuffers = 0 /\ skippedDataBuffers' = 0
  BY NoneSkipped DEF Send
<1>9. /\ ~inUse[wbuf] /\ bufdata[wbuf] = nextFrame /\ nextFrame <= LastFrame
      /\ wbuf \in RadioIds
  BY <1>8 DEF IndInv, RadioInv, TypeOK
<1>10. nextFrame \in Frames /\ PktTotal(nextFrame) \in 1..MaxPackets
  BY <1>9, FramesAssumption DEF IndInv, TypeOK, Frames
<1>11. /\ NewBuffer.seq = nextFrame % SeqMod /\ NewBuffer.radio = wbuf
       /\ NewBuffer.total = PktTotal(nextFrame) /\ NewBuffer.sofar = 0
  BY DEF NewBuffer
<1> HIDE DEF k, n, m
<1>12. \A i \in 1..m : (i < m /\ i + k \in 1..n /\ i \in 1..(n - k)) \/ i = m
  BY <1>1, <1>6
<1>13. curbuf = -1 => n = 0 /\ m = 1
  BY <1>1, <1>6 DEF IndInv, QueueInv, n
<1>14. m \in Nat /\ m >= 1 /\ m + k = n + 1
  BY <1>1, <1>6
<1>15. \A i \in 1..m : i = m => FrameAt(i)' = nextFrame
  BY <1>6, <1>8, <1>14 DEF FrameAt, m
<1>16. \A i \in 1..n : /\ inUse[buffers[i].radio]
                       /\ bufdata[buffers[i].radio] = FrameAt(i)
                       /\ buffers[i].seq = FrameAt(i) % SeqMod
                       /\ buffers[i].total = PktTotal(FrameAt(i))
                       /\ i <= curbuf => buffers[i].sofar = buffers[i].total
                       /\ i > curbuf => buffers[i].sofar < buffers[i].total
  BY DEF IndInv, QueueInv, QueuedDataIntact, n
<1>17. \A i, j \in 1..n : buffers[i].radio = buffers[j].radio => i = j
  BY DEF IndInv, RadioInv, n
<1>18. TypeOK'
  <2>1. nextFrame' \in FirstFrame..(LastFrame + 1)
    BY <1>6, <1>8, <1>9, FramesAssumption DEF IndInv, TypeOK
  <2>2. curbuf' \in -1..Len(buffers')
    BY <1>1, <1>6, <1>13, <1>14 DEF m
  <2> QED BY <1>1, <1>8, <2>1, <2>2 DEF IndInv, TypeOK
<1>19. ASSUME NEW i \in 1..m
       PROVE  /\ inUse'[buffers'[i].radio]
              /\ bufdata'[buffers'[i].radio] = FrameAt(i)'
              /\ buffers'[i].seq = FrameAt(i)' % SeqMod
              /\ buffers'[i].total = PktTotal(FrameAt(i)')
              /\ i <= curbuf' => buffers'[i].sofar = buffers'[i].total
              /\ i > curbuf' => buffers'[i].sofar < buffers'[i].total
  <2>1. CASE i = m
    <3>1. ~(i <= curbuf')
      BY <1>1, <1>6, <1>13, <1>14, <2>1
    <3>2. buffers'[i] = NewBuffer /\ FrameAt(i)' = nextFrame
      BY <1>3, <1>15, <2>1
    <3>3. 0 < PktTotal(nextFrame)
      BY <1>10
    <3> QED BY <1>1, <1>8, <1>9, <1>11, <3>1, <3>2, <3>3
  <2>2. CASE i < m /\ i + k \in 1..n /\ i \in 1..(n - k)
    <3>1. buffers'[i] = buffers[i + k] /\ FrameAt(i)' = FrameAt(i + k)
      BY <1>2, <1>4, <2>2
    <3>2. buffers[i + k].radio # wbuf
      BY <1>9, <1>16, <2>2
    <3>3. k = 1 => buffers[i + k].radio # buffers[1].radio
      <4>1. SUFFICES ASSUME k = 1 PROVE buffers[i + k].radio # buffers[1].radio
        OBVIOUS
      <4>2. 1 \in 1..n /\ i + k # 1
        BY <1>1, <1>6, <2>2, <4>1
      <4> QED BY <1>17, <2>2, <4>2
    <3>4. inUse'[buffers'[i].radio]
      BY <1>5, <1>7, <1>16, <2>2, <3>1, <3>2, <3>3
    <3>5. (i <= curbuf' => i + k <= curbuf) /\ (i > curbuf' => i + k > curbuf)
      BY <1>1, <1>6, <1>13, <2>2
    <3> QED BY <1>8, <1>16, <2>2, <3>1, <3>4, <3>5
  <2> QED BY <1>12, <2>1, <2>2
<1>20. QueueInv'
  <2>1. curbuf' # -1
    BY <1>1, <1>6
  <2>2. m + skippedDataBuffers' <= nextFrame' - FirstFrame
    BY <1>1, <1>6, <1>8, FramesAssumption DEF IndInv, QueueInv, n
  <2>3. QueuedDataIntact'
    BY <1>19 DEF QueuedDataIntact, m
  <2> QED BY <1>1, <1>8, <1>19, <2>1, <2>2, <2>3 DEF QueueInv, m
<1>21. RadioInv'
  <2>1. ASSUME NEW i \in 1..m, NEW j \in 1..m, buffers'[i].radio = buffers'[j].radio
        PROVE  i = j
    <3>1. \A x \in 1..m : x # m => /\ buffers'[x] = buffers[x + k] /\ x + k \in 1..n
                                   /\ buffers'[x].radio # wbuf
      BY <1>2, <1>9, <1>12, <1>16
    <3>2. buffers'[m].radio = wbuf
      BY <1>3, <1>11
    <3>3. CASE i = m \/ j = m
      BY <2>1, <3>1, <3>2, <3>3
    <3>4. CASE i # m /\ j # m
      <4>1. i + k = j + k
        BY <1>17, <2>1, <3>1, <3>4
      <4> QED BY <1>1, <4>1
    <3> QED BY <3>3, <3>4
  <2>2. ASSUME NEW r \in RadioIds, inUse'[r]
        PROVE  \E i \in 1..m : buffers'[i].radio = r
    <3>1. CASE r = wbuf
      BY <1>3, <1>11, <1>14, <3>1
    <3>2. CASE r # wbuf
      <4>1. inUse[r] /\ (k = 1 => r # buffers[1].radio)
        BY <1>5, <2>2, <3>2
      <4>2. PICK i \in 1..n : buffers[i].radio = r
        BY <4>1 DEF IndInv, RadioInv, n
      <4>3. i - k \in 1..(n - k) /\ i - k \in 1..m /\ (i - k) + k = i
        <5>1. k = 1 => i # 1
          BY <4>1, <4>2
        <5> QED BY <1>1, <1>6, <5>1
      <4>4. buffers'[i - k].radio = r
        BY <1>2, <4>2, <4>3
      <4> QED BY <4>3, <4>4
    <3> QED BY <3>1, <3>2
  <2>3. PoolSuffices' /\ wpc' # "filled"
    BY <1>8 DEF PoolSuffices
  <2> QED BY <2>1, <2>2, <2>3 DEF RadioInv, m
<1>22. NetInv'
  <2>1. \A p \in net : p.payload < nextFrame'
    <3>1. \A p \in net : p.payload < nextFrame /\ p.payload \in Nat
      BY FramesAssumption DEF IndInv, TypeOK, NetInv, PacketType, Frames
    <3> QED BY <1>6, <1>8, <3>1
  <2> QED BY <1>8, <2>1 DEF IndInv, NetInv
<1>23. SentInv'
  <2> SUFFICES ASSUME dpc # "ended"
               PROVE  /\ \A i \in 1..m : \A j \in 0..(buffers'[i].sofar - 1) :
                           PacketOf(FrameAt(i)', j) \in net
                      /\ \A f \in FirstFrame..(nextFrame' - 1 - m) :
                           \A j \in 0..(PktTotal(f) - 1) : PacketOf(f, j) \in net
    <3>1. nextFrame' - 1 - m - skippedDataBuffers' = nextFrame' - 1 - m
      BY <1>6, <1>8, <1>14
    <3> QED BY <1>8, <3>1 DEF SentInv, SentInFull, m, PacketOf
  <2>1. \A i \in 1..n : \A j \in 0..(buffers[i].sofar - 1) : PacketOf(FrameAt(i), j) \in net
    BY DEF IndInv, SentInv, n
  <2>2. \A f \in FirstFrame..(nextFrame - 1 - n) :
          \A j \in 0..(PktTotal(f) - 1) : PacketOf(f, j) \in net
    <3>1. nextFrame - 1 - n - skippedDataBuffers = nextFrame - 1 - n
      BY <1>6, <1>8
    <3> QED BY <3>1 DEF IndInv, SentInv, SentInFull, n
  <2>3. ASSUME NEW i \in 1..m, NEW j \in 0..(buffers'[i].sofar - 1)
        PROVE  PacketOf(FrameAt(i)', j) \in net
    <3>1. i # m
      <4>1. SUFFICES ASSUME i = m PROVE FALSE
        OBVIOUS
      <4>2. buffers'[i].sofar = 0
        BY <1>3, <1>11, <4>1
      <4> QED BY <2>3, <4>2
    <3>2. i + k \in 1..n /\ buffers'[i] = buffers[i + k] /\ FrameAt(i)' = FrameAt(i + k)
      BY <1>2, <1>4, <1>12, <3>1
    <3> QED BY <2>1, <2>3, <3>2
  <2>4. ASSUME NEW f \in FirstFrame..(nextFrame' - 1 - m),
               NEW j \in 0..(PktTotal(f) - 1)
        PROVE  PacketOf(f, j) \in net
    <3>1. f \in FirstFrame..(nextFrame - 1 - n) \/ (k = 1 /\ f = nextFrame - n)
      BY <1>1, <1>6, <1>8, FramesAssumption
    <3>2. CASE f \in FirstFrame..(nextFrame - 1 - n)
      BY <2>2, <2>4, <3>2
    <3>3. CASE k = 1 /\ f = nextFrame - n
      <4>1. 1 \in 1..n /\ 1 <= curbuf
        BY <1>1, <1>6, <1>13, <3>3
      <4>2. f = FrameAt(1)
        BY <1>6, <1>8, <3>3 DEF FrameAt, n
      <4>3. buffers[1].sofar = PktTotal(f)
        BY <1>16, <4>1, <4>2
      <4> QED BY <2>1, <2>4, <4>1, <4>2, <4>3
    <3> QED BY <3>1, <3>2, <3>3
  <2> QED BY <2>3, <2>4
<1> QED BY <1>18, <1>20, <1>21, <1>22, <1>23 DEF IndInv

\* The flush keeps the front of the queue and counts what it drops: the frames
\* that are left keep their places, the last one is new.
LEMMA FlushFacts ==
    ASSUME IndInv, SendOverload
    PROVE  LET k == curbuf + 1
           IN /\ curbuf >= 0 /\ k < Len(buffers) /\ k + 1 <= MaxBuffers
              /\ Len(buffers') = k + 1 /\ buffers' \in Seq(Buffer)
              /\ \A i \in 1..k : buffers'[i] = buffers[i]
              /\ \A i \in 1..k : FrameAt(i)' = FrameAt(i)
              /\ buffers'[k + 1] = NewBuffer
              /\ \A i \in 1..(k + 1) : i = k + 1 => FrameAt(i)' = nextFrame
              /\ skippedDataBuffers' = Len(buffers) - k
              /\ \A r \in RadioIds : inUse'[r] <=>
                   r = wbuf \/ \E i \in 1..k : buffers[i].radio = r
              /\ inUse' \in [RadioIds -> BOOLEAN]
<1> DEFINE n == Len(buffers)
           k == curbuf + 1
           h == MaxBuffers \div 2
<1>1. /\ n \in Nat /\ curbuf \in Int /\ nextFrame \in Nat
      /\ curbuf >= -1 /\ buffers \in Seq(Buffer)
  BY QueueType DEF IndInv, TypeOK
<1>2. h \in Nat /\ h + 1 <= MaxBuffers
  BY SizesAssumption
<1>3. curbuf >= 0 /\ k \in Nat /\ k < n /\ k + 1 <= MaxBuffers
  BY <1>1, <1>2, SizesAssumption DEF SendOverload, QueueFull, TooManyOld
<1>4. NewBuffer \in Buffer
  <2>1. nextFrame \in Frames
    BY FramesAssumption DEF IndInv, TypeOK, RadioInv, SendOverload, Frames
  <2>2. nextFrame % SeqMod \in Seqs
    BY <1>1, SeqRange
  <2>3. PktTotal(nextFrame) \in 1..MaxPackets /\ 0 \in 0..MaxPackets
    BY <2>1, FramesAssumption, SizesAssumption
  <2> QED BY <2>2, <2>3 DEF NewBuffer, Buffer, IndInv, TypeOK
<1>5. /\ Kept \in Seq(Buffer) /\ Len(Kept) = k
      /\ \A i \in 1..k : Kept[i] = buffers[i]
  BY <1>1, <1>3 DEF Kept
<1>6. /\ buffers' = Append(Kept, NewBuffer)
      /\ inUse' = [r \in RadioIds |->
                     r = wbuf \/ \E i \in 1..Len(Kept) : Kept[i].radio = r]
      /\ skippedDataBuffers' = skippedDataBuffers + (n - Len(Kept))
      /\ nextFrame' = nextFrame + 1 /\ skippedDataBuffers = 0
  BY NoneSkipped DEF SendOverload
<1>7. /\ Len(buffers') = k + 1 /\ buffers' \in Seq(Buffer)
      /\ \A i \in 1..k : buffers'[i] = buffers[i]
      /\ buffers'[k + 1] = NewBuffer
  <2> DEFINE q == Kept
  <2>1. q \in Seq(Buffer) /\ Len(q) = k /\ buffers' = Append(q, NewBuffer)
    BY <1>5, <1>6
  <2>2. \A i \in 1..k : q[i] = buffers[i]
    BY <1>5
  <2> HIDE DEF q
  <2> QED BY <1>3, <1>4, <2>1, <2>2
<1>8. skippedDataBuffers' = n - k
  BY <1>1, <1>3, <1>5, <1>6
<1>9. /\ \A i \in 1..k : FrameAt(i)' = FrameAt(i)
      /\ \A i \in 1..(k + 1) : i = k + 1 => FrameAt(i)' = nextFrame
  <2>1. /\ Len(buffers') = k + 1 /\ nextFrame' = nextFrame + 1
        /\ skippedDataBuffers' = n - k /\ skippedDataBuffers = 0
    BY <1>6, <1>7, <1>8
  <2> HIDE DEF k
  <2>2. ASSUME NEW i \in 1..k PROVE FrameAt(i)' = FrameAt(i)
    <3>1. i \in Int /\ i < Len(buffers')
      BY <1>3, <2>1
    <3>2. FrameAt(i)' = nextFrame' - 1 - (Len(buffers') - i) - skippedDataBuffers'
      BY <3>1 DEF FrameAt
    <3>3. FrameAt(i) = nextFrame - 1 - (n - i)
      BY <3>1, NoneSkipped DEF SendOverload
    <3> QED BY <1>1, <1>3, <2>1, <3>1, <3>2, <3>3
  <2>3. \A i \in 1..(k + 1) : i = k + 1 => FrameAt(i)' = nextFrame
    BY <1>1, <1>3, <2>1 DEF FrameAt
  <2> QED BY <2>2, <2>3
<1>10. /\ \A r \in RadioIds : inUse'[r] <=>
             r = wbuf \/ \E i \in 1..k : buffers[i].radio = r
       /\ inUse' \in [RadioIds -> BOOLEAN]
  BY <1>5, <1>6
<1> QED BY <1>3, <1>7, <1>8, <1>9, <1>10

\* The flush drops unsent frames only, counts them, and releases their radio
\* buffers and no others.
LEMMA SendOverloadKeeps ==
    ASSUME IndInv, SendOverload
    PROVE  IndInv'
<1> DEFINE n == Len(buffers)
           k == curbuf + 1
<1> USE DEF queueVars, netVars, recvVars
<1>1. /\ curbuf >= 0 /\ k < n /\ k + 1 <= MaxBuffers
      /\ Len(buffers') = k + 1 /\ buffers' \in Seq(Buffer)
      /\ buffers'[k + 1] = NewBuffer
      /\ skippedDataBuffers' = n - k
      /\ inUse' \in [RadioIds -> BOOLEAN]
  BY FlushFacts
<1>2. \A i \in 1..k : buffers'[i] = buffers[i]
  BY FlushFacts
<1>3. \A i \in 1..k : FrameAt(i)' = FrameAt(i)
  BY FlushFacts
<1>4. \A i \in 1..(k + 1) : i = k + 1 => FrameAt(i)' = nextFrame
  BY FlushFacts
<1>5. \A r \in RadioIds : inUse'[r] <=> r = wbuf \/ \E i \in 1..k : buffers[i].radio = r
  BY FlushFacts
<1>6. n \in Nat /\ curbuf \in Int /\ nextFrame \in Nat
  BY QueueType DEF IndInv
<1>7. /\ wpc = "filled" /\ wpc' = "aborted" /\ nextFrame' = nextFrame + 1
      /\ UNCHANGED <<wbuf, bufdata, curbuf, dpc, netVars, recvVars>>
      /\ skippedDataBuffers = 0
  BY NoneSkipped DEF SendOverload
<1>8. /\ ~inUse[wbuf] /\ bufdata[wbuf] = nextFrame /\ nextFrame <= LastFrame
      /\ wbuf \in RadioIds
  BY <1>7 DEF IndInv, RadioInv, TypeOK
<1>9. nextFrame \in Frames /\ PktTotal(nextFrame) \in 1..MaxPackets
  BY <1>8, FramesAssumption DEF IndInv, TypeOK, Frames
<1>10. /\ NewBuffer.seq = nextFrame % SeqMod /\ NewBuffer.radio = wbuf
      /\ NewBuffer.total = PktTotal(nextFrame) /\ NewBuffer.sofar = 0
  BY DEF NewBuffer
<1>11. \A i \in 1..n : /\ inUse[buffers[i].radio]
                       /\ bufdata[buffers[i].radio] = FrameAt(i)
                       /\ buffers[i].seq = FrameAt(i) % SeqMod
                       /\ buffers[i].total = PktTotal(FrameAt(i))
                       /\ i <= curbuf => buffers[i].sofar = buffers[i].total
                       /\ i > curbuf => buffers[i].sofar < buffers[i].total
  BY DEF IndInv, QueueInv, QueuedDataIntact
<1>12. \A i \in 1..n : buffers[i].radio \in RadioIds
  BY QueueType DEF IndInv
<1> HIDE DEF n, k
<1>13. k \in Nat /\ k = curbuf + 1
  BY <1>1, <1>6 DEF k
<1>14. \A i \in 1..(k + 1) : (i \in 1..k /\ i \in 1..n) \/ i = k + 1
  BY <1>1, <1>6, <1>13
<1>15. TypeOK'
  <2>1. nextFrame' \in FirstFrame..(LastFrame + 1)
    BY <1>6, <1>7, <1>8, FramesAssumption DEF IndInv, TypeOK
  <2>2. curbuf' \in -1..Len(buffers') /\ skippedDataBuffers' \in Nat
    BY <1>1, <1>6, <1>7, <1>13
  <2> QED BY <1>1, <1>7, <2>1, <2>2 DEF IndInv, TypeOK
<1>16. ASSUME NEW i \in 1..(k + 1)
       PROVE  /\ inUse'[buffers'[i].radio]
              /\ bufdata'[buffers'[i].radio] = FrameAt(i)'
              /\ buffers'[i].seq = FrameAt(i)' % SeqMod
              /\ buffers'[i].total = PktTotal(FrameAt(i)')
              /\ i <= curbuf' => buffers'[i].sofar = buffers'[i].total
              /\ i > curbuf' => buffers'[i].sofar < buffers'[i].total
  <2>1. CASE i = k + 1
    <3>1. ~(i <= curbuf')
      BY <1>6, <1>7, <1>13, <2>1
    <3>2. buffers'[i] = NewBuffer /\ FrameAt(i)' = nextFrame
      BY <1>1, <1>4, <2>1
    <3>3. 0 < PktTotal(nextFrame)
      BY <1>9
    <3> QED BY <1>5, <1>7, <1>8, <1>10, <3>1, <3>2, <3>3
  <2>2. CASE i \in 1..k /\ i \in 1..n
    <3>1. inUse'[buffers'[i].radio]
      BY <1>2, <1>5, <1>12, <2>2
    <3>2. buffers'[i] = buffers[i] /\ FrameAt(i)' = FrameAt(i)
      BY <1>2, <1>3, <2>2
    <3> QED BY <1>7, <1>11, <2>2, <3>1, <3>2
  <2> QED BY <1>14, <2>1, <2>2
<1>17. QueueInv'
  <2>1. curbuf' # -1
    BY <1>1, <1>6, <1>7
  <2>2. Len(buffers') + skippedDataBuffers' <= nextFrame' - FirstFrame
    <3>1. n <= nextFrame - FirstFrame
      BY <1>6, <1>7, FramesAssumption DEF IndInv, QueueInv, n
    <3> QED BY <1>1, <1>6, <1>7, <1>13, <3>1, FramesAssumption
  <2>3. QueuedDataIntact'
    BY <1>1, <1>16 DEF QueuedDataIntact
  <2>4. buffers' # <<>>
    BY <1>1, <1>13
  <2> QED BY <1>1, <1>7, <1>16, <2>1, <2>2, <2>3, <2>4 DEF QueueInv
<1>18. RadioInv'
  <2>1. ASSUME NEW i \in 1..(k + 1), NEW j \in 1..(k + 1),
               buffers'[i].radio = buffers'[j].radio
        PROVE  i = j
    <3>1. \A x \in 1..(k + 1) : x # k + 1 =>
            buffers'[x] = buffers[x] /\ x \in 1..n /\ buffers'[x].radio # wbuf
      BY <1>2, <1>8, <1>11, <1>14
    <3>2. buffers'[k + 1].radio = wbuf
      BY <1>1, <1>10
    <3>3. CASE i = k + 1 \/ j = k + 1
      BY <2>1, <3>1, <3>2, <3>3
    <3>4. CASE i # k + 1 /\ j # k + 1
      BY <2>1, <3>1, <3>4 DEF IndInv, RadioInv, n
    <3> QED BY <3>3, <3>4
  <2>2. ASSUME NEW r \in RadioIds, inUse'[r]
        PROVE  \E i \in 1..(k + 1) : buffers'[i].radio = r
    <3>1. CASE r = wbuf
      <4>1. k + 1 \in 1..(k + 1)
        BY <1>13
      <4> QED BY <1>1, <1>10, <3>1, <4>1
    <3>2. CASE \E i \in 1..k : buffers[i].radio = r
      <4>1. 1..k \subseteq 1..(k + 1)
        BY <1>13
      <4> QED BY <1>2, <3>2, <4>1
    <3> QED BY <1>5, <2>2, <3>1, <3>2
  <2>3. PoolSuffices' /\ wpc' # "filled"
    BY <1>7 DEF PoolSuffices
  <2> QED BY <1>1, <2>1, <2>2, <2>3 DEF RadioInv
<1>19. NetInv'
  <2>1. \A p \in net : p.payload < nextFrame'
    <3>1. \A p \in net : p.payload < nextFrame /\ p.payload \in Nat
      BY FramesAssumption DEF IndInv, TypeOK, NetInv, PacketType, Frames
    <3> QED BY <1>6, <1>7, <3>1
  <2> QED BY <1>7, <2>1 DEF IndInv, NetInv
<1>20. SentInv'
  <2>1. nextFrame' - 1 - Len(buffers') - skippedDataBuffers'
            = nextFrame - 1 - n - skippedDataBuffers
    BY <1>1, <1>6, <1>7, <1>13
  <2> SUFFICES ASSUME dpc # "ended"
               PROVE  /\ \A i \in 1..(k + 1) : \A j \in 0..(buffers'[i].sofar - 1) :
                           PacketOf(FrameAt(i)', j) \in net
                      /\ \A f \in FirstFrame..(nextFrame - 1 - n - skippedDataBuffers) :
                           SentInFull(f)
    BY <1>1, <1>7, <2>1 DEF SentInv, SentInFull, PacketOf
  <2>2. ASSUME NEW i \in 1..(k + 1), NEW j \in 0..(buffers'[i].sofar - 1)
        PROVE  PacketOf(FrameAt(i)', j) \in net
    <3>1. i # k + 1
      <4>1. SUFFICES ASSUME i = k + 1 PROVE FALSE
        OBVIOUS
      <4>2. buffers'[i].sofar = 0
        BY <1>1, <1>10, <4>1
      <4> QED BY <2>2, <4>2
    <3>2. i \in 1..n /\ buffers'[i] = buffers[i] /\ FrameAt(i)' = FrameAt(i)
      BY <1>2, <1>3, <1>14, <3>1
    <3> QED BY <2>2, <3>2 DEF IndInv, SentInv, n
  <2>3. \A f \in FirstFrame..(nextFrame - 1 - n - skippedDataBuffers) : SentInFull(f)
    BY DEF IndInv, SentInv, n
  <2> QED BY <2>2, <2>3
<1> QED BY <1>15, <1>17, <1>18, <1>19, <1>20 DEF IndInv

-----------------------------------------------------------------------------
(* The transmit daemon *)

\* The packets of a frame, field by field.
LEMMA PacketOfType ==
    ASSUME NEW f \in Frames, NEW j \in 0..(PktTotal(f) - 1)
    PROVE  /\ PacketOf(f, j) \in PacketType
           /\ PacketOf(f, j).payload = f /\ PacketOf(f, j).num = j
           /\ PacketOf(f, j).total = PktTotal(f) /\ PacketOf(f, j).seq = f % SeqMod
<1>1. f \in Int /\ PktTotal(f) \in 1..MaxPackets
  BY FramesAssumption DEF Frames
<1>2. f % SeqMod \in Seqs /\ j \in PktIds
  BY <1>1, SeqRange, SizesAssumption DEF PktIds
<1> QED BY <1>1, <1>2 DEF PacketOf, PacketType

\* The packets assembled from a queued buffer are those of its frame.
LEMMA BufferPacket ==
    ASSUME IndInv, NEW i \in 1..Len(buffers), NEW j \in 0..(buffers[i].total - 1)
    PROVE  /\ Packet(buffers[i], j) = PacketOf(FrameAt(i), j)
           /\ FrameAt(i) \in Frames /\ FrameAt(i) < nextFrame
           /\ j \in 0..(PktTotal(FrameAt(i)) - 1)
<1>1. Packet(buffers[i], j) = PacketOf(FrameAt(i), j)
  BY DEF IndInv, QueueInv, QueuedDataIntact, Packet, PacketOf
<1>2. FrameAt(i) \in Frames /\ FrameAt(i) < nextFrame
  <2>1. Len(buffers) \in Nat /\ nextFrame \in Nat
    BY QueueType DEF IndInv
  <2>2. /\ Len(buffers) + skippedDataBuffers <= nextFrame - FirstFrame
        /\ nextFrame <= LastFrame + 1 /\ skippedDataBuffers \in Nat
    BY FramesAssumption DEF IndInv, QueueInv, TypeOK
  <2> QED BY <2>1, <2>2, FramesAssumption DEF FrameAt, Frames
<1>3. buffers[i].total = PktTotal(FrameAt(i))
  BY DEF IndInv, QueueInv
<1> QED BY <1>1, <1>2, <1>3

\* A set of packets a buffer can supply.
FromQueue(packets) ==
    \A p \in packets : \E i \in 1..Len(buffers) : \E j \in 0..(buffers[i].total - 1) :
        p = Packet(buffers[i], j)

\* putPackets puts all of the packets on the network, or some and ends.
LEMMA PutPacketsFacts ==
    ASSUME IndInv, NEW packets, FromQueue(packets), NEW next \in {"xmit", "poll"},
           PutPackets(packets, next), UNCHANGED <<nextFrame, pkts>>
    PROVE  /\ NetInv' /\ net' \subseteq PacketType
           /\ dpc' \in {"xmit", "poll", "ended"}
           /\ net \subseteq net'
           /\ dpc' # "ended" => net' = net \union packets
<1>1. /\ net \subseteq net' /\ net' \subseteq net \union packets
      /\ dpc' \in {"xmit", "poll", "ended"}
      /\ dpc' # "ended" => net' = net \union packets
  <2>1. CASE net' = net \union packets /\ dpc' = next
    BY <2>1
  <2>2. CASE /\ \E some \in SUBSET packets : some # packets /\ net' = net \union some
             /\ dpc' = "ended"
    BY <2>2
  <2> QED BY <2>1, <2>2 DEF PutPackets
<1>2. ASSUME NEW p \in packets
      PROVE  /\ p \in PacketType /\ p.payload < nextFrame /\ p.num < p.total
             /\ p = PacketOf(p.payload, p.num)
  <2> PICK i \in 1..Len(buffers) :
          \E j \in 0..(buffers[i].total - 1) : p = Packet(buffers[i], j)
    BY DEF FromQueue
  <2>1. PICK j \in 0..(buffers[i].total - 1) : p = Packet(buffers[i], j)
    OBVIOUS
  <2>2. /\ p = PacketOf(FrameAt(i), j) /\ FrameAt(i) \in Frames
        /\ FrameAt(i) < nextFrame /\ j \in 0..(PktTotal(FrameAt(i)) - 1)
    BY <2>1, BufferPacket
  <2>3. /\ p \in PacketType /\ p.payload = FrameAt(i) /\ p.num = j
        /\ p.total = PktTotal(FrameAt(i))
    BY <2>2, PacketOfType
  <2>4. PktTotal(FrameAt(i)) \in Nat
    BY <2>2, FramesAssumption
  <2> QED BY <2>2, <2>3, <2>4
<1>3. net' \subseteq PacketType
  BY <1>1, <1>2 DEF IndInv, TypeOK
<1>4. NetInv'
  <2>1. \A p \in net' : /\ p.payload < nextFrame' /\ p.num < p.total
                        /\ p = PacketOf(p.payload, p.num)
    BY <1>1, <1>2 DEF IndInv, NetInv
  <2>2. pkts' \subseteq net' /\ \A p, q \in pkts' : p.seq = q.seq /\ p.num = q.num => p = q
    BY <1>1 DEF IndInv, NetInv
  <2> QED BY <2>1, <2>2 DEF NetInv, PacketOf
<1> QED BY <1>1, <1>3, <1>4

\* A burst: the packets from sofar to BurstEnd of the current buffer are sent,
\* and curbuf passes the buffer with the last of them.
LEMMA XmitBurstKeeps ==
    ASSUME IndInv, XmitBurst
    PROVE  IndInv'
<1> DEFINE n == Len(buffers)
           c == curbuf + 1
           e == BurstEnd
           packets == {Packet(Current, j) : j \in Current.sofar..(BurstEnd - 1)}
<1> USE DEF writerVars, recvVars
<1>1. /\ n \in Nat /\ curbuf \in Int /\ nextFrame \in Nat
      /\ curbuf >= -1 /\ curbuf <= n /\ buffers \in Seq(Buffer)
  BY QueueType DEF IndInv, TypeOK
<1>2. c \in 1..n
  BY <1>1 DEF XmitBurst, Pending
<1>3. /\ buffers[c] \in Buffer
      /\ buffers[c].total \in 1..MaxPackets /\ buffers[c].sofar \in 0..MaxPackets
  BY <1>2, QueueType DEF IndInv
<1>4. Current = buffers[c]
  BY DEF Current
<1>5. buffers[c].sofar < buffers[c].total
  <2>1. c > curbuf
    BY <1>1
  <2> QED BY <1>2, <2>1 DEF IndInv, QueueInv
<1>6. /\ e \in 0..MaxPackets /\ e > buffers[c].sofar /\ e <= buffers[c].total
  BY <1>3, <1>4, <1>5, SizesAssumption DEF BurstEnd
<1>7. /\ buffers' = [buffers EXCEPT ![c] = [buffers[c] EXCEPT !.sofar = e]]
      /\ curbuf' = (IF e >= buffers[c].total THEN c ELSE curbuf)
      /\ PutPackets(packets, "poll")
      /\ UNCHANGED <<writerVars, nextFrame, skippedDataBuffers, reqs, recvVars>>
  BY <1>4 DEF XmitBurst
<1>8. FromQueue(packets)
  <2>1. ASSUME NEW j \in buffers[c].sofar..(e - 1)
        PROVE  j \in 0..(buffers[c].total - 1)
    BY <1>3, <1>6
  <2> QED BY <1>2, <1>4, <2>1 DEF FromQueue
<1>9. /\ NetInv' /\ net' \subseteq PacketType
      /\ dpc' \in {"xmit", "poll", "ended"}
      /\ net \subseteq net'
      /\ dpc' # "ended" => net' = net \union packets
  BY <1>7, <1>8, PutPacketsFacts
<1> HIDE DEF n, c, e, packets
<1>10. /\ buffers' \in Seq(Buffer) /\ Len(buffers') = n
       /\ \A i \in 1..n : i # c => buffers'[i] = buffers[i]
       /\ buffers'[c].seq = buffers[c].seq /\ buffers'[c].radio = buffers[c].radio
       /\ buffers'[c].total = buffers[c].total /\ buffers'[c].sofar = e
  <2> DEFINE b == [buffers[c] EXCEPT !.sofar = e]
  <2>1. /\ b \in Buffer /\ b.seq = buffers[c].seq /\ b.radio = buffers[c].radio
        /\ b.total = buffers[c].total /\ b.sofar = e
    BY <1>3, <1>6 DEF Buffer
  <2>2. buffers' = [buffers EXCEPT ![c] = b]
    BY <1>7
  <2> HIDE DEF b
  <2>3. /\ buffers' \in Seq(Buffer) /\ Len(buffers') = Len(buffers)
        /\ \A i \in 1..Len(buffers) : i # c => buffers'[i] = buffers[i]
        /\ buffers'[c] = b
    BY <1>1, <1>2, <2>1, <2>2 DEF n
  <2> QED BY <2>1, <2>3 DEF n
<1>11. \A i \in 1..n : FrameAt(i)' = FrameAt(i)
  BY <1>7, <1>10 DEF FrameAt, n
<1>12. \A i \in 1..n : /\ buffers'[i].seq = buffers[i].seq
                       /\ buffers'[i].radio = buffers[i].radio
                       /\ buffers'[i].total = buffers[i].total
  BY <1>2, <1>10
<1>13. TypeOK'
  <2>1. curbuf' \in -1..Len(buffers')
    BY <1>1, <1>2, <1>7, <1>10
  <2> QED BY <1>7, <1>9, <1>10, <2>1 DEF IndInv, TypeOK, NetInv
<1>14. QueueInv'
  <2>1. QueuedDataIntact'
    BY <1>7, <1>10, <1>11, <1>12 DEF IndInv, QueueInv, QueuedDataIntact, n
  <2>2. ASSUME NEW i \in 1..n
        PROVE  /\ buffers'[i].total = PktTotal(FrameAt(i)')
               /\ i <= curbuf' => buffers'[i].sofar = buffers'[i].total
               /\ i > curbuf' => buffers'[i].sofar < buffers'[i].total
    <3>1. /\ buffers[i].total = PktTotal(FrameAt(i))
          /\ i <= curbuf => buffers[i].sofar = buffers[i].total
          /\ i > curbuf => buffers[i].sofar < buffers[i].total
      BY DEF IndInv, QueueInv, n
    <3>2. CASE i = c
      BY <1>1, <1>3, <1>6, <1>7, <1>10, <1>11, <3>1, <3>2 DEF c
    <3>3. CASE i # c
      BY <1>1, <1>2, <1>7, <1>10, <1>11, <3>1, <3>3 DEF c
    <3> QED BY <3>2, <3>3
  <2>3. curbuf' # -1
    BY <1>1, <1>2, <1>7 DEF XmitBurst, Pending
  <2>4. /\ Len(buffers') <= MaxBuffers
        /\ Len(buffers') + skippedDataBuffers' <= nextFrame' - FirstFrame
        /\ skippedDataBuffers' # 0 => wpc' = "aborted" /\ buffers' # <<>>
    BY <1>7, <1>10 DEF IndInv, QueueInv, n
  <2> QED BY <1>10, <2>1, <2>2, <2>3, <2>4 DEF QueueInv
<1>15. RadioInv'
  BY <1>7, <1>10, <1>12 DEF IndInv, RadioInv, PoolSuffices, n
<1>16. SentInv'
  <2> SUFFICES ASSUME dpc' # "ended"
               PROVE  /\ \A i \in 1..n : \A j \in 0..(buffers'[i].sofar - 1) :
                           PacketOf(FrameAt(i)', j) \in net'
                      /\ \A f \in FirstFrame..(nextFrame - 1 - n - skippedDataBuffers) :
                           \A j \in 0..(PktTotal(f) - 1) : PacketOf(f, j) \in net'
    BY <1>7, <1>10 DEF SentInv, SentInFull, PacketOf
  <2>1. dpc # "ended"
    BY DEF XmitBurst
  <2>2. net' = net \union packets
    BY <1>9
  <2>3. ASSUME NEW i \in 1..n, NEW j \in 0..(buffers'[i].sofar - 1)
        PROVE  PacketOf(FrameAt(i)', j) \in net'
    <3>1. CASE j \in 0..(buffers[i].sofar - 1)
      BY <1>11, <2>1, <2>2, <3>1 DEF IndInv, SentInv, n
    <3>2. CASE j \notin 0..(buffers[i].sofar - 1)
      <4>1. i = c /\ j \in buffers[c].sofar..(e - 1)
        BY <1>3, <1>6, <1>10, <2>3, <3>2
      <4>2. j \in 0..(buffers[c].total - 1)
        BY <1>3, <1>6, <4>1
      <4>3. Packet(buffers[c], j) \in packets
        BY <1>4, <4>1 DEF packets, e
      <4>4. Packet(buffers[c], j) = PacketOf(FrameAt(c), j)
        BY <1>2, <4>2, BufferPacket DEF n
      <4> QED BY <1>11, <2>2, <4>1, <4>3, <4>4
    <3> QED BY <3>1, <3>2
  <2>4. \A f \in FirstFrame..(nextFrame - 1 - n - skippedDataBuffers) :
          \A j \in 0..(PktTotal(f) - 1) : PacketOf(f, j) \in net'
    BY <2>1, <2>2 DEF IndInv, SentInv, SentInFull, n
  <2> QED BY <2>3, <2>4
<1> QED BY <1>9, <1>13, <1>14, <1>15, <1>16 DEF IndInv

\* A step of the daemon that leaves the queue alone.
LEMMA DaemonStep ==
    ASSUME IndInv, UNCHANGED <<writerVars, queueVars, reqs, recvVars>>,
           NetInv', net' \subseteq PacketType, net \subseteq net',
           dpc' \in {"xmit", "poll", "ended"}, dpc # "ended"
    PROVE  IndInv'
<1> USE DEF writerVars, queueVars, recvVars
<1>1. TypeOK'
  BY DEF IndInv, TypeOK
<1>2. \A i \in 1..Len(buffers) : FrameAt(i)' = FrameAt(i)
  BY DEF FrameAt
<1>3. QueueInv'
  <2>1. QueuedDataIntact'
    BY <1>2 DEF IndInv, QueueInv, QueuedDataIntact
  <2> QED BY <1>2, <2>1 DEF IndInv, QueueInv
<1>4. RadioInv'
  BY DEF IndInv, RadioInv, PoolSuffices
<1>5. SentInv'
  BY <1>2 DEF IndInv, SentInv, SentInFull, PacketOf
<1> QED BY <1>1, <1>3, <1>4, <1>5 DEF IndInv

\* No packets and no request: nothing changes but where the daemon is.
LEMMA DaemonIdleKeeps ==
    ASSUME IndInv, XmitIdle \/ NoRequest
    PROVE  IndInv'
<1>1. /\ UNCHANGED <<writerVars, queueVars, netVars, recvVars>>
      /\ dpc' \in {"xmit", "poll"} /\ dpc # "ended"
  BY DEF XmitIdle, NoRequest
<1>2. NetInv'
  BY <1>1 DEF IndInv, NetInv, queueVars, netVars, recvVars
<1>3. net' \subseteq PacketType /\ net \subseteq net'
  BY <1>1 DEF IndInv, TypeOK, netVars
<1> QED BY <1>1, <1>2, <1>3, DaemonStep DEF netVars

\* A retransmission sends packets of a queued frame, or nothing.
LEMMA RetransmitKeeps ==
    ASSUME IndInv, Retransmit
    PROVE  IndInv'
<1>1. dpc # "ended" /\ UNCHANGED <<writerVars, queueVars, reqs, recvVars>>
  BY DEF Retransmit
<1>2. UNCHANGED <<nextFrame, pkts>>
  BY <1>1 DEF queueVars, recvVars
<1>3. PICK r \in reqs :
        IF Available(r.seq) /\ Cardinality(r.nums) <= MaximumRetransmit
        THEN PutPackets(Answer(r), "xmit")
        ELSE dpc' = "xmit" /\ UNCHANGED net
  BY DEF Retransmit
<1>4. CASE Available(r.seq) /\ PutPackets(Answer(r), "xmit")
  <2> DEFINE i == LowerBound(r.seq) + 1
  <2>1. i \in 1..Len(buffers)
    <3>1. Len(buffers) \in Nat /\ LowerBound(r.seq) \in 0..(Len(buffers) - 1)
      BY <1>4, QueueType DEF Available, IndInv
    <3> QED BY <3>1
  <2>2. buffers[i].total \in 1..MaxPackets
    BY <2>1, QueueType DEF IndInv
  <2>3. r.nums \subseteq Nat
    BY SizesAssumption DEF IndInv, TypeOK, PktIds
  <2>4. \A j \in r.nums : j < buffers[i].total => j \in 0..(buffers[i].total - 1)
    BY <2>2, <2>3
  <2>5. Answer(r) = {Packet(buffers[i], j) : j \in {x \in r.nums : x < buffers[i].total}}
    BY DEF Answer
  <2> HIDE DEF i
  <2>6. FromQueue(Answer(r))
    BY <2>1, <2>4, <2>5 DEF FromQueue
  <2> QED BY <1>1, <1>2, <1>4, <2>6, PutPacketsFacts, DaemonStep
<1>5. CASE dpc' = "xmit" /\ UNCHANGED net
  <2>1. NetInv'
    BY <1>1, <1>5 DEF IndInv, NetInv, queueVars, recvVars
  <2>2. net' \subseteq PacketType /\ net \subseteq net'
    BY <1>5 DEF IndInv, TypeOK
  <2> QED BY <1>1, <1>5, <2>1, <2>2, DaemonStep
<1> QED BY <1>3, <1>4, <1>5

-----------------------------------------------------------------------------
(* The receiver *)

\* A step of the receiver, which sees the sender only through the network.
LEMMA ReceiverStep ==
    ASSUME IndInv, UNCHANGED <<writerVars, queueVars, dpc, net>>,
           rpc' \in {"idle", "poll", "process", "check", "closed", "aborted"},
           \A r \in reqs' : r \in reqs \/ (r.seq \in Seqs /\ r.nums \subseteq PktIds),
           pkts' \subseteq net,
           \A p, q \in pkts' : p.seq = q.seq /\ p.num = q.num => p = q,
           first' \in BOOLEAN, seqDone' \in BOOLEAN, oldseq' \in Seqs,
           received' \subseteq PktIds, total' \in 0..MaxPackets,
           data' \in [PktIds -> Frames \union {NoFrame}], retry' \in Nat
    PROVE  IndInv'
<1> USE DEF writerVars, queueVars
<1>1. TypeOK'
  BY DEF IndInv, TypeOK
<1>2. \A i \in 1..Len(buffers) : FrameAt(i)' = FrameAt(i)
  BY DEF FrameAt
<1>3. QueueInv'
  <2>1. QueuedDataIntact'
    BY <1>2 DEF IndInv, QueueInv, QueuedDataIntact
  <2> QED BY <1>2, <2>1 DEF IndInv, QueueInv
<1>4. RadioInv'
  BY DEF IndInv, RadioInv, PoolSuffices
<1>5. SentInv'
  BY <1>2 DEF IndInv, SentInv, SentInFull, PacketOf
<1>6. NetInv'
  BY DEF IndInv, NetInv, PacketOf
<1> QED BY <1>1, <1>3, <1>4, <1>5, <1>6 DEF IndInv

\* receive starts with the list it has or with one packet from the network.
LEMMA ReceiveCallKeeps ==
    ASSUME IndInv, ReceiveCall
    PROVE  IndInv'
<1>1. /\ pkts' \subseteq net /\ pkts' # {}
      /\ \A p, q \in pkts' : p.seq = q.seq /\ p.num = q.num => p = q
  BY DEF ReceiveCall, IndInv, NetInv
<1>2. NoDuplicates(pkts')
  BY <1>1 DEF NoDuplicates, IndInv, TypeOK
<1>3. Front(pkts') \in pkts'
  BY <1>1, <1>2, FrontInList
<1>4. Front(pkts').seq \in Seqs
  BY <1>2, <1>3 DEF NoDuplicates, PacketType
<1>5. oldseq' \in Seqs
  BY <1>4 DEF ReceiveCall, IndInv, TypeOK
<1>6. /\ received' = {} /\ total' = 0 /\ 0 \in 0..MaxPackets /\ seqDone' = FALSE
      /\ retry' = 0 /\ first' = FALSE /\ rpc' = "poll" /\ data' = data /\ reqs' = reqs
  BY SizesAssumption DEF ReceiveCall, netVars
<1>7. UNCHANGED <<writerVars, queueVars, dpc, net>>
  BY DEF ReceiveCall, netVars
<1>8. data \in [PktIds -> Frames \union {NoFrame}]
  BY DEF IndInv, TypeOK
<1> QED BY <1>1, <1>5, <1>6, <1>7, <1>8, ReceiverStep

\* getPacket inserts a packet once.
LEMMA GetPacketKeeps ==
    ASSUME IndInv, GetPacket
    PROVE  IndInv'
<1>1. /\ pkts \subseteq net
      /\ \A p, q \in pkts : p.seq = q.seq /\ p.num = q.num => p = q
  BY DEF IndInv, NetInv
<1>2. /\ pkts' \subseteq net
      /\ \A p, q \in pkts' : p.seq = q.seq /\ p.num = q.num => p = q
  <2>1. CASE pkts' = pkts
    BY <1>1, <2>1
  <2>2. ASSUME NEW x \in net, pkts' = Insert(x)
        PROVE  /\ pkts' \subseteq net
               /\ \A p, q \in pkts' : p.seq = q.seq /\ p.num = q.num => p = q
    BY <1>1, <2>2 DEF Insert
  <2> QED BY <2>1, <2>2 DEF GetPacket
<1>3. /\ rpc' = "process"
      /\ UNCHANGED <<writerVars, queueVars, dpc, netVars, first, oldseq, received,
                     total, data, seqDone, retry>>
  BY DEF GetPacket
<1>4. /\ first' \in BOOLEAN /\ seqDone' \in BOOLEAN /\ oldseq' \in Seqs
      /\ received' \subseteq PktIds /\ total' \in 0..MaxPackets
      /\ data' \in [PktIds -> Frames \union {NoFrame}] /\ retry' \in Nat
      /\ UNCHANGED <<writerVars, queueVars, dpc, net, reqs>>
  BY <1>3 DEF IndInv, TypeOK, netVars
<1> QED BY <1>2, <1>3, <1>4, ReceiverStep

\* The steps that only wait, ask or stop.
LEMMA WaitKeeps ==
    ASSUME IndInv, UNCHANGED <<writerVars, queueVars, dpc, net, pkts, first,
                               received, total, data, seqDone>>,
           rpc' \in {"idle", "poll", "closed", "aborted"}, oldseq' \in Seqs,
           retry' \in Nat,
           \A r \in reqs' : r \in reqs \/ (r.seq \in Seqs /\ r.nums \subseteq PktIds)
    PROVE  IndInv'
<1>1. /\ first' \in BOOLEAN /\ seqDone' \in BOOLEAN
      /\ received' \subseteq PktIds /\ total' \in 0..MaxPackets
      /\ data' \in [PktIds -> Frames \union {NoFrame}]
  BY DEF IndInv, TypeOK
<1>2. /\ pkts' \subseteq net
      /\ \A p, q \in pkts' : p.seq = q.seq /\ p.num = q.num => p = q
  BY DEF IndInv, NetInv
<1> QED BY <1>1, <1>2, ReceiverStep

\* The next sequence number has its type.
LEMMA NewseqType ==
    ASSUME TypeOK
    PROVE  newseq \in Seqs /\ oldseq \in Int /\ retry \in Nat
<1>1. oldseq \in Int
  BY SizesAssumption DEF TypeOK, Seqs
<1> QED BY <1>1, SeqRange DEF newseq, TypeOK

\* A request for packets, or the socket fails.
LEMMA AskKeeps ==
    ASSUME IndInv, NEW nums \in SUBSET PktIds, Ask(nums)
    PROVE  IndInv'
<1>1. newseq \in Seqs /\ retry \in Nat /\ oldseq \in Seqs
  BY NewseqType DEF IndInv, TypeOK
<1>2. /\ rpc' \in {"poll", "closed"} /\ oldseq' \in Seqs /\ retry' \in Nat
      /\ \A r \in reqs' : r \in reqs \/ (r.seq \in Seqs /\ r.nums \subseteq PktIds)
  BY <1>1 DEF Ask, CountRetry
<1>3. UNCHANGED <<writerVars, queueVars, dpc, net, pkts, first, received, total,
                  data, seqDone>>
  BY DEF Ask
<1> QED BY <1>2, <1>3, WaitKeeps

\* The first packet of the next sequence is asked for.
LEMMA AskFirstKeeps ==
    ASSUME IndInv, AskFirst
    PROVE  IndInv'
<1>1. {0} \in SUBSET PktIds
  BY SizesAssumption DEF PktIds
<1> QED BY <1>1, AskKeeps DEF AskFirst

\* The packets the current sequence lacks are asked for.
LEMMA AskMissingKeeps ==
    ASSUME IndInv, AskMissing
    PROVE  IndInv'
<1>1. Missing \in SUBSET PktIds
  BY SizesAssumption DEF Missing, PktIds, IndInv, TypeOK
<1> QED BY <1>1, AskKeeps DEF AskMissing

\* The other steps of receive that touch neither list nor data.
LEMMA QuietReceiverKeeps ==
    ASSUME IndInv, \/ PacketBufferFull \/ WaitFirst \/ GiveUpFirst
                   \/ ExitOutOfSync \/ GiveUp \/ WaitMissing \/ Complete
    PROVE  IndInv'
<1>1. newseq \in Seqs /\ retry \in Nat /\ oldseq \in Seqs
  BY NewseqType DEF IndInv, TypeOK
<1>2. /\ UNCHANGED <<writerVars, queueVars, dpc, net, reqs, pkts, first,
                     received, total, data, seqDone, retry>>
      /\ rpc' \in {"idle", "poll", "closed", "aborted"}
      /\ oldseq' \in {oldseq, newseq}
  BY DEF PacketBufferFull, WaitFirst, GiveUpFirst, ExitOutOfSync, GiveUp,
         WaitMissing, Complete, Stop, netVars
<1> QED BY <1>1, <1>2, WaitKeeps

\* What TakePackets takes, leaves and copies.
Fresh  == pkts \ Leading(pkts, OldSeqs)
Taken  == Leading(Fresh, CurrentSeqs)
Size   == IF received = {} /\ Taken # {} THEN Front(Taken).total ELSE total
Copied == {p \in Taken : p.num < Size /\ p.num \notin received}

\* The effect of TakePackets in these terms.
LEMMA TakePacketsFacts ==
    ASSUME IndInv, TakePackets
    PROVE  /\ rpc = "process" /\ rpc' \in {"poll", "check"}
           /\ rpc' = "check" => seqDone'
           /\ pkts' = Fresh \ Taken /\ Fresh \subseteq pkts /\ Taken \subseteq Fresh
           /\ Copied \subseteq Taken
           /\ total' = Size /\ Size \in 0..MaxPackets
           /\ received' = received \union {p.num : p \in Copied}
           /\ received' \subseteq PktIds
           /\ data' \in [PktIds -> Frames \union {NoFrame}]
           /\ \A i \in PktIds : \/ \E p \in Copied : p.num = i /\ data'[i] = p.payload
                                \/ data'[i] = data[i] /\ ~\E p \in Copied : p.num = i
           /\ seqDone' \in BOOLEAN
           /\ seqDone' => seqDone \/ Taken # {} \/ received' # {}
           /\ Taken # {} => Front(Taken) \in Taken
           /\ UNCHANGED <<writerVars, queueVars, dpc, netVars, first, oldseq, retry, out>>
<1>1. Fresh \subseteq pkts /\ Taken \subseteq Fresh /\ Copied \subseteq Taken
  BY DEF Fresh, Taken, Copied, Leading
<1>2. pkts \subseteq PacketType /\ \A p, q \in pkts : p.seq = q.seq /\ p.num = q.num => p = q
  BY DEF IndInv, TypeOK, NetInv
<1>3. Taken # {} => Front(Taken) \in Taken
  BY <1>1, <1>2, FrontInList DEF NoDuplicates
<1>4. \A p \in Taken : /\ p.total \in 1..MaxPackets /\ p.num \in PktIds
                       /\ p.payload \in Frames
  BY <1>1, <1>2 DEF PacketType
<1>5. Size \in 0..MaxPackets
  BY <1>3, <1>4, SizesAssumption DEF Size, IndInv, TypeOK
<1>6. /\ pkts' = Fresh \ Taken /\ total' = Size
      /\ received' = received \union {p.num : p \in Copied}
      /\ data' = [i \in PktIds |->
                    IF \E p \in Copied : p.num = i
                    THEN (CHOOSE p \in Copied : p.num = i).payload ELSE data[i]]
      /\ rpc = "process"
      /\ UNCHANGED <<writerVars, queueVars, dpc, netVars, first, oldseq, retry, out>>
  BY DEF TakePackets, Fresh, Taken, Size, Copied
<1>7. seqDone' = \/ seqDone
                 \/ \E p \in Taken : p.num + 1 = p.total
                 \/ /\ Fresh # {} /\ Fresh \ Taken # {} /\ received' # {}
                    /\ Distance(Front(Fresh \ Taken).seq) > 0
  BY DEF TakePackets, Fresh, Taken, Size, Copied
<1>8. rpc' = IF seqDone' /\ (pkts = {} \/ Fresh # {}) THEN "check" ELSE "poll"
  BY DEF TakePackets, Fresh
<1>9. received' \subseteq PktIds
  BY <1>1, <1>4, <1>6 DEF IndInv, TypeOK
<1>10. ASSUME NEW i \in PktIds
       PROVE  /\ \/ \E p \in Copied : p.num = i /\ data'[i] = p.payload
                 \/ data'[i] = data[i] /\ ~\E p \in Copied : p.num = i
              /\ data'[i] \in Frames \union {NoFrame}
  <2>1. data[i] \in Frames \union {NoFrame}
    BY DEF IndInv, TypeOK
  <2>2. CASE \E p \in Copied : p.num = i
    <3> DEFINE x == CHOOSE p \in Copied : p.num = i
    <3>1. x \in Copied /\ x.num = i
      BY <2>2
    <3>2. data'[i] = x.payload
      BY <1>6, <2>2
    <3> HIDE DEF x
    <3> QED BY <1>1, <1>4, <3>1, <3>2
  <2>3. CASE ~\E p \in Copied : p.num = i
    BY <1>6, <2>1, <2>3
  <2> QED BY <2>2, <2>3
<1>11. data' \in [PktIds -> Frames \union {NoFrame}]
  BY <1>6, <1>10
<1>12. seqDone' \in BOOLEAN /\ (seqDone' => seqDone \/ Taken # {} \/ received' # {})
  <2>1. seqDone \in BOOLEAN
    BY DEF IndInv, TypeOK
  <2> QED BY <1>7, <2>1
<1>13. rpc' \in {"poll", "check"} /\ (rpc' = "check" => seqDone')
  BY <1>8
<1> QED BY <1>1, <1>3, <1>5, <1>6, <1>9, <1>10, <1>11, <1>12, <1>13

\* Copying packets keeps the types.
LEMMA TakePacketsKeeps ==
    ASSUME IndInv, TakePackets
    PROVE  IndInv'
<1>1. /\ rpc' \in {"poll", "check"} /\ pkts' \subseteq pkts
      /\ total' \in 0..MaxPackets /\ received' \subseteq PktIds
      /\ data' \in [PktIds -> Frames \union {NoFrame}] /\ seqDone' \in BOOLEAN
      /\ UNCHANGED <<writerVars, queueVars, dpc, netVars, first, oldseq, retry>>
  BY TakePacketsFacts
<1>2. /\ pkts' \subseteq net
      /\ \A p, q \in pkts' : p.seq = q.seq /\ p.num = q.num => p = q
  BY <1>1 DEF IndInv, NetInv
<1>3. first' \in BOOLEAN /\ oldseq' \in Seqs /\ retry' \in Nat /\ UNCHANGED <<net, reqs>>
  BY <1>1 DEF IndInv, TypeOK, netVars
<1> QED BY <1>1, <1>2, <1>3, ReceiverStep

-----------------------------------------------------------------------------
(* The theorems *)

\* The start satisfies IndInv.
LEMMA InitEstablishes == Init => IndInv
<1> SUFFICES ASSUME Init PROVE IndInv
  OBVIOUS
<1>1. TypeOK
  <2>1. 0 \in RadioIds /\ 0 \in Seqs /\ 0 \in 0..MaxPackets
    BY SizesAssumption DEF RadioIds, Seqs
  <2>2. FirstFrame \in FirstFrame..(LastFrame + 1)
    BY FramesAssumption
  <2>3. buffers \in Seq(Buffer) /\ curbuf \in -1..Len(buffers)
    BY DEF Init
  <2>4. /\ bufdata \in [RadioIds -> Frames \union {NoFrame}]
        /\ inUse \in [RadioIds -> BOOLEAN]
        /\ data \in [PktIds -> Frames \union {NoFrame}]
    BY DEF Init
  <2> QED BY <2>1, <2>2, <2>3, <2>4 DEF Init, TypeOK
<1>2. QueueInv /\ RadioInv
  BY SizesAssumption, FramesAssumption DEF Init, QueueInv, RadioInv,
     QueuedDataIntact, PoolSuffices
<1>3. NetInv
  BY DEF Init, NetInv
<1>4. SentInv
  <2>1. Len(buffers) = 0 /\ nextFrame = FirstFrame /\ skippedDataBuffers = 0
    BY DEF Init
  <2>2. FirstFrame..(nextFrame - 1 - Len(buffers) - skippedDataBuffers) = {}
    BY <2>1, FramesAssumption
  <2>3. 1..Len(buffers) = {}
    BY <2>1
  <2> QED BY <2>2, <2>3 DEF SentInv
<1> QED BY <1>1, <1>2, <1>3, <1>4 DEF IndInv

\* Every step keeps IndInv.
LEMMA NextKeeps == IndInv /\ [Next]_vars => IndInv'
<1> SUFFICES ASSUME IndInv, [Next]_vars PROVE IndInv'
  OBVIOUS
<1>1. CASE Writer
  BY <1>1, FillRadioBufferKeeps, SendKeeps, SendClosedKeeps, SendOverloadKeeps DEF Writer
<1>2. CASE Daemon
  BY <1>2, XmitBurstKeeps, RetransmitKeeps, DaemonIdleKeeps DEF Daemon
<1>3. CASE Receiver
  BY <1>3, ReceiveCallKeeps, GetPacketKeeps, AskFirstKeeps, AskMissingKeeps,
     TakePacketsKeeps, QuietReceiverKeeps DEF Receiver
<1>4. CASE UNCHANGED vars
  <2>1. \A i \in 1..Len(buffers) : FrameAt(i)' = FrameAt(i)
    BY <1>4 DEF FrameAt, vars, queueVars
  <2>2. TypeOK' /\ NetInv' /\ RadioInv'
    BY <1>4 DEF IndInv, TypeOK, NetInv, RadioInv, PoolSuffices, PacketOf, vars,
       writerVars, queueVars, netVars, recvVars
  <2>3. QueueInv'
    <3>1. QueuedDataIntact'
      BY <1>4, <2>1 DEF IndInv, QueueInv, QueuedDataIntact, vars, writerVars, queueVars
    <3> QED BY <1>4, <2>1, <3>1 DEF IndInv, QueueInv, vars, writerVars, queueVars
  <2>4. SentInv'
    BY <1>4, <2>1 DEF IndInv, SentInv, SentInFull, PacketOf, vars, queueVars, netVars
  <2> QED BY <2>2, <2>3, <2>4 DEF IndInv
<1> QED BY <1>1, <1>2, <1>3, <1>4 DEF Next

\* IndInv holds in every reachable state of the broadcast.
THEOREM FrameInvariance == Spec => []IndInv
  BY InitEstablishes, NextKeeps, PTL DEF Spec

\* Every variable of the writer, the sender, the network and the receiver keeps
\* its type; packets lie inside their frame.
THEOREM FrameTypes == Spec => []TypeOK
<1>1. IndInv => TypeOK
  BY DEF IndInv
<1> QED BY <1>1, FrameInvariance, PTL

\* As long as a frame is queued its radio buffer is in use and unchanged.
THEOREM QueuedFramesIntact == Spec => []QueuedDataIntact
<1>1. IndInv => QueuedDataIntact
  BY DEF IndInv, QueueInv
<1> QED BY <1>1, FrameInvariance, PTL

\* The network writer never runs out of radio buffers.
THEOREM WriterFindsBuffer == Spec => []PoolSuffices
<1>1. IndInv => PoolSuffices
  BY DEF IndInv, RadioInv
<1> QED BY <1>1, FrameInvariance, PTL

\* Until the socket fails every accepted frame was sent in full or waits in the
\* queue; the flush of a full queue, which ends the process, drops exactly the
\* frames it counts.
THEOREM AcceptedFramesAreSent == Spec => []AcceptedIsSent
<1>1. IndInv => AcceptedIsSent
  <2> SUFFICES ASSUME IndInv, dpc # "ended", NEW f \in FirstFrame..(nextFrame - 1)
               PROVE  \/ SentInFull(f) \/ StillToSend(f)
                      \/ ~SenderUp /\ f \in SkippedFrames
    BY DEF AcceptedIsSent
  <2> DEFINE n == Len(buffers)
             s == skippedDataBuffers
  <2>1. /\ n \in Nat /\ nextFrame \in Nat /\ curbuf \in Int /\ f \in Int
        /\ s \in Nat
    BY QueueType, FramesAssumption DEF IndInv, TypeOK
  <2>2. ASSUME NEW i \in 1..n, FrameAt(i) = f
        PROVE  SentInFull(f) \/ StillToSend(f)
    <3>1. CASE i <= curbuf
      <4>1. buffers[i].sofar = PktTotal(f)
        BY <2>2, <3>1 DEF IndInv, QueueInv
      <4> QED BY <2>2, <4>1 DEF IndInv, SentInv, SentInFull
    <3>2. CASE ~(i <= curbuf)
      BY <2>1, <2>2, <3>2 DEF StillToSend
    <3> QED BY <3>1, <3>2
  <2>3. CASE f <= nextFrame - 1 - n - s
    BY <2>1, <2>3, FramesAssumption DEF IndInv, SentInv
  <2>4. CASE f = nextFrame - 1 /\ n > 0
    <3>1. n \in 1..n /\ FrameAt(n) = f
      BY <2>1, <2>4 DEF FrameAt
    <3> QED BY <2>2, <3>1
  <2>5. CASE f > nextFrame - 1 - n - s /\ f < nextFrame - 1 - s
    <3> DEFINE i == f - (nextFrame - 1 - n - s)
    <3>1. i \in 1..n /\ FrameAt(i) = f
      BY <2>1, <2>5 DEF FrameAt
    <3> QED BY <2>2, <3>1
  <2>6. CASE f >= nextFrame - 1 - s /\ f < nextFrame - 1
    <3>1. s # 0
      BY <2>1, <2>6
    <3>2. ~SenderUp
      BY <3>1 DEF IndInv, QueueInv, SenderUp
    <3>3. f \in SkippedFrames
      BY <2>1, <2>6 DEF SkippedFrames
    <3> QED BY <3>2, <3>3
  <2>7. n = 0 => s = 0
    <3>1. buffers = <<>> => s = 0
      BY DEF IndInv, QueueInv
    <3>2. n = 0 => buffers = <<>>
      BY DEF IndInv, TypeOK
    <3> QED BY <3>1, <3>2
  <2> QED BY <2>1, <2>3, <2>4, <2>5, <2>6, <2>7
<1> QED BY <1>1, FrameInvariance, PTL

-----------------------------------------------------------------------------
(* What receive returns *)

\* Of two accepted frames with one sequence number there is only one, while
\* the numbers do not repeat; the same one number on.
LEMMA OneFrame ==
    ASSUME NoWrap, NEW f \in Frames, NEW g \in Frames
    PROVE  /\ f % SeqMod = g % SeqMod => f = g
           /\ f % SeqMod = ((g % SeqMod) + 1) % SeqMod => f = g + 1
<1>1. f \in Int /\ g \in Int /\ SeqMod \in Nat \ {0}
  BY FramesAssumption, SizesAssumption DEF Frames
<1>2. f - g < SeqMod /\ g - f < SeqMod /\ f - (g + 1) < SeqMod /\ (g + 1) - f < SeqMod
  BY <1>1, FramesAssumption DEF Frames, NoWrap
<1>3. ((g % SeqMod) + 1) % SeqMod = (g + 1) % SeqMod
  <2> DEFINE q == g \div SeqMod
             r == g % SeqMod
  <2>1. q \in Int /\ r \in 0..(SeqMod - 1) /\ g = SeqMod * q + r
    BY <1>1, DivMod
  <2> HIDE DEF q, r
  <2>2. g + 1 = SeqMod * q + (r + 1) /\ r + 1 \in Int
    BY <1>1, <2>1
  <2>3. (SeqMod * q + (r + 1)) % SeqMod = (r + 1) % SeqMod
    BY <1>1, <2>1, <2>2, ModShift
  <2> QED BY <2>2, <2>3 DEF r
<1>4. f % SeqMod = g % SeqMod => f = g
  BY <1>1, <1>2, ModUnique
<1>5. f % SeqMod = (g + 1) % SeqMod => f = g + 1
  <2>1. g + 1 \in Int
    BY <1>1
  <2> QED BY <1>1, <1>2, <2>1, ModUnique
<1> QED BY <1>3, <1>4, <1>5

\* A packet of the list with the number s is one of the frame numbered s.
LEMMA PacketIsOfFrame ==
    ASSUME IndInv, NEW p \in net
    PROVE  /\ p.payload \in Frames /\ AcceptedAs(p.payload, p.seq)
           /\ p.total = PktTotal(p.payload) /\ p.num \in PktIds /\ p.num < p.total
<1>1. p \in PacketType
  BY DEF IndInv, TypeOK
<1>2. p.payload \in Frames /\ p.num \in PktIds
  BY <1>1 DEF PacketType
<1>3. /\ p = PacketOf(p.payload, p.num) /\ p.payload < nextFrame /\ p.num < p.total
  BY DEF IndInv, NetInv
<1>4. /\ PacketOf(p.payload, p.num).seq = p.payload % SeqMod
      /\ PacketOf(p.payload, p.num).total = PktTotal(p.payload)
  BY DEF PacketOf
<1>5. p.seq = p.payload % SeqMod /\ p.total = PktTotal(p.payload)
  BY <1>3, <1>4
<1>6. p.payload \in FirstFrame..(nextFrame - 1)
  <2>1. nextFrame \in Nat
    BY QueueType DEF IndInv
  <2> QED BY <1>2, <1>3, <2>1, FramesAssumption DEF Frames
<1> QED BY <1>2, <1>3, <1>5, <1>6 DEF AcceptedAs

\* The packets receive takes carry the number it waits for.
LEMMA TakenIsCurrent ==
    ASSUME IndInv, NEW p \in Taken
    PROVE  p \in net /\ p.seq = newseq
<1>1. p \in Fresh /\ p.seq \in CurrentSeqs /\ p \in pkts
  BY DEF Taken, Fresh, Leading
<1>2. p.seq \in Seqs /\ Distance(p.seq) = 0
  BY <1>1 DEF CurrentSeqs
<1>3. newseq \in Seqs
  BY NewseqType DEF IndInv
<1>4. p.seq = newseq
  <2>1. p.seq - newseq < SeqMod /\ p.seq - newseq > -SeqMod
    BY <1>2, <1>3, SizesAssumption DEF Seqs
  <2> QED BY <1>2, <1>3, <2>1, SizesAssumption DEF Distance, Seqs
<1> QED BY <1>1, <1>4 DEF IndInv, NetInv

\* An accepted frame stays accepted.
LEMMA AcceptedStays ==
    ASSUME IndInv, nextFrame' \in {nextFrame, nextFrame + 1}
    PROVE  FirstFrame..(nextFrame - 1) \subseteq FirstFrame..(nextFrame' - 1)
<1>1. nextFrame \in Nat
  BY QueueType DEF IndInv
<1>2. nextFrame' \in Nat /\ nextFrame <= nextFrame'
  BY <1>1
<1>3. FirstFrame \in Nat
  BY FramesAssumption
<1>4. ASSUME NEW a \in Nat, NEW n \in Nat, NEW m \in Nat, n <= m
      PROVE  a..(n - 1) \subseteq a..(m - 1)
  BY <1>4
<1> QED BY <1>1, <1>2, <1>3, <1>4

\* What the steps of writer, sender and daemon, and the waiting ones of the
\* receiver, do not disturb.
LEMMA CopyStable ==
    ASSUME IndInv, CopyInv, nextFrame' \in {nextFrame, nextFrame + 1},
           UNCHANGED <<first, received, total, data, seqDone, oldseq>>,
           rpc' \in {"poll", "process", "check"} =>
               rpc \in {"poll", "process", "check"} /\ (rpc' = "check" => rpc = "check")
    PROVE  CopyInv'
<1>1. newseq' = newseq
  BY DEF newseq
<1>2. \A f \in Frames : AcceptedAs(f, newseq) => AcceptedAs(f, newseq)'
  BY <1>1, AcceptedStays DEF AcceptedAs
<1> QED BY <1>1, <1>2 DEF CopyInv

\* Copying keeps to one frame: all packets numbered newseq are of the same one.
LEMMA TakePacketsCopies ==
    ASSUME NoWrap, IndInv, CopyInv, TakePackets
    PROVE  CopyInv'
<1>1. /\ rpc' = "check" => seqDone'
      /\ Copied \subseteq Taken /\ total' = Size
      /\ received' = received \union {p.num : p \in Copied}
      /\ received' \subseteq PktIds
      /\ seqDone' => seqDone \/ Taken # {} \/ received' # {}
      /\ Taken # {} => Front(Taken) \in Taken
  BY TakePacketsFacts
<1>2. \A i \in PktIds : \/ \E p \in Copied : p.num = i /\ data'[i] = p.payload
                        \/ data'[i] = data[i] /\ ~\E p \in Copied : p.num = i
  BY TakePacketsFacts
<1>3. UNCHANGED <<first, oldseq, nextFrame>> /\ newseq' = newseq /\ rpc = "process"
  BY TakePacketsFacts DEF queueVars, newseq
<1>4. /\ ~first
      /\ received = {} => total = 0
      /\ seqDone => received # {}
      /\ received # {} => \E f \in Frames :
           /\ AcceptedAs(f, newseq) /\ total = PktTotal(f)
           /\ \A i \in received : data[i] = f
  BY <1>3 DEF CopyInv
<1>5. \A p \in Taken : /\ p.payload \in Frames /\ AcceptedAs(p.payload, newseq)
                       /\ p.total = PktTotal(p.payload) /\ p.num < p.total
  BY PacketIsOfFrame, TakenIsCurrent
<1>6. ASSUME NEW f \in Frames, AcceptedAs(f, newseq), NEW p \in Taken
      PROVE  p.payload = f
  <2>1. p.payload \in Frames /\ p.payload % SeqMod = f % SeqMod
    BY <1>5, <1>6 DEF AcceptedAs
  <2> QED BY <2>1, OneFrame
<1>7. CASE received = {} /\ Taken = {}
  <2>1. Copied = {} /\ ~seqDone
    BY <1>1, <1>4, <1>7
  <2>2. received' = {}
    BY <1>1, <1>7, <2>1
  <2>3. total' = 0
    BY <1>1, <1>4, <1>7 DEF Size
  <2> QED BY <1>1, <1>3, <1>4, <1>7, <2>1, <2>2, <2>3 DEF CopyInv
<1>8. ASSUME NEW f \in Frames, AcceptedAs(f, newseq), Size = PktTotal(f),
             \A i \in received : data[i] = f, received' # {}
      PROVE  CopyInv'
  <2>1. ASSUME NEW i \in received' PROVE data'[i] = f
    <3>1. i \in PktIds
      BY <1>1
    <3>2. CASE \E p \in Copied : p.num = i /\ data'[i] = p.payload
      BY <1>1, <1>6, <1>8, <3>2
    <3>3. CASE data'[i] = data[i] /\ ~\E p \in Copied : p.num = i
      BY <1>1, <1>8, <3>3
    <3> QED BY <1>2, <3>1, <3>2, <3>3
  <2>2. AcceptedAs(f, newseq)'
    BY <1>3, <1>8 DEF AcceptedAs
  <2> QED BY <1>1, <1>3, <1>4, <1>8, <2>1, <2>2 DEF CopyInv
<1>9. CASE received # {}
  <2>1. PICK f \in Frames : /\ AcceptedAs(f, newseq) /\ total = PktTotal(f)
                            /\ \A i \in received : data[i] = f
    BY <1>4, <1>9
  <2>2. Size = total /\ received' # {}
    BY <1>1, <1>9 DEF Size
  <2> QED BY <1>8, <2>1, <2>2
<1>10. CASE received = {} /\ Taken # {}
  <2> DEFINE p == Front(Taken)
             f == Front(Taken).payload
  <2>1. p \in Taken /\ f \in Frames /\ AcceptedAs(f, newseq) /\ Size = PktTotal(f)
    BY <1>1, <1>5, <1>10 DEF Size
  <2>2. p \in Copied
    BY <1>5, <1>10, <2>1 DEF Copied
  <2>3. p.num \in received'
    BY <1>1, <2>2
  <2> QED BY <1>8, <1>10, <2>1, <2>3
<1> QED BY <1>7, <1>9, <1>10

\* Every step keeps CopyInv.
LEMMA NextCopies ==
    ASSUME NoWrap
    PROVE  IndInv /\ CopyInv /\ [Next]_vars => CopyInv'
<1> SUFFICES ASSUME IndInv, CopyInv, [Next]_vars PROVE CopyInv'
  OBVIOUS
<1> USE DEF recvVars, queueVars
<1>1. CASE Writer
  <2>1. UNCHANGED recvVars /\ nextFrame' \in {nextFrame, nextFrame + 1}
    BY <1>1 DEF Writer, FillRadioBuffer, Send, SendClosed, SendOverload
  <2> QED BY <2>1, CopyStable
<1>2. CASE Daemon
  <2>1. UNCHANGED recvVars /\ nextFrame' = nextFrame
    BY <1>2 DEF Daemon, XmitBurst, XmitIdle, Retransmit, NoRequest
  <2> QED BY <2>1, CopyStable
<1>3. CASE ReceiveCall
  BY <1>3 DEF ReceiveCall, CopyInv
<1>4. CASE TakePackets
  BY <1>4, TakePacketsCopies
<1>5. CASE GetPacket \/ PacketBufferFull \/ WaitFirst \/ GiveUpFirst \/ ExitOutOfSync
           \/ GiveUp \/ WaitMissing
  <2>1. /\ UNCHANGED <<nextFrame, first, received, total, data, seqDone, oldseq>>
        /\ rpc \in {"poll", "process", "check"}
        /\ rpc' \in {"process", "poll", "aborted"}
    BY <1>5 DEF GetPacket, PacketBufferFull, WaitFirst, GiveUpFirst, ExitOutOfSync,
       GiveUp, WaitMissing, Stop
  <2> QED BY <2>1, CopyStable
<1>6. CASE AskFirst \/ AskMissing
  <2>1. /\ UNCHANGED <<nextFrame, first, received, total, data, seqDone, oldseq>>
        /\ rpc \in {"process", "check"} /\ rpc' \in {"poll", "closed"}
    BY <1>6 DEF AskFirst, AskMissing, Ask
  <2> QED BY <2>1, CopyStable
<1>7. CASE Complete
  BY <1>7 DEF Complete, CopyInv
<1>8. CASE UNCHANGED vars
  BY <1>8, CopyStable DEF vars
<1> QED BY <1>1, <1>2, <1>3, <1>4, <1>5, <1>6, <1>7, <1>8 DEF Next, Receiver

\* With all packets of the sequence copied, receive returns the whole frame
\* numbered newseq.
LEMMA CompleteIsWhole ==
    ASSUME IndInv, CopyInv, Complete
    PROVE  \E f \in Frames : AcceptedAs(f, newseq) /\ out' = Channel!Whole(f)
<1>1. rpc = "check" /\ Missing = {}
  BY DEF Complete
<1>2. PICK f \in Frames : /\ AcceptedAs(f, newseq) /\ total = PktTotal(f)
                          /\ \A i \in received : data[i] = f
  BY <1>1 DEF CopyInv
<1>3. \A i \in 0..(total - 1) : data[i] = f
  BY <1>1, <1>2 DEF Missing
<1>4. [i \in 0..(total - 1) |-> data[i]] = [i \in 0..(PktTotal(f) - 1) |-> f]
  BY <1>2, <1>3
<1>5. out' = [sequence |-> f % SeqMod, data |-> [i \in 0..(PktTotal(f) - 1) |-> f]]
  BY <1>2, <1>4 DEF Complete, AcceptedAs
<1> QED BY <1>2, <1>5 DEF Channel!Whole

\* Every step keeps OutInv.
LEMMA NextOut ==
    IndInv /\ CopyInv /\ OutInv /\ [Next]_vars => OutInv'
<1> SUFFICES ASSUME IndInv, CopyInv, OutInv, [Next]_vars PROVE OutInv'
  OBVIOUS
<1> USE DEF recvVars, queueVars
<1>1. ASSUME UNCHANGED <<out, first, oldseq>>, nextFrame' \in {nextFrame, nextFrame + 1}
      PROVE  OutInv'
  <2>1. \A f \in Frames : AcceptedAs(f, oldseq) => AcceptedAs(f, oldseq)'
    BY <1>1, AcceptedStays DEF AcceptedAs
  <2> QED BY <1>1, <2>1 DEF OutInv, Channel!Whole
<1>2. CASE Writer
  BY <1>1, <1>2 DEF Writer, FillRadioBuffer, Send, SendClosed, SendOverload
<1>3. CASE Daemon
  BY <1>1, <1>3 DEF Daemon, XmitBurst, XmitIdle, Retransmit, NoRequest
<1>4. CASE ReceiveCall
  <2>1. first' = FALSE /\ out' = out /\ nextFrame' = nextFrame
    BY <1>4 DEF ReceiveCall
  <2>2. ~first => oldseq' = oldseq
    BY <1>4 DEF ReceiveCall
  <2> QED BY <2>1, <2>2 DEF OutInv, AcceptedAs, Channel!Whole
<1>5. CASE Complete
  <2>1. ~first' /\ oldseq' = newseq /\ nextFrame' = nextFrame
    BY <1>5 DEF Complete, CopyInv
  <2>2. PICK f \in Frames : AcceptedAs(f, newseq) /\ out' = Channel!Whole(f)
    BY <1>5, CompleteIsWhole
  <2> QED BY <2>1, <2>2 DEF OutInv, AcceptedAs, Channel!Whole
<1>6. CASE /\ \/ GetPacket \/ PacketBufferFull \/ WaitFirst \/ GiveUpFirst
              \/ ExitOutOfSync \/ GiveUp \/ WaitMissing \/ AskFirst \/ AskMissing
              \/ TakePackets
  <2>1. UNCHANGED <<out, first, oldseq, nextFrame>>
    BY <1>6 DEF GetPacket, PacketBufferFull, WaitFirst, GiveUpFirst, ExitOutOfSync,
       GiveUp, WaitMissing, Stop, AskFirst, AskMissing, Ask, TakePackets
  <2> QED BY <1>1, <2>1
<1>7. CASE UNCHANGED vars
  BY <1>1, <1>7 DEF vars
<1> QED BY <1>2, <1>3, <1>4, <1>5, <1>6, <1>7 DEF Next, Receiver

\* A step of the broadcast is a step of the channel, or none.
LEMMA StepIsChannelStep ==
    ASSUME NoWrap
    PROVE  IndInv /\ CopyInv /\ OutInv /\ [Next]_vars => [Channel!Next]_(Channel!vars)
<1> SUFFICES ASSUME IndInv, CopyInv, OutInv, [Next]_vars
             PROVE  Channel!Next \/ UNCHANGED <<nextFrame, out>>
  BY DEF Channel!vars
<1> USE DEF recvVars, queueVars
<1>1. CASE Complete
  <2>1. PICK f \in Frames : AcceptedAs(f, newseq) /\ out' = Channel!Whole(f)
    BY <1>1, CompleteIsWhole
  <2>2. f \in FirstFrame..(nextFrame - 1) /\ nextFrame' = nextFrame
    BY <1>1, <2>1 DEF AcceptedAs, Complete
  <2>3. ASSUME out # NoFrame PROVE out = Channel!Whole(f - 1)
    <3>1. PICK g \in Frames : AcceptedAs(g, oldseq) /\ out = Channel!Whole(g)
      BY <2>3 DEF OutInv
    <3>2. f % SeqMod = ((g % SeqMod) + 1) % SeqMod
      BY <2>1, <3>1 DEF AcceptedAs, newseq
    <3>3. f = g + 1
      BY <3>2, OneFrame
    <3>4. f - 1 = g
      BY <3>3, FramesAssumption DEF Frames
    <3> QED BY <3>1, <3>4
  <2>4. Channel!Deliver
    BY <2>1, <2>2, <2>3 DEF Channel!Deliver
  <2> QED BY <2>4 DEF Channel!Next
<1>2. CASE Send \/ SendOverload
  BY <1>2 DEF Send, SendOverload, Channel!Next, Channel!Send
<1>3. CASE FillRadioBuffer \/ SendClosed \/ Daemon
  BY <1>3 DEF FillRadioBuffer, SendClosed, Daemon, XmitBurst, XmitIdle,
     Retransmit, NoRequest
<1>4. CASE Receiver /\ ~Complete
  BY <1>4 DEF Receiver, ReceiveCall, GetPacket, PacketBufferFull, WaitFirst,
     GiveUpFirst, ExitOutOfSync, GiveUp, WaitMissing, Stop, AskFirst, AskMissing,
     Ask, TakePackets
<1>5. CASE UNCHANGED vars
  BY <1>5 DEF vars
<1> QED BY <1>1, <1>2, <1>3, <1>4, <1>5 DEF Next, Writer

\* Whatever is lost, duplicated, delayed or reordered, and wherever processes
\* stop: as long as sequence numbers do not repeat while packets are on their
\* way, receive returns whole frames in the order of send without a gap.
THEOREM ReceiverRefinesChannel ==
    ASSUME NoWrap
    PROVE  Spec => ImplementsChannel
<1>1. Init => CopyInv /\ OutInv /\ Channel!Init
  BY DEF Init, CopyInv, OutInv, Channel!Init
<1> QED
  BY <1>1, InitEstablishes, NextKeeps, NextCopies, NextOut, StepIsChannelStep, PTL
     DEF Spec, ImplementsChannel, Channel!Spec
=============================================================================
