----------------------------- MODULE FrameXmit ------------------------------
(***************************************************************************)
(* The frame broadcast of the daemon: the network writer that feeds it     *)
(* from a pool of radio buffers (daqd/net_writer.cc), the sender with its  *)
(* transmit daemon (daqd/framesend.cc) and the receiver with its requests  *)
(* for retransmission (daqd/framerecv.cc).                                 *)
(*                                                                         *)
(* Frame f has the sequence number f % SeqMod.  A payload is abstracted to *)
(* the frame it was read from, so a buffer that is reused too early is     *)
(* seen in the data.  The network is UDP: every packet and every request   *)
(* ever sent stays in a set, from which it may be taken late, out of       *)
(* order, several times, or never.  The retry timer of the receiver is a   *)
(* choice of the step that reads the clock.                                *)
(***************************************************************************)
EXTENDS Integers, Sequences, FiniteSets

CONSTANTS
    RadioBufs,          \* radio_buf_num, 20
    MaxBuffers,         \* maxbuffers, radio_buf_num - 1
    PacketBurst,        \* packetBurst
    MaximumRetransmit,  \* maximumRetransmit, 200
    MaxRetry,           \* maxRetry, 50
    MaxOutOfSync,       \* maxSequenceOutOfSync, 500
    PacketBufferSize,   \* rcvpacketbuffersize, 10240
    SeqMod,             \* 2^32
    PktTotal(_),        \* packets of a frame
    MaxPackets,         \* packets that fit into the buffer of the receiver's user
    FirstFrame,         \* frames sent before the connection was opened
    LastFrame,          \* bound on frames, for model checking
    PutMayFail,         \* may sendto fail?
    NoFrame

RadioIds == 0..(RadioBufs - 1)
Frames   == FirstFrame..LastFrame
Seqs     == 0..(SeqMod - 1)
PktIds   == 0..(MaxPackets - 1)

ASSUME SizesAssumption ==
    /\ RadioBufs \in Nat
    /\ MaxBuffers \in Nat /\ MaxBuffers >= 2 /\ MaxBuffers < RadioBufs
    /\ PacketBurst \in Nat \ {0}
    /\ MaximumRetransmit \in Nat /\ MaxRetry \in Nat /\ MaxOutOfSync \in Nat
    /\ PacketBufferSize \in Nat
    /\ SeqMod \in Nat /\ SeqMod >= 2
    /\ MaxPackets \in Nat \ {0}
    /\ PutMayFail \in BOOLEAN

ASSUME FramesAssumption ==
    /\ FirstFrame \in Nat /\ LastFrame \in Nat /\ FirstFrame <= LastFrame
    /\ NoFrame \notin Int
    /\ \A f \in Frames : PktTotal(f) \in 1..MaxPackets

VARIABLES
    \* net_writer_c: where its thread is, the radio buffer it filled, the pool
    wpc, wbuf, bufdata, inUse,
    \* frameSend: the next frame (its seq), the queue, the buffers it dropped,
    \* where the daemon is
    nextFrame, buffers, curbuf, skippedDataBuffers, dpc,
    \* the network: packets and requests ever sent
    net, reqs,
    \* frameRecv: where receive is, packet list, last sequence
    rpc, pkts, first, oldseq,
    \* locals of receive: packets marked received, their number, the user's
    \* buffer, seqDone, retry
    received, total, data, seqDone, retry,
    \* history: what the last receive returned
    out

writerVars == <<wpc, wbuf, bufdata, inUse>>
queueVars  == <<nextFrame, buffers, curbuf, skippedDataBuffers>>
netVars    == <<net, reqs>>
recvVars   == <<rpc, pkts, first, oldseq, received, total, data, seqDone,
                retry, out>>
vars == <<writerVars, queueVars, dpc, netVars, recvVars>>

Init ==
    /\ wpc = "idle" /\ wbuf = 0
    /\ bufdata = [r \in RadioIds |-> NoFrame]
    /\ inUse = [r \in RadioIds |-> FALSE]
    /\ nextFrame = FirstFrame /\ buffers = <<>> /\ curbuf = -1
    /\ skippedDataBuffers = 0
    /\ dpc = "xmit"
    /\ net = {} /\ reqs = {}
    /\ rpc = "idle" /\ pkts = {} /\ first = TRUE /\ oldseq = 0
    /\ received = {} /\ total = 0
    /\ data = [i \in PktIds |-> NoFrame]
    /\ seqDone = FALSE /\ retry = 0
    /\ out = NoFrame

-----------------------------------------------------------------------------
(* The network writer, send_to_client *)

FreeBufs == {r \in RadioIds : ~inUse[r]}

\* The first unused radio buffer is filled with the frame; without one ("cannot
\* find unused radio buffer; frame was lost") the process aborts.
FillRadioBuffer ==
    /\ wpc = "idle" /\ nextFrame <= LastFrame
    /\ IF FreeBufs = {}
       THEN wpc' = "nobuffer" /\ UNCHANGED <<wbuf, bufdata>>
       ELSE /\ wbuf' = CHOOSE r \in FreeBufs : \A q \in FreeBufs : r <= q
            /\ bufdata' = [bufdata EXCEPT ![wbuf'] = nextFrame]
            /\ wpc' = "filled"
    /\ UNCHANGED <<inUse, queueVars, dpc, netVars, recvVars>>

-----------------------------------------------------------------------------
(* The sender: send puts a buffer into the queue *)

NewBuffer == [seq |-> nextFrame % SeqMod, radio |-> wbuf,
              total |-> PktTotal(nextFrame), sofar |-> 0]

\* curbuf counts the buffers sent completely: the front one may go once half
\* of the queue is old, and its destructor releases the radio buffer.
TooManyOld == curbuf # -1 /\ curbuf >= MaxBuffers \div 2

\* Mutant of Enqueue: pop_front without curbuf--.
EnqueueStaleCursor ==
    IF TooManyOld
    THEN /\ buffers' = Append(Tail(buffers), NewBuffer)
         /\ curbuf' = curbuf
         /\ inUse' = [inUse EXCEPT ![wbuf] = TRUE, ![Head(buffers).radio] = FALSE]
    ELSE /\ buffers' = Append(buffers, NewBuffer)
         /\ curbuf' = IF curbuf = -1 THEN 0 ELSE curbuf
         /\ inUse' = [inUse EXCEPT ![wbuf] = TRUE]

\* Mutant of Enqueue: the radio buffer is not marked as used.
EnqueueUnmarked ==
    IF TooManyOld
    THEN /\ buffers' = Append(Tail(buffers), NewBuffer)
         /\ curbuf' = curbuf - 1
         /\ inUse' = [inUse EXCEPT ![Head(buffers).radio] = FALSE]
    ELSE /\ buffers' = Append(buffers, NewBuffer)
         /\ curbuf' = IF curbuf = -1 THEN 0 ELSE curbuf
         /\ UNCHANGED inUse

\* Mutant of Enqueue: the front buffer is not destroyed, its radio buffer
\* stays in use.
EnqueueLeak ==
    /\ buffers' = Append(IF TooManyOld THEN Tail(buffers) ELSE buffers, NewBuffer)
    /\ curbuf' = IF curbuf = -1 THEN 0 ELSE IF TooManyOld THEN curbuf - 1 ELSE curbuf
    /\ inUse' = [inUse EXCEPT ![wbuf] = TRUE]

Enqueue ==
    IF TooManyOld
    THEN /\ buffers' = Append(Tail(buffers), NewBuffer)
         /\ curbuf' = curbuf - 1
         /\ inUse' = [inUse EXCEPT ![wbuf] = TRUE, ![Head(buffers).radio] = FALSE]
    ELSE /\ buffers' = Append(buffers, NewBuffer)
         /\ curbuf' = IF curbuf = -1 THEN 0 ELSE curbuf
         /\ inUse' = [inUse EXCEPT ![wbuf] = TRUE]

QueueFull == curbuf # -1 /\ ~TooManyOld /\ Len(buffers) >= MaxBuffers

\* frameSend::send; with the socket closed it returns false and the frame is
\* dropped.
Send ==
    /\ wpc = "filled" /\ dpc # "ended" /\ ~QueueFull
    /\ Enqueue
    /\ nextFrame' = nextFrame + 1
    /\ wpc' = "idle"
    /\ UNCHANGED <<wbuf, bufdata, skippedDataBuffers, dpc, netVars, recvVars>>

SendClosed ==
    /\ wpc = "filled" /\ dpc = "ended"
    /\ wpc' = "idle"
    /\ UNCHANGED <<wbuf, bufdata, inUse, queueVars, dpc, netVars, recvVars>>

\* What is left of the queue when the pipe is flushed: the buffers sent
\* completely and the one being sent.
Kept == SubSeq(buffers, 1, curbuf + 1)

\* "overload! flush pipe": the buffers after the current one are destroyed,
\* which releases their radio buffers, the new one is queued, and the process
\* aborts.
SendOverload ==
    /\ wpc = "filled" /\ dpc # "ended" /\ QueueFull
    /\ buffers' = Append(Kept, NewBuffer)
    /\ inUse' = [r \in RadioIds |->
                   r = wbuf \/ \E i \in 1..Len(Kept) : Kept[i].radio = r]
    /\ skippedDataBuffers' = skippedDataBuffers + (Len(buffers) - Len(Kept))
    /\ nextFrame' = nextFrame + 1
    /\ wpc' = "aborted"
    /\ UNCHANGED <<wbuf, bufdata, curbuf, dpc, netVars, recvVars>>

SenderUp == wpc \notin {"nobuffer", "aborted"}

-----------------------------------------------------------------------------
(* The transmit daemon: a burst of packets, then at most one request *)

Current == buffers[curbuf + 1]

Packet(b, i) == [seq |-> b.seq, num |-> i, total |-> b.total,
                 payload |-> bufdata[b.radio]]

\* putPackets sends them all, or fails before the last one.
PutPackets(packets, next) ==
    \/ net' = net \union packets /\ dpc' = next
    \/ /\ PutMayFail
       /\ \E some \in SUBSET packets :
            some # packets /\ net' = net \union some
       /\ dpc' = "ended"

Pending == curbuf # -1 /\ curbuf < Len(buffers)

BurstEnd ==
    IF Current.sofar + PacketBurst < Current.total
    THEN Current.sofar + PacketBurst ELSE Current.total

\* Packets are assembled and the buffer advanced under the lock, then sent;
\* when sendto fails part of them is out, the socket is closed and the daemon
\* ends.
XmitBurst ==
    /\ SenderUp /\ dpc = "xmit" /\ Pending
    /\ buffers' = [buffers EXCEPT ![curbuf + 1].sofar = BurstEnd]
    /\ curbuf' = IF BurstEnd >= Current.total THEN curbuf + 1 ELSE curbuf
    /\ PutPackets({Packet(Current, i) : i \in Current.sofar..(BurstEnd - 1)}, "poll")
    /\ UNCHANGED <<writerVars, nextFrame, skippedDataBuffers, reqs, recvVars>>

XmitIdle ==
    /\ SenderUp /\ dpc = "xmit" /\ ~Pending
    /\ dpc' = "poll"
    /\ UNCHANGED <<writerVars, queueVars, netVars, recvVars>>

\* lower_bound of the queue by compSeqeuence, which compares the numbers as
\* they are: a binary search, also where the queue is not ordered.
LowerBound(s) ==
    LET search[lo \in Nat, len \in Nat] ==
            IF len = 0 THEN lo
            ELSE LET half == len \div 2
                 IN IF buffers[lo + half + 1].seq < s
                    THEN search[lo + half + 1, len - half - 1]
                    ELSE search[lo, half]
    IN search[0, Len(buffers)]

Available(s) ==
    /\ curbuf # -1
    /\ LowerBound(s) \in 0..(Len(buffers) - 1)
    /\ buffers[LowerBound(s) + 1].seq = s

Answer(r) ==
    LET b == buffers[LowerBound(r.seq) + 1]
    IN {Packet(b, i) : i \in {j \in r.nums : j < b.total}}

\* getRetransmitPacket finds a request; what is no longer in the queue, or too
\* much, is ignored.
Retransmit ==
    /\ SenderUp /\ dpc = "poll"
    /\ \E r \in reqs :
         IF Available(r.seq) /\ Cardinality(r.nums) <= MaximumRetransmit
         THEN PutPackets(Answer(r), "xmit")
         ELSE dpc' = "xmit" /\ UNCHANGED net
    /\ UNCHANGED <<writerVars, queueVars, reqs, recvVars>>

NoRequest ==
    /\ SenderUp /\ dpc = "poll"
    /\ dpc' = "xmit"
    /\ UNCHANGED <<writerVars, queueVars, netVars, recvVars>>

-----------------------------------------------------------------------------
(* The receiver *)

\* Mutant of newseq: a number wider than 32 bits.
WideNewseq == oldseq + 1

newseq == (oldseq + 1) % SeqMod

\* calcDiff for one packet: the distance to newseq, folded at half the range.
Distance(s) ==
    LET d == s - newseq
    IN IF d > SeqMod \div 2 THEN d - SeqMod
       ELSE IF d < -(SeqMod \div 2) THEN d + SeqMod ELSE d

\* auto_pkt_ptr::operator<: sequence numbers as they are, then packet numbers.
Before(p, q) == p.seq < q.seq \/ (p.seq = q.seq /\ p.num < q.num)

\* The packet list is sorted by Before and holds no duplicates.
Front(list) == CHOOSE p \in list : \A q \in list : q = p \/ Before(p, q)

\* The packets at the front of the list as long as their numbers are in seqs.
Leading(list, seqs) ==
    {p \in list : \A q \in list : q = p \/ Before(q, p) => q.seq \in seqs}

diff == IF pkts = {} THEN 0 ELSE Distance(Front(pkts).seq)

\* getPacket inserts what it reads unless it is there already.
Insert(p) ==
    IF \E q \in pkts : q.seq = p.seq /\ q.num = p.num THEN pkts
    ELSE pkts \union {p}

\* receive waits for a packet if the list is empty; the first packet ever
\* makes its own sequence the old one.
ReceiveCall ==
    /\ rpc = "idle"
    /\ \/ pkts # {} /\ pkts' = pkts
       \/ pkts = {} /\ \E p \in net : pkts' = {p}
    /\ oldseq' = IF first THEN Front(pkts').seq ELSE oldseq
    /\ first' = FALSE
    /\ received' = {} /\ total' = 0 /\ seqDone' = FALSE /\ retry' = 0
    /\ rpc' = "poll"
    /\ UNCHANGED <<writerVars, queueVars, dpc, netVars, data, out>>

\* One packet, or none, is read from the socket.
GetPacket ==
    /\ rpc = "poll"
    /\ Cardinality(pkts) < PacketBufferSize
    /\ \/ pkts' = pkts
       \/ \E p \in net : pkts' = Insert(p)
    /\ rpc' = "process"
    /\ UNCHANGED <<writerVars, queueVars, dpc, netVars, first, oldseq, received,
                   total, data, seqDone, retry, out>>

\* "Packet buffer is full", then abort.
PacketBufferFull ==
    /\ rpc = "poll"
    /\ Cardinality(pkts) >= PacketBufferSize
    /\ rpc' = "aborted"
    /\ UNCHANGED <<writerVars, queueVars, dpc, netVars, pkts, first, oldseq,
                   received, total, data, seqDone, retry, out>>

\* Mutant of CountRetry: the retry is not counted.
CountNothing == retry

CountRetry == retry + 1

\* putPacket of a retransmitpacket and the start of the timer; when sendto
\* fails the socket is closed and receive returns -6.
Ask(nums) ==
    /\ \/ /\ reqs' = reqs \union {[seq |-> newseq, nums |-> nums]}
          /\ retry' = CountRetry
          /\ rpc' = "poll"
       \/ /\ PutMayFail
          /\ rpc' = "closed"
          /\ UNCHANGED <<reqs, retry>>
    /\ UNCHANGED <<writerVars, queueVars, dpc, net, pkts, first, oldseq,
                   received, total, data, seqDone, out>>

Stop ==
    /\ rpc' = "aborted"
    /\ UNCHANGED <<writerVars, queueVars, dpc, netVars, pkts, first, oldseq,
                   received, total, data, seqDone, retry, out>>

\* Only packets of later sequences: the first packet of newseq is asked for.
Missed == pkts # {} /\ diff >= 1 /\ received = {}

AskFirst ==
    /\ rpc = "process" /\ Missed
    /\ retry < MaxRetry \/ retry = 0       \* at retry > 0 the timer expired
    /\ Ask({0})

WaitFirst ==
    /\ rpc = "process" /\ Missed /\ retry > 0
    /\ rpc' = "poll"
    /\ UNCHANGED <<writerVars, queueVars, dpc, netVars, pkts, first, oldseq,
                   received, total, data, seqDone, retry, out>>

GiveUpFirst ==
    /\ rpc = "process" /\ Missed /\ retry > 0 /\ retry >= MaxRetry
    /\ Stop

OutOfSync == pkts # {} /\ ~Missed /\ (diff > MaxOutOfSync \/ -diff > MaxOutOfSync)

ExitOutOfSync ==
    /\ rpc = "process" /\ OutOfSync
    /\ Stop

OldSeqs     == {s \in Seqs : Distance(s) < 0}
CurrentSeqs == {s \in Seqs : Distance(s) = 0}

\* Old packets are dropped; packets of newseq are copied where they belong; the
\* sequence is done with its last packet or when a later one is there.
TakePackets ==
    /\ rpc = "process" /\ ~Missed /\ ~OutOfSync
    /\ LET fresh == pkts \ Leading(pkts, OldSeqs)
           taken == Leading(fresh, CurrentSeqs)
           left  == fresh \ taken
           size  == IF received = {} /\ taken # {} THEN Front(taken).total ELSE total
           copied == {p \in taken : p.num < size /\ p.num \notin received}
       IN /\ pkts' = left
          /\ total' = size
          /\ received' = received \union {p.num : p \in copied}
          /\ data' = [i \in PktIds |->
                        IF \E p \in copied : p.num = i
                        THEN (CHOOSE p \in copied : p.num = i).payload ELSE data[i]]
          /\ seqDone' = \/ seqDone
                        \/ \E p \in taken : p.num + 1 = p.total
                        \/ /\ fresh # {} /\ left # {} /\ received' # {}
                           /\ Distance(Front(left).seq) > 0
          /\ rpc' = IF seqDone' /\ (pkts = {} \/ fresh # {})
                    THEN "check" ELSE "poll"
    /\ UNCHANGED <<writerVars, queueVars, dpc, netVars, first, oldseq, retry, out>>

\* Mutant of Missing: the last packet is taken for the whole sequence.
MissingBeforeLast ==
    {i \in 0..(total - 1) : i \notin received /\ i > 0}

Missing == (0..(total - 1)) \ received

Complete ==
    /\ rpc = "check" /\ Missing = {}
    /\ oldseq' = newseq
    /\ out' = [sequence |-> newseq, data |-> [i \in 0..(total - 1) |-> data[i]]]
    /\ rpc' = "idle"
    /\ UNCHANGED <<writerVars, queueVars, dpc, netVars, pkts, first, received,
                   total, data, seqDone, retry>>

Hopeless == \/ Cardinality(Missing) > MaximumRetransmit
            \/ Cardinality(pkts) >= PacketBufferSize

\* The sequence is to be skipped, and the process aborts.
GiveUp ==
    /\ rpc = "check" /\ Missing # {}
    /\ Hopeless \/ retry >= MaxRetry       \* at retry > 0 the timer expired
    /\ Stop

AskMissing ==
    /\ rpc = "check" /\ Missing # {} /\ ~Hopeless /\ retry < MaxRetry
    /\ Ask(Missing)

WaitMissing ==
    /\ rpc = "check" /\ Missing # {} /\ ~Hopeless /\ retry > 0
    /\ rpc' = "poll"
    /\ UNCHANGED <<writerVars, queueVars, dpc, netVars, pkts, first, oldseq,
                   received, total, data, seqDone, retry, out>>

-----------------------------------------------------------------------------
Writer   == FillRadioBuffer \/ Send \/ SendClosed \/ SendOverload
Daemon   == XmitBurst \/ XmitIdle \/ Retransmit \/ NoRequest
Receiver == \/ ReceiveCall \/ GetPacket \/ PacketBufferFull
            \/ AskFirst \/ WaitFirst \/ GiveUpFirst \/ ExitOutOfSync \/ TakePackets
            \/ Complete \/ GiveUp \/ AskMissing \/ WaitMissing

Next == Writer \/ Daemon \/ Receiver

Spec == Init /\ [][Next]_vars

\* The receiver's thread runs, and its clock moves on: a wait does not go on
\* for ever without the timer expiring.
FairSpec ==
    /\ Spec
    /\ WF_vars(Receiver)
    /\ SF_vars(AskFirst) /\ SF_vars(GiveUpFirst)
    /\ SF_vars(AskMissing) /\ SF_vars(GiveUp)

-----------------------------------------------------------------------------
(* Properties *)

Buffer == [seq : Seqs, radio : RadioIds, total : 1..MaxPackets, sofar : 0..MaxPackets]
PacketType == [seq : Seqs, num : PktIds, total : 1..MaxPackets, payload : Frames]

\* The state has its types: numbers in 32 bits, packets inside their frame.
TypeOK ==
    /\ wpc \in {"idle", "filled", "nobuffer", "aborted"}
    /\ wbuf \in RadioIds
    /\ bufdata \in [RadioIds -> Frames \union {NoFrame}]
    /\ inUse \in [RadioIds -> BOOLEAN]
    /\ nextFrame \in FirstFrame..(LastFrame + 1)
    /\ buffers \in Seq(Buffer)
    /\ curbuf \in -1..Len(buffers)
    /\ skippedDataBuffers \in Nat
    /\ dpc \in {"xmit", "poll", "ended"}
    /\ net \subseteq PacketType
    /\ \A r \in reqs : r.seq \in Seqs /\ r.nums \subseteq PktIds
    /\ rpc \in {"idle", "poll", "process", "check", "closed", "aborted"}
    /\ pkts \subseteq PacketType
    /\ first \in BOOLEAN /\ seqDone \in BOOLEAN
    /\ oldseq \in Seqs
    /\ received \subseteq PktIds /\ total \in 0..MaxPackets
    /\ data \in [PktIds -> Frames \union {NoFrame}]
    /\ retry \in Nat

\* The frame the i-th buffer of the queue holds: the queue ends with the last
\* frame accepted, and the skipped ones are missing before it.
FrameAt(i) ==
    nextFrame - 1 - (Len(buffers) - i)
              - (IF i < Len(buffers) THEN skippedDataBuffers ELSE 0)

\* The caller of send "MUST NOT delete or change the data in the buffer until
\* it is no longer needed": as long as a frame is queued, for its first
\* transmission or for a retransmission, its radio buffer is in use and holds
\* this frame.
QueuedDataIntact ==
    \A i \in 1..Len(buffers) :
        /\ inUse[buffers[i].radio]
        /\ bufdata[buffers[i].radio] = FrameAt(i)
        /\ buffers[i].seq = FrameAt(i) % SeqMod

\* The network writer has one radio buffer more than the queue of the sender
\* holds, so it always finds an unused one.
PoolSuffices == wpc # "nobuffer"

\* What every packet of frame f looks like.
PacketOf(f, i) ==
    [seq |-> f % SeqMod, num |-> i, total |-> PktTotal(f), payload |-> f]

SentInFull(f) == \A i \in 0..(PktTotal(f) - 1) : PacketOf(f, i) \in net
StillToSend(f) == \E i \in 1..Len(buffers) : FrameAt(i) = f /\ i > curbuf

\* The frames dropped by the flush: as many as skipped() counts, just before
\* the last one accepted.
SkippedFrames == (nextFrame - 1 - skippedDataBuffers)..(nextFrame - 2)

\* send keeps every frame it accepted until it is transmitted (until the socket
\* fails): the frames that left the queue, and those before curbuf, were sent
\* in full; the others are still to come.  When a full queue is flushed the
\* process aborts: what then is neither sent nor left in the dead queue was
\* dropped by the flush and counted.
AcceptedIsSent ==
    dpc # "ended" => \A f \in FirstFrame..(nextFrame - 1) :
        \/ SentInFull(f) \/ StillToSend(f)
        \/ ~SenderUp /\ f \in SkippedFrames

\* What receive returns are whole frames in order and without a gap.
Channel == INSTANCE FrameChannel WITH
    FirstFrame <- FirstFrame, SeqMod <- SeqMod, PktTotal <- PktTotal,
    NoFrame <- NoFrame, accepted <- nextFrame, out <- out
ImplementsChannel == Channel!Spec

\* Once a packet of a later sequence is there, receive does not wait for ever:
\* it returns the frame, or ends the process, after at most MaxRetry requests.
LaterArrived ==
    /\ rpc \in {"poll", "process", "check"}
    /\ \E p \in pkts : Distance(p.seq) > 0

RecoveryEnds == LaterArrived ~> rpc \in {"idle", "closed", "aborted"}

-----------------------------------------------------------------------------
(* The invariants behind these properties *)

\* The queue is a window of the accepted frames that is never longer than
\* MaxBuffers, without a gap until it is flushed, and curbuf divides it:
\* complete before, untouched after.
QueueInv ==
    /\ curbuf = -1 => buffers = <<>>
    /\ Len(buffers) <= MaxBuffers
    /\ Len(buffers) + skippedDataBuffers <= nextFrame - FirstFrame
    /\ skippedDataBuffers # 0 => wpc = "aborted" /\ buffers # <<>>
    /\ QueuedDataIntact
    /\ \A i \in 1..Len(buffers) :
         /\ buffers[i].total = PktTotal(FrameAt(i))
         /\ i <= curbuf => buffers[i].sofar = buffers[i].total
         /\ i > curbuf => buffers[i].sofar < buffers[i].total

\* A radio buffer is in use exactly as long as one buffer of the queue refers
\* to it; the one just filled is not in the queue yet.
RadioInv ==
    /\ \A i, j \in 1..Len(buffers) : buffers[i].radio = buffers[j].radio => i = j
    /\ \A r \in RadioIds : inUse[r] => \E i \in 1..Len(buffers) : buffers[i].radio = r
    /\ wpc = "filled" => /\ ~inUse[wbuf] /\ bufdata[wbuf] = nextFrame
                         /\ nextFrame <= LastFrame
    /\ PoolSuffices

\* Packets on the network are those of accepted frames, and what receive has in
\* its list came from there, at most once.
NetInv ==
    /\ \A p \in net : /\ p.payload < nextFrame /\ p.num < p.total
                       /\ p = PacketOf(p.payload, p.num)
    /\ pkts \subseteq net
    /\ \A p, q \in pkts : p.seq = q.seq /\ p.num = q.num => p = q

\* Until the socket fails: up to sofar the packets of the queue are sent, and
\* frames that left the queue at its front were sent in full.
SentInv ==
    dpc # "ended" =>
        /\ \A i \in 1..Len(buffers) : \A j \in 0..(buffers[i].sofar - 1) :
             PacketOf(FrameAt(i), j) \in net
        /\ \A f \in FirstFrame..(nextFrame - 1 - Len(buffers) - skippedDataBuffers) :
             SentInFull(f)

IndInv == TypeOK /\ QueueInv /\ RadioInv /\ NetInv /\ SentInv

\* Frame f is accepted and has the sequence number s.
AcceptedAs(f, s) == f \in FirstFrame..(nextFrame - 1) /\ f % SeqMod = s

\* During a call of receive: what was copied is all of the frame numbered
\* newseq, and the sequence is not done before something was copied.
CopyInv ==
    rpc \in {"poll", "process", "check"} =>
        /\ ~first
        /\ received = {} => total = 0
        /\ seqDone => received # {}
        /\ rpc = "check" => seqDone
        /\ received # {} => \E f \in Frames :
             /\ AcceptedAs(f, newseq) /\ total = PktTotal(f)
             /\ \A i \in received : data[i] = f

\* What the last receive returned is the frame numbered oldseq.
OutInv ==
    out # NoFrame => /\ ~first
                     /\ \E f \in Frames : AcceptedAs(f, oldseq) /\ out = Channel!Whole(f)

\* Sequence numbers do not repeat while packets are on their way.
NoWrap == LastFrame - FirstFrame + 1 < SeqMod
=============================================================================
