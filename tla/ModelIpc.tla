------------------------------ MODULE ModelIpc ------------------------------
(***************************************************************************)
(* Signals between real-time models (fe/commData3.c).  A channel has       *)
(* IPC_BLOCKS places, each a value and a sync word (GPS second and cycle   *)
(* on a 65536 Hz count).  The sender stores what the receiver is to use in *)
(* its next cycle; the receiver loads the place of its own cycle and takes *)
(* the value only if the sync word is that of the cycle.  Nothing else     *)
(* keeps the two apart.                                                    *)
(*                                                                         *)
(* Time is counted in ticks of the highest rate.  One sender, one receiver *)
(* and one channel, with rates and link chosen at the start.  The value    *)
(* sent for a tick is the number of that tick.                             *)
(***************************************************************************)
EXTENDS Integers, Sequences, FiniteSets

CONSTANTS
    MaxRate,     \* IPC_MAX_RATE, ticks of a second
    Blocks,      \* IPC_BLOCKS
    Strides,     \* IPC_MAX_RATE / rate, for the rates of models
    Links,       \* subset of {"shm", "rfm", "rfm_delay", "none"}
    Latency,     \* ticks a store may take on an RFM link
    MaxLate,     \* ticks the sender may overrun its cycle
    MaxStops, Horizon  \* bounds, for model checking

ASSUME RatesAssumption ==
    /\ MaxRate \in Nat \ {0} /\ Blocks \in Nat \ {0} /\ MaxRate % Blocks = 0
    /\ \A s \in Strides : s \in Nat \ {0} /\ MaxRate % s = 0
    /\ Links \subseteq {"shm", "rfm", "rfm_delay", "none"}
    /\ Latency \in Nat /\ MaxLate \in Nat
    /\ MaxStops \in Nat /\ Horizon \in Nat

VARIABLES
    sendStride, rcvStride, link,   \* the configuration
    now,       \* tick
    up, stops, \* the sender runs; how often it stopped
    k, half,   \* cycles of the sender; it has stored the value, not the word
    net,       \* stores on their way
    mem,       \* dBlock of the channel; history: the tick of the last pair
    j, tmp,    \* cycles of the receiver; the value loaded, or NotLoaded
    data, errFlag, errTotal, errBits,  \* ipcInfo of the receiver, ipcErrBits
    crossed,   \* history: a value stored into the place between the two loads
    present,   \* history: the word was there before the first load
    outcome    \* history: of the last receive

config == <<sendStride, rcvStride, link>>
sndVars == <<up, stops, k, half>>
rcvVars == <<j, tmp, data, errFlag, errTotal, errBits, present, outcome>>
vars == <<config, now, sndVars, net, mem, crossed, rcvVars>>

NotLoaded == -2
Empty == [data |-> -1, timestamp |-> <<-1, 0>>, whole |-> -1]

\* Cycles of a model in a second, its cycle count and its GPS second.
Rate(stride) == MaxRate \div stride
CycleOf(n, stride) == n % Rate(stride)
TimeSec(n, stride) == n \div Rate(stride)

-----------------------------------------------------------------------------
(* commData3Send *)

\* RFM_DELAY writes ahead one extra block.
Ahead == IF link = "rfm_delay" THEN 2 ELSE 1

SendCycle == CycleOf(k, sendStride)

sendBlock == ((SendCycle + Ahead) * sendStride) % Blocks

\* Mutant of dataCycle: the count is not reduced to the second.
dataCycleUnreduced == (SendCycle + Ahead) * sendStride

dataCycle == ((SendCycle + Ahead) * sendStride) % MaxRate

\* Mutant of SyncWord: the second is never moved on.
SyncWordThisSecond == <<TimeSec(k, sendStride), dataCycle>>

\* The second is moved on if the first block of a new one is written ahead.
SyncWord ==
    LET first == {i * sendStride : i \in 0..(Ahead - 1)} IN
    <<TimeSec(k, sendStride) + (IF dataCycle \in first THEN 1 ELSE 0), dataCycle>>

Value == (k + Ahead) * sendStride

\* What a store of the pair for tick n to the channel's memory does.
Store(f, b, v, n) ==
    /\ mem' = [mem EXCEPT ![b] = IF f = "data" THEN [@ EXCEPT !.data = v]
                   ELSE [data |-> @.data, timestamp |-> v, whole |-> n]]
    /\ crossed' = (crossed \/ (f = "data" /\ tmp # NotLoaded
                     /\ b = (CycleOf(j, rcvStride) * rcvStride) % Blocks))

\* A store of the sender: at once in shared memory, later on a network, and
\* none if the card is absent.
Put(f, v) ==
    CASE link = "shm"  -> Store(f, sendBlock, v, Value) /\ UNCHANGED net
      [] link = "none" -> UNCHANGED <<mem, net, crossed>>
      [] OTHER -> /\ net' = Append(net, [f |-> f, b |-> sendBlock, v |-> v,
                                         n |-> Value, at |-> now])
                  /\ UNCHANGED <<mem, crossed>>

\* The value is stored first.
SendData ==
    /\ up /\ ~half /\ now >= k * sendStride
    /\ Put("data", Value)
    /\ half' = TRUE
    /\ UNCHANGED <<config, now, up, stops, k, rcvVars>>

\* The sync word ends the sender's cycle.
SendSync ==
    /\ half
    /\ Put("timestamp", SyncWord)
    /\ half' = FALSE /\ k' = k + 1
    /\ UNCHANGED <<config, now, up, stops, rcvVars>>

\* The network delivers in order.
Deliver ==
    /\ net # <<>>
    /\ Store(Head(net).f, Head(net).b, Head(net).v, Head(net).n)
    /\ net' = Tail(net)
    /\ UNCHANGED <<config, now, sndVars, rcvVars>>

\* The sending model stops, perhaps between its two stores.
SendStop ==
    /\ up /\ stops < MaxStops
    /\ up' = FALSE /\ half' = FALSE /\ stops' = stops + 1
    /\ UNCHANGED <<config, now, k, net, mem, crossed, rcvVars>>

\* A model starts with cycle 0 of a second.
SendStart ==
    /\ ~up
    /\ up' = TRUE
    /\ k' = (now \div MaxRate + 1) * Rate(sendStride)
    /\ UNCHANGED <<config, now, stops, half, net, mem, crossed, rcvVars>>

-----------------------------------------------------------------------------
(* commData3Receive *)

Cycle == CycleOf(j, rcvStride)

\* commData3Init: a receiver that is faster than the sender skips cycles.
rcvCycle == IF sendStride <= rcvStride THEN 1 ELSE sendStride \div rcvStride

rcvBlock == (Cycle * rcvStride) % Blocks

\* Mutant of Good: the second is not compared.
GoodCycle == mem[rcvBlock].timestamp[2] = Cycle * rcvStride

\* "If IPC syncword = local syncword, data is good".
Good == mem[rcvBlock].timestamp = <<TimeSec(j, rcvStride), Cycle * rcvStride>>

Due == now >= j * rcvStride

\* The error count of the cycle with e more errors; on cycle 0 it is the
\* total of the second, and the bits for EPICS are set, the second for good.
Report(e) ==
    /\ errFlag' = IF Cycle = 0 THEN 0 ELSE errFlag + e
    /\ errTotal' = IF Cycle = 0 THEN errFlag + e ELSE errTotal
    /\ errBits' = IF Cycle = 0
                  THEN [errBits EXCEPT !.now = errFlag + e > 0,
                                       !.ever = @ \/ errFlag + e > 0]
                  ELSE errBits

EndReceive(e) ==
    /\ Report(e)
    /\ j' = j + 1
    /\ UNCHANGED <<config, now, sndVars, net, mem>>

\* Not a cycle to receive in.
RcvSkip ==
    /\ Due /\ Cycle % rcvCycle # 0
    /\ EndReceive(0)
    /\ UNCHANGED <<tmp, data, crossed, present, outcome>>

\* No card: an error in every cycle.
RcvNoCard ==
    /\ Due /\ Cycle % rcvCycle = 0 /\ link = "none"
    /\ EndReceive(1)
    /\ UNCHANGED <<tmp, data, crossed, present, outcome>>

\* The value is loaded first, then
RcvData ==
    /\ Due /\ Cycle % rcvCycle = 0 /\ link # "none" /\ tmp = NotLoaded
    /\ tmp' = mem[rcvBlock].data
    /\ present' = (\E b \in DOMAIN mem : mem[b].whole = j * rcvStride)
    /\ UNCHANGED <<config, now, sndVars, net, mem, crossed, j, data,
                   errFlag, errTotal, errBits, outcome>>

\* the sync word: if it is not that of the cycle the old value stays.
RcvSync ==
    /\ tmp # NotLoaded
    /\ data' = IF Good THEN tmp ELSE data
    /\ outcome' = [tick |-> j * rcvStride, good |-> Good, crossed |-> crossed,
                   present |-> present]
    /\ EndReceive(IF Good THEN 0 ELSE 1)
    /\ tmp' = NotLoaded /\ crossed' = FALSE /\ present' = FALSE

-----------------------------------------------------------------------------
(* Time *)

\* A tick passes.  The sender overruns its cycle by at most MaxLate ticks, the
\* receiver receives within its cycle, the network delivers within Latency.
Tick ==
    /\ now < Horizon
    /\ up => now + 1 < (k + 1) * sendStride + MaxLate
    /\ now + 1 < (j + 1) * rcvStride
    /\ net # <<>> => now + 1 <= Head(net).at + Latency
    /\ now' = now + 1
    /\ UNCHANGED <<config, sndVars, net, mem, crossed, rcvVars>>

\* Rates at which a place is not stored into again before the receiver's
\* cycle is over.  Nothing in commData3.c excludes the others: with 64 places a
\* sender at 2048 Hz (32 ticks) with RFM_DELAY.
PlacesSuffice(s, r, l) ==
    (IF l = "rfm_delay" THEN 2 ELSE 1) * s + r <= Blocks

Init ==
    /\ sendStride \in Strides /\ rcvStride \in Strides /\ link \in Links
    /\ PlacesSuffice(sendStride, rcvStride, link)
    /\ now = 0 /\ up = TRUE /\ stops = 0 /\ k = 0 /\ half = FALSE /\ net = <<>>
    /\ mem = [b \in 0..(Blocks - 1) |-> Empty]
    /\ j = 0 /\ tmp = NotLoaded /\ data = 0 /\ errFlag = 0 /\ errTotal = 0
    /\ errBits = [now |-> FALSE, ever |-> FALSE]
    /\ crossed = FALSE /\ present = FALSE
    /\ outcome = [tick |-> 0, good |-> FALSE, crossed |-> FALSE,
                  present |-> FALSE]

Next ==
    \/ SendData \/ SendSync \/ SendStop \/ SendStart \/ Deliver
    \/ RcvSkip \/ RcvNoCard \/ RcvData \/ RcvSync
    \/ Tick

Spec == Init /\ [][Next]_vars

-----------------------------------------------------------------------------
(* Properties *)

\* The state has its types.
TypeOK ==
    /\ now \in 0..Horizon /\ up \in BOOLEAN /\ half \in BOOLEAN
    /\ \A b \in DOMAIN mem : mem[b].timestamp[2] \in 0..(MaxRate - 1)
    /\ errFlag \in 0..Rate(rcvStride) /\ errTotal \in 0..Rate(rcvStride)

\* A value that is taken is the one for the cycle, although the sender may be
\* late, have stopped between its stores or have started again, and the sync
\* word may arrive between the receiver's two loads; except where the value
\* itself is stored between them, and its word too: the value before is taken.
TakenIsCurrent ==
    outcome.good /\ ~outcome.crossed => data = outcome.tick

\* A value that is in memory with its sync word when the receiver looks is taken:
\* no combination of rates, of RFM_DELAY and of a second's end that PlacesSuffice
\* allows makes the two count differently.  (It leaves out a sender at the
\* lowest rate, 2048 Hz, with RFM_DELAY.)
PresentIsTaken == outcome.present => outcome.good

-----------------------------------------------------------------------------
(* The invariants behind these properties *)

\* The sync word of a tick, and its place.
Word(n) == <<n \div MaxRate, n % MaxRate>>
Place(n) == n % Blocks

\* The configuration, the counts of cycles and of errors, and time.
CountInv ==
    /\ sendStride \in Strides /\ rcvStride \in Strides /\ link \in Links
    /\ PlacesSuffice(sendStride, rcvStride, link)
    /\ now \in 0..Horizon /\ up \in BOOLEAN /\ half \in BOOLEAN
    /\ k \in Nat /\ j \in Nat
    /\ half => up /\ now >= k * sendStride
    /\ k * sendStride <= (now \div MaxRate + 1) * MaxRate
    /\ now < (j + 1) * rcvStride
    /\ errFlag \in Nat /\ errFlag < Rate(rcvStride)
    /\ Cycle # 0 => errFlag < Cycle
    /\ errTotal \in 0..Rate(rcvStride)

\* The number of a tick the sender may have stored for by now.
Sent(n) == n \in Nat /\ n <= Value /\ n <= now + Ahead * sendStride

\* A place holds a pair whose word is that of a tick of the place, or none yet,
\* with a value for this tick or a later one.
PlaceInv(b) ==
    \/ mem[b] = Empty
    \/ /\ Sent(mem[b].data) /\ Place(mem[b].data) = b
       /\ \/ mem[b].whole = -1 /\ mem[b].timestamp = Empty.timestamp
          \/ /\ Sent(mem[b].whole) /\ Place(mem[b].whole) = b
             /\ mem[b].timestamp = Word(mem[b].whole)
             /\ mem[b].whole <= mem[b].data

Pair == [data : Int, timestamp : Int \X Int, whole : Int]

MemInv ==
    /\ mem \in [0..(Blocks - 1) -> Pair]
    /\ \A b \in 0..(Blocks - 1) : PlaceInv(b)

\* A store on its way.
Message == [f : {"data", "timestamp"}, b : 0..(Blocks - 1), v : Int \cup (Int \X Int),
            n : Nat, at : Nat]

\* Stores on their way are in the order of ticks, none is for an earlier tick
\* than a pair in memory, and each sync word follows its value.
Queued(i) ==
    /\ Sent(net[i].n) /\ net[i].b = Place(net[i].n)
    /\ net[i].v = IF net[i].f = "data" THEN net[i].n ELSE Word(net[i].n)
    /\ \A b \in 0..(Blocks - 1) : mem[b].whole <= net[i].n
    /\ \A h \in 1..i : net[h].n <= net[i].n
    /\ net[i].f = "timestamp" =>
         IF i = 1 THEN mem[net[i].b].data = net[i].n
         ELSE net[i - 1].f = "data" /\ net[i - 1].n = net[i].n

NetInv ==
    /\ net \in Seq(Message)
    /\ link \in {"shm", "none"} => net = <<>>
    /\ \A i \in 1..Len(net) : Queued(i)
    /\ half /\ link # "none" =>
         IF net = <<>> THEN mem[Place(Value)].data = Value
         ELSE net[Len(net)].f = "data" /\ net[Len(net)].n = Value

\* Between the two loads the value changes only if it was stored into, and a
\* pair that was there stays.
LoadInv ==
    /\ crossed \in BOOLEAN /\ present \in BOOLEAN
    /\ tmp # NotLoaded =>
         /\ Cycle % rcvCycle = 0 /\ link # "none"
         /\ ~crossed => tmp = mem[rcvBlock].data
         /\ present => mem[rcvBlock].whole = j * rcvStride
    /\ tmp = NotLoaded => ~crossed

IndInv == CountInv /\ MemInv /\ NetInv /\ LoadInv /\ TakenIsCurrent /\ PresentIsTaken
=============================================================================
