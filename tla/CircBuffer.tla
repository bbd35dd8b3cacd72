----------------------------- MODULE CircBuffer -----------------------------
(***************************************************************************)
(* The circular buffer of the data acquisition daemon (daqd/circ.hh,       *)
(* daqd/circ.cc): one producer thread puts blocks (whole seconds, or       *)
(* sixteenths of a second) into a ring; every consumer has a slot number,  *)
(* a bit in the masks, and reads each block marked busy for its slot.      *)
(*                                                                         *)
(* Locks.  pbuffer->lock and the lock of every block are modelled by what  *)
(* the program counters say about who is inside the critical section       *)
(* (BufferLocked, BlockLocked); an action that takes and releases a lock   *)
(* in one step has the lock's freedom as its guard.  Condition variables   *)
(* are modelled by their sleepers: a broadcast sends every sleeper back to *)
(* the test of its while loop.                                             *)
(***************************************************************************)
EXTENDS Integers, FiniteSets

CONSTANTS
    Clients,        \* consumer threads
    Preset,         \* clients the constructor registers (buffer_malloc's consumers)
    MaxConsumers,   \* MAX_CONSUMERS
    Blocks,         \* pbuffer->blocks
    Parts,          \* parts of a block, 16 in the code
    BlockPeriod,    \* pbuffer->block_period, seconds per block
    PutOps,         \* calls the producer makes
    GetOps,         \* blocking calls the slow consumers make
    Kinds,          \* kinds of consumer that sign on
    Requests,       \* <<gps, delta>> arguments of add_transient_consumer
    GpsAt(_),       \* GPS stamp the producer gives to its n-th block
    MaxPuts         \* bound on puts, for model checking

Slots    == 0..(MaxConsumers - 1)
BlockIds == 0..(Blocks - 1)
PartIds  == 0..(Parts - 1)

WholePuts == {"put", "put_nowait"}
PartPuts  == {"put16th", "put16th_lost"}

ASSUME SizesAssumption ==
    /\ MaxConsumers \in Nat \ {0}
    /\ Blocks \in Nat \ {0}
    /\ Parts \in Nat \ {0}
    /\ BlockPeriod \in Nat \ {0}
    /\ MaxPuts \in Nat

\* A buffer is fed whole blocks or parts, never both.
ASSUME OpsAssumption ==
    /\ PutOps \subseteq WholePuts \/ PutOps \subseteq PartPuts
    /\ GetOps \subseteq {"get", "timed_get", "noop"}
    /\ Kinds \subseteq {"slow", "fast", "transient"}

ASSUME PresetAssumption ==
    /\ Preset \subseteq Clients
    /\ IsFiniteSet(Preset)
    /\ Cardinality(Preset) <= MaxConsumers

\* The producer's clock never goes back; 0 is the stamp of an unused block.
ASSUME GpsAssumption ==
    /\ \A n \in 0..MaxPuts : GpsAt(n) \in Nat \ {0}
    /\ \A m, n \in 0..MaxPuts : m < n => GpsAt(m) < GpsAt(n)
    /\ Requests \subseteq (Nat \X Nat)

VARIABLES
    \* circ_buffer_t
    puts, drops,
    next_block_in, next_block_in_16th,
    next_block_out, next_block_out_16th,
    cmask, tcmask, cmask16th,
    consumers, transient_consumers, fast_consumers,
    \* circ_buffer_block_t, one function per field
    busy, busy16th, seq_num, gps, data,
    \* the producer thread: where it is, the call it is in, its nbi and nbi16th
    ppc, pop, nbi, nbi16th,
    \* the consumer threads: where each is, its kind, slot and current call
    pc, kind, cnum, op, still_busy,
    \* locals of the thread inside add_transient_consumer or delete_consumer
    cursor, window, first_block,
    \* history: last block each client finished, blocks put_nowait dropped
    last_seq, dropped

countVars == <<puts, drops, dropped>>
inVars    == <<next_block_in, next_block_in_16th>>
outVars   == <<next_block_out, next_block_out_16th>>
maskVars  == <<cmask, tcmask, cmask16th, consumers, transient_consumers,
               fast_consumers>>
busyVars  == <<busy, busy16th>>
fillVars  == <<seq_num, gps, data>>
prodVars  == <<ppc, pop, nbi, nbi16th>>
clientVars == <<pc, kind, cnum, op, still_busy, last_seq>>
scanVars  == <<cursor, window, first_block>>
vars == <<countVars, inVars, outVars, maskVars, busyVars, fillVars, prodVars,
          clientVars, scanVars>>

-----------------------------------------------------------------------------
(* Locks *)

\* pbuffer->lock is held across steps by a client that marks or clears the
\* blocks one by one, and by the producer between its two stores.
BufferLocked ==
    \/ ppc = "publish16th"
    \/ \E c \in Clients : pc[c] \in {"marking", "clearing"}

\* block[b].lock is held across steps by the producer that fills the block
\* and by every thread between its test and its pthread_cond_wait.
BlockLocked(b) ==
    \/ ppc \in {"fill", "willwait"} /\ nbi = b
    \/ \E c \in Clients : pc[c] = "willwait" /\ next_block_out[cnum[c]] = b

\* Mutant of FreeSlot: bits numbered from one.
FreeSlotFromOne ==
    CHOOSE s \in (1..MaxConsumers) \ tcmask :
        \A t \in (1..MaxConsumers) \ tcmask : s <= t

\* The first zero bit of tcmask.
FreeSlot == CHOOSE s \in Slots \ tcmask : \A t \in Slots \ tcmask : s <= t

-----------------------------------------------------------------------------
(* Condition variables *)

Asleep16th(c, b) ==
    pc[c] = "asleep" /\ op[c] = "get16th" /\ next_block_out[cnum[c]] = b

AsleepNotEmpty(c, b) ==
    pc[c] = "asleep" /\ op[c] # "get16th" /\ next_block_out[cnum[c]] = b

\* Mutant of WakeProducer: the broadcast of notfull is forgotten.
WakeNobody(b) == ppc

\* pthread_cond_broadcast(&block[b].notfull): only the producer waits there.
WakeProducer(b) == IF ppc = "asleep" /\ nbi = b THEN "test" ELSE ppc

-----------------------------------------------------------------------------
Init ==
    /\ puts = 0 /\ drops = 0 /\ dropped = {}
    /\ next_block_in = 0 /\ next_block_in_16th = 0
    /\ next_block_out = [s \in Slots |-> 0]
    /\ next_block_out_16th = [s \in Slots |-> 0]
    /\ tcmask = 0..(Cardinality(Preset) - 1)
    /\ cmask = tcmask
    /\ cmask16th = {}
    /\ consumers = Cardinality(Preset)
    /\ transient_consumers = 0 /\ fast_consumers = 0
    /\ busy = [b \in BlockIds |-> {}]
    /\ busy16th = [b \in BlockIds |-> [p \in PartIds |-> {}]]
    /\ seq_num = [b \in BlockIds |-> 0]
    /\ gps = [b \in BlockIds |-> 0]
    /\ data = [b \in BlockIds |-> [p \in PartIds |-> -1]]
    /\ ppc = "idle" /\ pop = "put" /\ nbi = 0 /\ nbi16th = 0
    /\ pc = [c \in Clients |-> IF c \in Preset THEN "ready" ELSE "out"]
    /\ kind = [c \in Clients |-> "slow"]
    /\ \E f \in [Preset -> tcmask] :
         /\ \A c, d \in Preset : f[c] = f[d] => c = d
         /\ \A s \in tcmask : \E c \in Preset : f[c] = s
         /\ cnum = [c \in Clients |-> IF c \in Preset THEN f[c] ELSE 0]
    /\ op = [c \in Clients |-> "get"]
    /\ still_busy = [c \in Clients |-> FALSE]
    /\ last_seq = [c \in Clients |-> -1]
    /\ cursor = 0 /\ window = <<0, 0>> /\ first_block = -1

-----------------------------------------------------------------------------
(* The producer *)

\* The producer thread enters one of the put calls and reads next_block_in.
PutCall(o) ==
    /\ ppc = "idle"
    /\ puts < MaxPuts
    /\ ppc' = "test" /\ pop' = o
    /\ nbi' = next_block_in /\ nbi16th' = next_block_in_16th
    /\ UNCHANGED <<countVars, inVars, outVars, maskVars, busyVars, fillVars,
                   clientVars, scanVars>>

\* Mutant of PutTest: the producer does not look at busy.
PutTestIgnoresBusy ==
    /\ ppc = "test"
    /\ ~BlockLocked(nbi)
    /\ ppc' = "fill"
    /\ UNCHANGED <<countVars, inVars, outVars, maskVars, busyVars, fillVars,
                   pop, nbi, nbi16th, clientVars, scanVars>>

\* Under the block lock: the while loop on busy, or the if of put_nowait.
PutTest ==
    /\ ppc = "test"
    /\ ~BlockLocked(nbi)
    /\ ppc' = IF busy[nbi] = {} THEN "fill"
              ELSE IF pop = "put_nowait" THEN "drop" ELSE "willwait"
    /\ UNCHANGED <<countVars, inVars, outVars, maskVars, busyVars, fillVars,
                   pop, nbi, nbi16th, clientVars, scanVars>>

\* pthread_cond_wait on notfull releases the block lock and sleeps.
PutSleep ==
    /\ ppc = "willwait"
    /\ ppc' = "asleep"
    /\ UNCHANGED <<countVars, inVars, outVars, maskVars, busyVars, fillVars,
                   pop, nbi, nbi16th, clientVars, scanVars>>

\* POSIX lets pthread_cond_wait return without a signal.
PutSpuriousWakeup ==
    /\ ppc = "asleep"
    /\ ppc' = "test"
    /\ UNCHANGED <<countVars, inVars, outVars, maskVars, busyVars, fillVars,
                   pop, nbi, nbi16th, clientVars, scanVars>>

\* Mutant of PutFill: the block is stamped with its last part, not its first.
PutFillStampsLast ==
    /\ ppc = "fill"
    /\ ppc' = "publish"
    /\ data' = [data EXCEPT ![nbi][nbi16th] =
                               IF pop = "put16th_lost" THEN -1 ELSE puts]
    /\ IF nbi16th = Parts - 1
       THEN /\ seq_num' = [seq_num EXCEPT ![nbi] = puts]
            /\ gps' = [gps EXCEPT ![nbi] = GpsAt(puts)]
       ELSE UNCHANGED <<seq_num, gps>>
    /\ UNCHANGED <<countVars, inVars, outVars, maskVars, busyVars,
                   pop, nbi, nbi16th, clientVars, scanVars>>

\* Still under the block lock: samples and properties are stored, then the
\* lock is released.  A lost part is zeroed (data -1).
PutFill ==
    /\ ppc = "fill"
    /\ ppc' = "publish"
    /\ IF pop \in WholePuts
       THEN data' = [data EXCEPT ![nbi] = [p \in PartIds |-> puts]]
       ELSE data' = [data EXCEPT ![nbi][nbi16th] =
                                      IF pop = "put16th_lost" THEN -1 ELSE puts]
    /\ IF pop \in WholePuts \/ nbi16th = 0
       THEN /\ seq_num' = [seq_num EXCEPT ![nbi] = puts]
            /\ gps' = [gps EXCEPT ![nbi] = GpsAt(puts)]
       ELSE UNCHANGED <<seq_num, gps>>
    /\ UNCHANGED <<countVars, inVars, outVars, maskVars, busyVars,
                   pop, nbi, nbi16th, clientVars, scanVars>>

\* Under pbuffer->lock: the block is handed to the current consumers.
PutPublish ==
    /\ ppc = "publish"
    /\ ~BufferLocked
    /\ pop \in WholePuts \/ nbi16th = Parts - 1
    /\ busy' = [busy EXCEPT ![nbi] = cmask]
    /\ next_block_in' = (next_block_in + 1) % Blocks
    /\ puts' = puts + 1
    /\ ppc' = IF pop \in WholePuts THEN "signal" ELSE "publish16th"
    /\ UNCHANGED <<drops, dropped, next_block_in_16th, outVars, maskVars,
                   busy16th, fillVars, pop, nbi, nbi16th, clientVars, scanVars>>

\* Under pbuffer->lock: the part is handed to the current fast consumers,
\* after the block itself when it is the last part.
PutPublish16th ==
    /\ \/ ppc = "publish16th"
       \/ ppc = "publish" /\ ~BufferLocked
          /\ pop \in PartPuts /\ nbi16th # Parts - 1
    /\ next_block_in_16th' = (next_block_in_16th + 1) % Parts
    /\ busy16th' = [busy16th EXCEPT ![nbi][nbi16th] = cmask16th]
    /\ ppc' = "signal"
    /\ UNCHANGED <<countVars, next_block_in, outVars, maskVars, busy, fillVars,
                   pop, nbi, nbi16th, clientVars, scanVars>>

\* put_nowait found the block busy: the drop counts as a put.
PutDrop ==
    /\ ppc = "drop"
    /\ ~BufferLocked
    /\ drops' = drops + 1 /\ puts' = puts + 1
    /\ dropped' = dropped \cup {puts}
    /\ ppc' = "signal"
    /\ UNCHANGED <<inVars, outVars, maskVars, busyVars, fillVars,
                   pop, nbi, nbi16th, clientVars, scanVars>>

\* The broadcasts of notempty (whole block) and notempty16th (part), made
\* without any lock.
PutSignal ==
    /\ ppc = "signal"
    /\ ppc' = "idle"
    /\ pc' = [c \in Clients |->
                IF \/ AsleepNotEmpty(c, nbi)
                      /\ (pop \in WholePuts \/ nbi16th = Parts - 1)
                   \/ Asleep16th(c, nbi) /\ pop \in PartPuts
                THEN "test" ELSE pc[c]]
    /\ UNCHANGED <<countVars, inVars, outVars, maskVars, busyVars, fillVars,
                   pop, nbi, nbi16th, kind, cnum, op, still_busy, last_seq,
                   scanVars>>

Put ==
    \/ \E o \in PutOps : PutCall(o)
    \/ PutTest \/ PutSleep \/ PutSpuriousWakeup \/ PutFill
    \/ PutPublish \/ PutPublish16th \/ PutDrop \/ PutSignal

-----------------------------------------------------------------------------
(* Signing on and off *)

\* add_consumer; with all slots taken it returns -1 and changes nothing.
AddConsumer(c, k) ==
    /\ pc[c] = "out"
    /\ ~BufferLocked
    /\ consumers < MaxConsumers
    /\ cmask' = cmask \cup {FreeSlot}
    /\ tcmask' = tcmask \cup {FreeSlot}
    /\ consumers' = consumers + 1
    /\ next_block_out' = [next_block_out EXCEPT ![FreeSlot] = next_block_in]
    /\ IF k = "fast"
       THEN /\ cmask16th' = cmask16th \cup {FreeSlot}
            /\ next_block_out_16th' =
                  [next_block_out_16th EXCEPT ![FreeSlot] = next_block_in_16th]
            /\ fast_consumers' = fast_consumers + 1
       ELSE UNCHANGED <<cmask16th, next_block_out_16th, fast_consumers>>
    /\ pc' = [pc EXCEPT ![c] = "ready"]
    /\ kind' = [kind EXCEPT ![c] = k]
    /\ cnum' = [cnum EXCEPT ![c] = FreeSlot]
    /\ last_seq' = [last_seq EXCEPT ![c] = puts - 1]
    /\ UNCHANGED <<countVars, inVars, transient_consumers, busyVars, fillVars,
                   prodVars, op, still_busy, scanVars>>

\* Mutant of PlaybackWindow: no test that the buffer has been filled that far.
PlaybackWindowUnfilled(offset) ==
    LET span == Blocks * BlockPeriod - 1
        want == IF offset > span THEN span ELSE offset
        idx  == (next_block_in + Blocks - want \div BlockPeriod) % Blocks
    IN  <<gps[idx], gps[idx] + want>>

\* What add_transient_consumer looks for: stamps in [gps, gps + delta), or,
\* when delta is 0, the last `gps' seconds.
PlaybackWindow(offset) ==
    LET span == Blocks * BlockPeriod - 1
        want == IF offset > span THEN span ELSE offset
        idx  == (next_block_in + Blocks - want \div BlockPeriod) % Blocks
    IN  IF idx > puts
        THEN <<gps[0], gps[0] + puts * BlockPeriod>>
        ELSE <<gps[idx], gps[idx] + want>>

TransientWindow(r) ==
    IF r[2] = 0 THEN PlaybackWindow(r[1]) ELSE <<r[1], r[1] + r[2]>>

\* add_transient_consumer takes pbuffer->lock; full (-1) and empty (-2)
\* buffers return at once.
AddTransient(c, r) ==
    /\ pc[c] = "out"
    /\ ~BufferLocked
    /\ consumers < MaxConsumers
    /\ puts # 0
    /\ pc' = [pc EXCEPT ![c] = "marking"]
    /\ cnum' = [cnum EXCEPT ![c] = FreeSlot]
    /\ window' = TransientWindow(r)
    /\ cursor' = (next_block_in + 1) % Blocks
    /\ UNCHANGED <<countVars, inVars, outVars, maskVars, busyVars, fillVars,
                   prodVars, kind, op, still_busy, last_seq, first_block>>

\* Mutant of MarkBlock: first_block ends up as the last block marked.
MarkBlockLast(c) ==
    /\ pc[c] = "marking"
    /\ cursor # next_block_in
    /\ ~BlockLocked(cursor)
    /\ IF window[1] <= gps[cursor] /\ gps[cursor] < window[2]
       THEN /\ busy' = [busy EXCEPT ![cursor] = @ \cup {cnum[c]}]
            /\ first_block' = cursor
       ELSE UNCHANGED <<busy, first_block>>
    /\ cursor' = (cursor + 1) % Blocks
    /\ UNCHANGED <<countVars, inVars, outVars, maskVars, busy16th, fillVars,
                   prodVars, clientVars, window>>

\* One round of the marking loop, under the lock of block `cursor'.
MarkBlock(c) ==
    /\ pc[c] = "marking"
    /\ cursor # next_block_in
    /\ ~BlockLocked(cursor)
    /\ IF window[1] <= gps[cursor] /\ gps[cursor] < window[2]
       THEN /\ busy' = [busy EXCEPT ![cursor] = @ \cup {cnum[c]}]
            /\ first_block' = IF first_block < 0 THEN cursor ELSE first_block
       ELSE UNCHANGED <<busy, first_block>>
    /\ cursor' = (cursor + 1) % Blocks
    /\ UNCHANGED <<countVars, inVars, outVars, maskVars, busy16th, fillVars,
                   prodVars, clientVars, window>>

\* The loop has come round to next_block_in: -2 if nothing was marked.
AddTransientDone(c) ==
    /\ pc[c] = "marking"
    /\ cursor = next_block_in
    /\ IF first_block < 0
       THEN /\ pc' = [pc EXCEPT ![c] = "out"]
            /\ UNCHANGED <<tcmask, consumers, transient_consumers,
                           next_block_out, kind, last_seq>>
       ELSE /\ tcmask' = tcmask \cup {cnum[c]}
            /\ consumers' = consumers + 1
            /\ transient_consumers' = transient_consumers + 1
            /\ next_block_out' =
                  [next_block_out EXCEPT ![cnum[c]] = first_block]
            /\ pc' = [pc EXCEPT ![c] = "ready"]
            /\ kind' = [kind EXCEPT ![c] = "transient"]
            /\ last_seq' = [last_seq EXCEPT ![c] = seq_num[first_block] - 1]
    /\ cursor' = 0 /\ window' = <<0, 0>> /\ first_block' = -1
    /\ UNCHANGED <<countVars, inVars, next_block_out_16th, cmask, cmask16th,
                   fast_consumers, busyVars, fillVars, prodVars, cnum, op,
                   still_busy>>

\* delete_consumer takes pbuffer->lock and updates masks and counters; the
\* writers call it between two blocks, the transient ones after the last.
DeleteConsumer(c) ==
    /\ \/ pc[c] = "ready" /\ kind[c] # "transient"
       \/ pc[c] = "finished"
    /\ ~BufferLocked
    /\ IF cnum[c] \in cmask16th
       THEN /\ fast_consumers' = fast_consumers - 1
            /\ cmask16th' = cmask16th \ {cnum[c]}
       ELSE UNCHANGED <<fast_consumers, cmask16th>>
    /\ IF cnum[c] \notin cmask
       THEN /\ transient_consumers' = transient_consumers - 1
            /\ UNCHANGED cmask
       ELSE /\ cmask' = cmask \ {cnum[c]}
            /\ UNCHANGED transient_consumers
    /\ tcmask' = tcmask \ {cnum[c]}
    /\ consumers' = consumers - 1
    /\ pc' = [pc EXCEPT ![c] = "clearing"]
    /\ cursor' = 0
    /\ UNCHANGED <<countVars, inVars, outVars, busyVars, fillVars, prodVars,
                   kind, cnum, op, still_busy, last_seq, window, first_block>>

\* Mutant of ClearBlock: the loop stops one block early.
ClearBlockSkipsLast(c) ==
    /\ pc[c] = "clearing"
    /\ ~BlockLocked(cursor)
    /\ IF cursor = Blocks - 1
       THEN /\ cursor' = 0 /\ pc' = [pc EXCEPT ![c] = "out"]
            /\ UNCHANGED <<busy, busy16th, ppc>>
       ELSE /\ cursor' = cursor + 1
            /\ busy16th' = [busy16th EXCEPT ![cursor] =
                               [p \in PartIds |-> @[p] \ {cnum[c]}]]
            /\ busy' = [busy EXCEPT ![cursor] = @ \ {cnum[c]}]
            /\ ppc' = IF busy[cursor] # {} /\ busy'[cursor] = {}
                      THEN WakeProducer(cursor) ELSE ppc
            /\ UNCHANGED pc
    /\ UNCHANGED <<countVars, inVars, outVars, maskVars, fillVars,
                   pop, nbi, nbi16th, kind, cnum, op, still_busy, last_seq,
                   window, first_block>>

\* One round of its loop over the blocks, under the lock of block `cursor';
\* the last round releases pbuffer->lock.
ClearBlock(c) ==
    /\ pc[c] = "clearing"
    /\ ~BlockLocked(cursor)
    /\ busy16th' = [busy16th EXCEPT ![cursor] =
                       [p \in PartIds |-> @[p] \ {cnum[c]}]]
    /\ busy' = [busy EXCEPT ![cursor] = @ \ {cnum[c]}]
    /\ ppc' = IF busy[cursor] # {} /\ busy'[cursor] = {}
              THEN WakeProducer(cursor) ELSE ppc
    /\ IF cursor = Blocks - 1
       THEN cursor' = 0 /\ pc' = [pc EXCEPT ![c] = "out"]
       ELSE cursor' = cursor + 1 /\ UNCHANGED pc
    /\ UNCHANGED <<countVars, inVars, outVars, maskVars, fillVars,
                   pop, nbi, nbi16th, kind, cnum, op, still_busy, last_seq,
                   window, first_block>>

SignOnOff(c) ==
    \/ \E k \in Kinds \ {"transient"} : AddConsumer(c, k)
    \/ "transient" \in Kinds /\ \E r \in Requests : AddTransient(c, r)
    \/ MarkBlock(c) \/ AddTransientDone(c)
    \/ DeleteConsumer(c) \/ ClearBlock(c)

-----------------------------------------------------------------------------
(* The consumers *)

\* The calls each kind of consumer makes to get its next block or part.
CallsOf(k) ==
    IF k = "fast" THEN {"get16th"}
    ELSE IF k = "transient" THEN {"get_nowait"} ELSE GetOps

GetCall(c, o) ==
    /\ pc[c] = "ready"
    /\ pc' = [pc EXCEPT ![c] = "test"]
    /\ op' = [op EXCEPT ![c] = o]
    /\ UNCHANGED <<countVars, inVars, outVars, maskVars, busyVars, fillVars,
                   prodVars, kind, cnum, still_busy, last_seq, scanVars>>

\* get, timed_get and get_nowait, under the lock of the consumer's block: the
\* block is the consumer's until it calls unlock.
GetTest(c) ==
    LET b == next_block_out[cnum[c]] IN
    /\ pc[c] = "test" /\ op[c] \in {"get", "timed_get", "get_nowait"}
    /\ ~BlockLocked(b)
    /\ pc' = [pc EXCEPT ![c] =
                IF cnum[c] \in busy[b] THEN "held"
                ELSE IF op[c] = "get_nowait" THEN "finished" ELSE "willwait"]
    /\ UNCHANGED <<countVars, inVars, outVars, maskVars, busyVars, fillVars,
                   prodVars, kind, cnum, op, still_busy, last_seq, scanVars>>

\* get16th, under the lock of the consumer's block.
Get16thTest(c) ==
    LET s == cnum[c]
        b == next_block_out[s]
        p == next_block_out_16th[s] IN
    /\ pc[c] = "test" /\ op[c] = "get16th"
    /\ ~BlockLocked(b)
    /\ IF s \in busy16th[b][p]
       THEN /\ next_block_out_16th' = [next_block_out_16th EXCEPT ![s] = @ + 1]
            /\ pc' = [pc EXCEPT ![c] = "held"]
       ELSE /\ pc' = [pc EXCEPT ![c] = "willwait"]
            /\ UNCHANGED next_block_out_16th
    /\ UNCHANGED <<countVars, inVars, next_block_out, maskVars, busyVars,
                   fillVars, prodVars, kind, cnum, op, still_busy, last_seq,
                   scanVars>>

\* pthread_cond_wait releases the block lock and sleeps.
GetSleep(c) ==
    /\ pc[c] = "willwait"
    /\ pc' = [pc EXCEPT ![c] = "asleep"]
    /\ UNCHANGED <<countVars, inVars, outVars, maskVars, busyVars, fillVars,
                   prodVars, kind, cnum, op, still_busy, last_seq, scanVars>>

\* POSIX lets pthread_cond_wait return without a signal.
GetSpuriousWakeup(c) ==
    /\ pc[c] = "asleep"
    /\ pc' = [pc EXCEPT ![c] = "test"]
    /\ UNCHANGED <<countVars, inVars, outVars, maskVars, busyVars, fillVars,
                   prodVars, kind, cnum, op, still_busy, last_seq, scanVars>>

\* Mutant of GetTimeout: the wait is resumed without a look at busy.
GetTimeoutResumes(c) ==
    /\ pc[c] = "asleep" /\ op[c] = "timed_get"
    /\ ~BlockLocked(next_block_out[cnum[c]])
    /\ pc' = [pc EXCEPT ![c] = "willwait"]
    /\ UNCHANGED <<countVars, inVars, outVars, maskVars, busyVars, fillVars,
                   prodVars, kind, cnum, op, still_busy, last_seq, scanVars>>

\* pthread_cond_timedwait takes the block lock back, timed_get returns -1 and
\* the loop of time_get_helper calls it again with a later deadline.
GetTimeout(c) ==
    /\ pc[c] = "asleep" /\ op[c] = "timed_get"
    /\ ~BlockLocked(next_block_out[cnum[c]])
    /\ pc' = [pc EXCEPT ![c] = "test"]
    /\ UNCHANGED <<countVars, inVars, outVars, maskVars, busyVars, fillVars,
                   prodVars, kind, cnum, op, still_busy, last_seq, scanVars>>

\* A fast consumer asks for the next part until it has had the last one.
NextPart(c) ==
    /\ pc[c] = "held" /\ kind[c] = "fast"
    /\ next_block_out_16th[cnum[c]] # Parts
    /\ pc' = [pc EXCEPT ![c] = "test"]
    /\ UNCHANGED <<countVars, inVars, outVars, maskVars, busyVars, fillVars,
                   prodVars, kind, cnum, op, still_busy, last_seq, scanVars>>

\* Mutant of ClearBusy: the block is freed for everyone.
ClearBusyOfAll(c, b) ==
    /\ busy' = [busy EXCEPT ![b] = {}]
    /\ still_busy' = [still_busy EXCEPT ![c] = FALSE]
    /\ last_seq' = [last_seq EXCEPT ![c] = seq_num[b]]
    /\ pc' = [pc EXCEPT ![c] = "freeing"]

\* The consumer clears its bit under the block lock and notes whether others
\* still have theirs.
ClearBusy(c, b) ==
    /\ busy' = [busy EXCEPT ![b] = @ \ {cnum[c]}]
    /\ still_busy' = [still_busy EXCEPT ![c] = busy'[b] # {}]
    /\ last_seq' = [last_seq EXCEPT ![c] = seq_num[b]]
    /\ pc' = [pc EXCEPT ![c] = "freeing"]

\* unlock, and unlock16th for a fast consumer.
Unlock(c) ==
    LET b == next_block_out[cnum[c]] IN
    /\ pc[c] = "held"
    /\ kind[c] = "fast" => next_block_out_16th[cnum[c]] = Parts
    /\ ~BlockLocked(b)
    /\ ClearBusy(c, b)
    /\ IF kind[c] = "fast"
       THEN busy16th' = [busy16th EXCEPT ![b] =
                           [p \in PartIds |-> @[p] \ {cnum[c]}]]
       ELSE UNCHANGED busy16th
    /\ UNCHANGED <<countVars, inVars, outVars, maskVars, fillVars, prodVars,
                   kind, cnum, op, scanVars>>

\* noop: get and unlock in one call, under one hold of the block lock.
NoopTest(c) ==
    LET b == next_block_out[cnum[c]] IN
    /\ pc[c] = "test" /\ op[c] = "noop"
    /\ ~BlockLocked(b)
    /\ IF cnum[c] \in busy[b]
       THEN ClearBusy(c, b)
       ELSE /\ pc' = [pc EXCEPT ![c] = "willwait"]
            /\ UNCHANGED <<busy, still_busy, last_seq>>
    /\ UNCHANGED <<countVars, inVars, outVars, maskVars, busy16th, fillVars,
                   prodVars, kind, cnum, op, scanVars>>

\* The end of unlock, unlock16th and noop, outside the lock: broadcast
\* notempty or notfull, then advance next_block_out.
UnlockDone(c) ==
    LET s == cnum[c]
        b == next_block_out[s] IN
    /\ pc[c] = "freeing"
    /\ pc' = [d \in Clients |->
                IF d = c THEN "ready"
                ELSE IF still_busy[c] /\ AsleepNotEmpty(d, b) THEN "test"
                ELSE pc[d]]
    /\ ppc' = IF still_busy[c] THEN ppc ELSE WakeProducer(b)
    /\ next_block_out' = [next_block_out EXCEPT ![s] = (@ + 1) % Blocks]
    /\ next_block_out_16th' = IF kind[c] = "fast"
                              THEN [next_block_out_16th EXCEPT ![s] = 0]
                              ELSE next_block_out_16th
    /\ still_busy' = [still_busy EXCEPT ![c] = FALSE]
    /\ UNCHANGED <<countVars, inVars, maskVars, busyVars, fillVars, pop, nbi,
                   nbi16th, kind, cnum, op, last_seq, scanVars>>

Consume(c) ==
    \/ \E o \in CallsOf(kind[c]) : GetCall(c, o)
    \/ GetTest(c) \/ Get16thTest(c) \/ NoopTest(c)
    \/ GetSleep(c) \/ GetSpuriousWakeup(c) \/ GetTimeout(c)
    \/ NextPart(c) \/ Unlock(c) \/ UnlockDone(c)

-----------------------------------------------------------------------------
Next == Put \/ \E c \in Clients : SignOnOff(c) \/ Consume(c)

Spec == Init /\ [][Next]_vars
(***************************************************************************)
(* Fairness.  A thread inside a call keeps running, and gets a mutex that  *)
(* is released again and again (strong fairness: taking a mutex is enabled *)
(* only while it is free).  Consumers loop for ever over get and unlock,   *)
(* as the trend, frame-saver and net-writer threads do.  Nothing is        *)
(* assumed of the producer calling put, of sign-on and sign-off being      *)
(* called, or of spurious wakeups.                                         *)
(***************************************************************************)
ProducerFairness ==
    SF_vars(PutTest \/ PutSleep \/ PutFill \/ PutPublish \/ PutPublish16th
            \/ PutDrop \/ PutSignal)

ConsumerFairness(c) ==
    SF_vars(\/ \E o \in CallsOf(kind[c]) : GetCall(c, o)
            \/ GetTest(c) \/ Get16thTest(c) \/ NoopTest(c)
            \/ GetSleep(c) \/ GetTimeout(c)
            \/ NextPart(c) \/ Unlock(c) \/ UnlockDone(c)
            \/ MarkBlock(c) \/ AddTransientDone(c) \/ ClearBlock(c))

FairSpec ==
    Spec /\ ProducerFairness /\ \A c \in Clients : ConsumerFairness(c)

-----------------------------------------------------------------------------
(* Properties *)

PutCalls  == WholePuts \cup PartPuts
GetCalls  == {"get", "timed_get", "noop", "get_nowait", "get16th"}
ProducerSteps == {"idle", "test", "willwait", "asleep", "fill", "publish",
                  "publish16th", "drop", "signal"}
ClientSteps == {"out", "marking", "ready", "test", "willwait", "asleep",
                "held", "freeing", "finished", "clearing"}

\* Type invariant: indices stay inside the ring and the masks inside the
\* consumer slots.
TypeOK ==
    /\ puts \in Nat /\ drops \in Nat /\ dropped \subseteq Nat
    /\ next_block_in \in BlockIds /\ next_block_in_16th \in PartIds
    /\ next_block_out \in [Slots -> BlockIds]
    /\ next_block_out_16th \in [Slots -> 0..Parts]
    /\ cmask \subseteq Slots /\ tcmask \subseteq Slots
    /\ cmask16th \subseteq Slots
    /\ consumers \in Int /\ transient_consumers \in Int
    /\ fast_consumers \in Int
    /\ busy \in [BlockIds -> SUBSET Slots]
    /\ busy16th \in [BlockIds -> [PartIds -> SUBSET Slots]]
    /\ seq_num \in [BlockIds -> Nat] /\ gps \in [BlockIds -> Nat]
    /\ data \in [BlockIds -> [PartIds -> Int]]
    /\ ppc \in ProducerSteps /\ pop \in PutCalls
    /\ nbi \in BlockIds /\ nbi16th \in PartIds
    /\ pc \in [Clients -> ClientSteps]
    /\ kind \in [Clients -> {"slow", "fast", "transient"}]
    /\ cnum \in [Clients -> Slots]
    /\ op \in [Clients -> GetCalls]
    /\ still_busy \in [Clients -> BOOLEAN]
    /\ last_seq \in [Clients -> Int]
    /\ cursor \in BlockIds /\ window \in Int \X Int
    /\ first_block \in BlockIds \cup {-1}

\* Client c reads part p of block b: between get and unlock, or, for a fast
\* consumer, between two calls of get16th.
Reads(c, b, p) ==
    /\ pc[c] = "held"
    /\ next_block_out[cnum[c]] = b
    /\ kind[c] = "fast" => p = next_block_out_16th[cnum[c]] - 1

\* The producer stores samples into part p of block b.
Writes(b, p) ==
    ppc = "fill" /\ nbi = b /\ (pop \in PartPuts => p = nbi16th)

\* The race the comment of get describes (a fast producer going full circle)
\* cannot happen: no part is stored into while a consumer reads it.
NoOverwriteWhileHeld ==
    \A c \in Clients, b \in BlockIds, p \in PartIds :
        Reads(c, b, p) => ~Writes(b, p)

\* What a consumer reads are samples of the second the block is stamped with
\* (or zeros put in for a lost part): never parts of two seconds.
HeldDataIsOneSecond ==
    \A c \in Clients, b \in BlockIds, p \in PartIds :
        Reads(c, b, p) =>
            \/ data[b][p] = seq_num[b]
            \/ data[b][p] = -1 /\ "put16th_lost" \in PutOps

\* Every consumer gets the blocks in order, each once, and misses none but
\* those put_nowait dropped and counted.
InOrderNoGap ==
    /\ drops = Cardinality(dropped)
    /\ \A c \in Clients : pc[c] = "held" =>
         LET n == seq_num[next_block_out[cnum[c]]] IN
         /\ last_seq[c] < n
         /\ ((last_seq[c] + 1)..(n - 1)) \subseteq dropped

\* What circ_buffer::invariant(1) asserts each time add_consumer,
\* add_transient_consumer or delete_consumer is about to release the buffer
\* lock: counters agree with the masks, no busy bit outside tcmask; and the
\* bits of tcmask belong to distinct consumer threads.
Registered(c) == pc[c] \notin {"out", "marking", "clearing"}

RegistrationConsistent ==
    ~BufferLocked =>
        /\ consumers = Cardinality(tcmask)
        /\ transient_consumers = Cardinality(tcmask \ cmask)
        /\ fast_consumers = Cardinality(cmask16th)
        /\ cmask16th \subseteq cmask /\ cmask \subseteq tcmask
        /\ \A b \in BlockIds : busy[b] \subseteq tcmask
        /\ \A b \in BlockIds, p \in PartIds : busy16th[b][p] \subseteq cmask16th
        /\ tcmask = {cnum[c] : c \in {d \in Clients : Registered(d)}}
        /\ \A c, d \in Clients :
             Registered(c) /\ Registered(d) /\ cnum[c] = cnum[d] => c = d

\* A transient consumer whose get_nowait fails has read every block that was
\* marked for it, so nothing it asked for is thrown away by delete_consumer.
TransientComplete ==
    \A c \in Clients : pc[c] = "finished" =>
        \A b \in BlockIds : cnum[c] \notin busy[b]

\* With one block per BlockPeriod and none dropped, a request to play back the
\* last n seconds selects exactly the last complete blocks: n of them, or all
\* the buffer can still give away.
PlaybackSelectsLast ==
    puts > 0 /\ drops = 0 =>
        \A n \in 0..(Blocks + 1) :
            LET w    == PlaybackWindow(n * BlockPeriod)
                hits == {b \in BlockIds \ {next_block_in} :
                            w[1] <= gps[b] /\ gps[b] < w[2]}
                want == IF n < Blocks THEN n ELSE Blocks - 1
                want1 == IF want < puts THEN want ELSE puts
            IN  hits = {b \in BlockIds \ {next_block_in} :
                           gps[b] # 0 /\ puts - seq_num[b] <= want1}

\* A put that has started ends: a producer asleep on notfull is woken once the
\* consumers have freed its block.
PutCompletes == ppc = "test" ~> ppc = "idle"

\* get waits "while the block is not filled": a consumer whose next block (or,
\* for a fast consumer, part) is marked for it gets it.
Filled(c) ==
    /\ Registered(c)
    /\ IF kind[c] = "fast"
       THEN next_block_out_16th[cnum[c]] < Parts
            /\ cnum[c] \in busy16th[next_block_out[cnum[c]]]
                                   [next_block_out_16th[cnum[c]]]
       ELSE cnum[c] \in busy[next_block_out[cnum[c]]]

GetReturns ==
    \A c \in Clients :
        pc[c] \in {"test", "willwait", "asleep"} /\ Filled(c)
            ~> pc[c] \in {"held", "freeing"}
-----------------------------------------------------------------------------
(* The inductive invariant behind NoOverwriteWhileHeld *)

\* The producer is in a call and has not yet moved next_block_in.
InCall == ppc \in {"test", "willwait", "asleep", "fill", "publish", "drop"}

\* The producer's locals agree with the buffer, it only fills and publishes a
\* block no consumer has a bit in, and between its two stores every fast
\* consumer has the block but nobody has the last part.
ProducerInv ==
    /\ puts <= MaxPuts
    /\ ppc # "idle" => pop \in PutOps
    /\ InCall => /\ nbi = next_block_in /\ nbi16th = next_block_in_16th
                 /\ puts < MaxPuts
    /\ PutOps \subseteq WholePuts => next_block_in_16th = 0
    /\ ppc \in {"fill", "publish"} => busy[nbi] = {}
    /\ ppc = "publish16th" =>
         /\ pop \in PartPuts
         /\ nbi16th = Parts - 1 /\ next_block_in_16th = Parts - 1
         /\ cmask16th \subseteq busy[nbi]
         /\ busy16th[nbi][nbi16th] = {}

Scanning(c) == pc[c] \in {"marking", "clearing"}

\* At most one thread is inside pbuffer->lock.
LockInv ==
    /\ \A c, d \in Clients : Scanning(c) /\ Scanning(d) => c = d
    /\ ppc = "publish16th" => \A c \in Clients : ~Scanning(c)

\* The bits of tcmask are the slots of the registered consumers, one each; a
\* thread that is signing on or off has no bit.
SlotInv ==
    /\ cmask16th \subseteq cmask /\ cmask \subseteq tcmask
    /\ consumers = Cardinality(tcmask)
    /\ \A c \in Clients : Registered(c) =>
         /\ cnum[c] \in tcmask
         /\ (kind[c] = "fast") = (cnum[c] \in cmask16th)
    /\ \A c, d \in Clients :
         Registered(c) /\ Registered(d) /\ cnum[c] = cnum[d] => c = d
    /\ \A c \in Clients : Scanning(c) => cnum[c] \notin tcmask

\* Busy bits belong to tcmask or to the thread inside pbuffer->lock.
BusyInv ==
    /\ \A b \in BlockIds, s \in Slots : s \in busy[b] =>
         s \in tcmask \/ \E c \in Clients : Scanning(c) /\ cnum[c] = s
    /\ \A c \in Clients, b \in BlockIds :
         pc[c] = "clearing" /\ b < cursor => cnum[c] \notin busy[b]
    /\ \A c \in Clients, b \in BlockIds :
         pc[c] = "marking" /\ first_block < 0 => cnum[c] \notin busy[b]

\* Parts belong to fast consumers, and a part marked for one is in a block
\* marked for it too, unless the producer is still working on that block.
Busy16thInv ==
    /\ \A b \in BlockIds, p \in PartIds, s \in Slots : s \in busy16th[b][p] =>
         \/ s \in cmask16th
         \/ \E c \in Clients : pc[c] = "clearing" /\ cnum[c] = s
    /\ \A b \in BlockIds, p \in PartIds, s \in Slots : s \in busy16th[b][p] =>
         \/ s \in busy[b]
         \/ /\ ppc # "publish16th"
            /\ b = next_block_in /\ p < next_block_in_16th
    /\ \A c \in Clients, b \in BlockIds, p \in PartIds :
         pc[c] = "clearing" /\ b < cursor => cnum[c] \notin busy16th[b][p]

\* A consumer keeps its bit in what it reads.
HeldInv ==
    /\ \A c \in Clients : pc[c] = "held" /\ kind[c] # "fast" =>
         cnum[c] \in busy[next_block_out[cnum[c]]]
    /\ \A c \in Clients : pc[c] = "held" /\ kind[c] = "fast" =>
         /\ next_block_out_16th[cnum[c]] > 0
         /\ cnum[c] \in busy16th[next_block_out[cnum[c]]]
                                [next_block_out_16th[cnum[c]] - 1]
    /\ \A c \in Clients :
         /\ Registered(c) /\ kind[c] = "fast"
         /\ pc[c] \notin {"held", "freeing"}
         => next_block_out_16th[cnum[c]] < Parts
    /\ \A c \in Clients : pc[c] \in {"test", "willwait", "asleep", "held"} =>
         op[c] \in CallsOf(kind[c])

IndInv == /\ TypeOK /\ ProducerInv /\ LockInv /\ SlotInv /\ BusyInv
          /\ Busy16thInv /\ HeldInv

-----------------------------------------------------------------------------
(* The invariants behind the other properties *)

\* The counters agree with the masks, every bit of tcmask has its thread, and
\* a transient consumer is one that is not in cmask.
RosterInv ==
    /\ transient_consumers = Cardinality(tcmask \ cmask)
    /\ fast_consumers = Cardinality(cmask16th)
    /\ \A s \in tcmask : \E c \in Clients : Registered(c) /\ cnum[c] = s
    /\ \A c \in Clients :
         Registered(c) => (kind[c] = "transient") = (cnum[c] \notin cmask)

\* Requests for stamps a block can have, and for at least one whole block when
\* the last seconds are asked for: others also match blocks never written.
StampedRequests ==
    \A r \in Requests : IF r[2] = 0 THEN r[1] = 0 \/ r[1] >= BlockPeriod
                        ELSE r[1] > 0

\* One block each BlockPeriod, as the producer's clock gives them.
RegularStamps ==
    \A n \in 0..MaxPuts : GpsAt(n) = GpsAt(0) + n * BlockPeriod

\* The block after b, the one before it, the number of blocks from a on to b.
Succ(b) == (b + 1) % Blocks
Pred(b) == (b + Blocks - 1) % Blocks
Dist(a, b) == (b - a) % Blocks

\* Parts of the block at next_block_in that are stored; it is being filled.
Stored == IF ppc = "publish16th" THEN 0 ELSE next_block_in_16th
Filling == Stored > 0 \/ ppc = "publish"

\* A block with all parts of its second.
Settled(b) == gps[b] # 0 /\ (b = next_block_in => ~Filling)

\* Blocks are first written in order, and none is dropped before all have been.
FillInv ==
    /\ Filling => /\ busy[next_block_in] = {}
                  /\ seq_num[next_block_in] = puts /\ gps[next_block_in] # 0
    /\ \A b \in BlockIds : gps[b] # 0 =>
         seq_num[b] \in 0..MaxPuts /\ gps[b] = GpsAt(seq_num[b])
    /\ \A b \in BlockIds : busy[b] # {} => gps[b] # 0
    /\ (\E b \in BlockIds : gps[b] = 0) =>
         /\ next_block_in = puts
         /\ \A b \in BlockIds :
              gps[b] = 0 <=> b > puts \/ (b = puts /\ ~Filling)
    /\ ppc = "drop" => pop = "put_nowait" /\ \A b \in BlockIds : gps[b] # 0
    /\ \A c \in Clients :
         pc[c] = "marking" => window[1] > 0 \/ window[2] <= window[1]

\* A part has samples of its block's second, or zeros for a lost part.
OfSecond(b, p) ==
    data[b][p] = seq_num[b] \/ (data[b][p] = -1 /\ "put16th_lost" \in PutOps)

DataInv ==
    /\ \A b \in BlockIds, p \in PartIds : Settled(b) => OfSecond(b, p)
    /\ \A p \in PartIds : p < Stored => OfSecond(next_block_in, p)
    /\ ppc = "publish" =>
         /\ OfSecond(nbi, nbi16th)
         /\ pop \in WholePuts => \A p \in PartIds : OfSecond(nbi, p)

\* Between the puts m and n there are only dropped ones.
Gap(m, n) == m < n /\ (m + 1)..(n - 1) \subseteq dropped

\* A block was put right after the one before it, up to dropped ones.
SeqInv ==
    /\ IsFiniteSet(dropped) /\ drops = Cardinality(dropped)
    /\ \A n \in dropped : n < puts
    /\ \A b \in BlockIds : Settled(b) =>
         Gap(seq_num[b], IF Succ(b) = next_block_in THEN puts ELSE seq_num[Succ(b)])

\* The block a client reads next, or is reading.
At(c) == IF pc[c] = "freeing" THEN Succ(next_block_out[cnum[c]])
         ELSE next_block_out[cnum[c]]

\* Slot s has its bit in m blocks from h on.
Run(s, h, m) == \A b \in BlockIds : s \in busy[b] <=> Dist(h, b) < m

\* Blocks from h on to the one filled next, all if this is h itself.
Room(h) == IF h = next_block_in THEN Blocks ELSE Dist(h, next_block_in)

\* What is marked for a consumer are the blocks from its own on: for a transient
\* one some, for the others all up to the block that is filled next.
Queue(c) ==
    \E m \in 0..Room(At(c)) :
        /\ Run(cnum[c], At(c), m)
        /\ kind[c] # "transient" =>
             m = Room(At(c)) \/ (m = 0 /\ At(c) = next_block_in)

\* The last block a client had was put right before the one it is at.
Follows(c) ==
    IF cnum[c] \in busy[At(c)] THEN Gap(last_seq[c], seq_num[At(c)])
    ELSE kind[c] # "transient" => Gap(last_seq[c], puts)

QueueInv ==
    /\ \A c \in Clients : Registered(c) => Queue(c) /\ Follows(c)
    /\ \A c \in Clients : pc[c] = "finished" =>
         kind[c] = "transient" /\ cnum[c] \notin busy[next_block_out[cnum[c]]]

\* The blocks marked so far follow each other; once one after them was not
\* marked, its stamp is beyond the window, and so are the later ones.
MarkInv ==
    /\ (\A c \in Clients : pc[c] # "marking") => first_block = -1
    /\ \A c \in Clients : pc[c] = "marking" /\ first_block # -1 =>
         /\ window[1] < window[2]
         /\ Dist(first_block, cursor) <= Dist(first_block, next_block_in)
         /\ gps[Pred(cursor)] >= window[1]
         /\ \E m \in 1..Dist(first_block, cursor) :
              /\ Run(cnum[c], first_block, m)
              /\ m = Dist(first_block, cursor) \/ gps[Pred(cursor)] >= window[2]

OrderInv == FillInv /\ DataInv /\ SeqInv /\ QueueInv /\ MarkInv
=============================================================================
