----------------------------- MODULE RecvBuffer -----------------------------
(***************************************************************************)
(* The receiving end of the publish/subscribe stream:                      *)
(* pub_sub_stream/recv_buffer.hh (gps_key, buffer_entry, receive_buffer)   *)
(* and the main loop of pub_sub_stream/sub_recv_bufferred.cc.              *)
(*                                                                         *)
(* Every publisher sends one message per cycle with the headers and data   *)
(* of its models.  Subscriber callbacks put the messages into the entry of *)
(* their cycle; the main loop hands on the entry of the newest cycle, or   *)
(* of one some cycles before it, after a delay.  A gps_key counts cycles,  *)
(* seconds * CyclesPerSecond + cycle.                                      *)
(***************************************************************************)
EXTENDS Integers, Sequences, FiniteSets

CONSTANTS
    Threads,          \* threads that run the subscription callbacks
    Publishers,
    ModelsOf,         \* dcuId of each header in a publisher's messages
    N,                \* entries of the receive_buffer
    CyclesPerSecond,  \* max_cycle(), 16 in the code
    BufferCycles,     \* buffer_cycles of main
    MaxDcu,           \* DAQ_TRANSIT_MAX_DCU
    QueueSize,        \* room in the dc_queue to the statistics thread
    FirstKey,         \* cycle in which the publishers start
    LastKey,          \* bound on time, for model checking
    MaxCopies         \* how often the network may deliver one message

Keys == FirstKey..LastKey

\* The headers that ingest copies: those with a dcuId.
CopiedOf(p) == SelectSeq(ModelsOf[p], LAMBDA d : d # 0)

ASSUME SizesAssumption ==
    /\ N \in Nat \ {0, 1} /\ CyclesPerSecond \in Nat \ {0}
    /\ BufferCycles \in 0..(N - 2)
    /\ MaxDcu \in Nat /\ QueueSize \in Nat \ {0}
    /\ FirstKey \in Nat /\ LastKey \in Nat
    /\ BufferCycles < FirstKey /\ FirstKey <= LastKey
    /\ MaxCopies \in Nat
ASSUME ModelsAssumption ==
    /\ IsFiniteSet(Publishers)
    /\ \A p \in Publishers :
        /\ ModelsOf[p] \in Seq(Nat)
        /\ CopiedOf(p) \in Seq(Nat \ {0})
        /\ Len(CopiedOf(p)) <= Len(ModelsOf[p])

VARIABLES
    now,                 \* the cycle the publishers are in
    entry,               \* buffer_: latest, ifo_data's headers, is_late_
    latest_,             \* newest key any message had
    late_entries_, discarded_entries_,
    tpc, tkey, old_key,  \* each callback: where it is, its key, its CAS loop
    rpc, last_received,  \* the main loop
    queued,              \* slices in the dc_queue
    late_messages, very_late_messages,  \* its totals
    delivered,           \* what the recorder wrote, in order
    arrived              \* history: copies of each message that were ingested

bufferVars == <<entry, late_entries_, discarded_entries_>>
threadVars == <<tpc, tkey, old_key>>
readerVars == <<rpc, last_received, queued, late_messages, very_late_messages>>
vars == <<now, bufferVars, latest_, threadVars, readerVars, delivered, arrived>>

Cycle(key) == key % CyclesPerSecond
cycle_to_index(cycle) == cycle % N
Index(key) == cycle_to_index(Cycle(key))

\* receive_buffer::ingest drops empty and malformed messages.
WellFormed(p) == Len(ModelsOf[p]) \in 1..MaxDcu

process_at == last_received - BufferCycles

\* Mutant of EntryLocked: the callback of process_if runs without the lock.
EntryNeverLocked(i) == FALSE

\* process_if keeps the entry's mutex while its callback waits for the queue.
EntryLocked(i) == rpc = "emplace" /\ i = Index(process_at)

-----------------------------------------------------------------------------
(* The initial state *)

\* msgs is a history: how many messages the entry took for its key.
EmptyEntry == [latest |-> 0, models |-> <<>>, is_late_ |-> FALSE, msgs |-> 0]

Init ==
    /\ now = FirstKey
    /\ entry = [i \in 0..(N - 1) |-> EmptyEntry]
    /\ latest_ = 0 /\ late_entries_ = 0 /\ discarded_entries_ = 0
    /\ tpc = [t \in Threads |-> "idle"]
    /\ tkey = [t \in Threads |-> 0]
    /\ old_key = [t \in Threads |-> 0]
    /\ rpc = "poll" /\ last_received = 0 /\ queued = 0
    /\ late_messages = 0 /\ very_late_messages = 0
    /\ delivered = <<>>
    /\ arrived = [p \in Publishers |-> [k \in Keys |-> 0]]

-----------------------------------------------------------------------------
(* The subscription callbacks *)

\* Mutant of CopyModels: no test of dest_index.
CopyModelsUnbounded(models, p, key) ==
    [i \in 1..(Len(models) + Len(CopiedOf(p))) |->
        IF i <= Len(models) THEN models[i]
        ELSE [dcu |-> CopiedOf(p)[i - Len(models)], key |-> key]]

\* The loop of buffer_entry::ingest: headers are added until the entry is full.
CopyModels(models, p, key) ==
    LET total == Len(models) + Len(CopiedOf(p)) IN
    [i \in 1..(IF total <= MaxDcu THEN total ELSE MaxDcu) |->
        IF i <= Len(models) THEN models[i]
        ELSE [dcu |-> CopiedOf(p)[i - Len(models)], key |-> key]]

clear(e) ==
    [latest |-> e.latest, models |-> <<>>, is_late_ |-> FALSE, msgs |-> 0]

\* Mutant of Stale: a message older than the entry is taken for a new one.
StaleNever(e, key) == FALSE

\* A message for a cycle that the entry has left behind.
Stale(e, key) == key < e.latest

\* buffer_entry::ingest for an entry that is at this key or before it.  When
\* the entry is full the function returns before it sets latest.
Store(e, p, key) ==
    [latest |-> IF Len(e.models) + Len(CopiedOf(p)) <= MaxDcu
                THEN key ELSE e.latest,
     models |-> CopyModels(e.models, p, key),
     is_late_ |-> e.is_late_,
     msgs |-> e.msgs + 1]

\* receive_buffer::ingest up to the update of latest_: one critical section of
\* the entry's mutex.  The network may deliver a message late, repeatedly or
\* never, but not before its cycle.
Ingest(t, p, key) ==
    LET i == Index(key)
        e == IF key > entry[i].latest THEN clear(entry[i]) ELSE entry[i]
    IN
    /\ tpc[t] = "idle"
    /\ key <= now /\ arrived[p][key] < MaxCopies
    /\ WellFormed(p)
    /\ ~EntryLocked(i)
    /\ \/ /\ Stale(entry[i], key)
          /\ discarded_entries_' = discarded_entries_ + 1
          /\ UNCHANGED <<entry, late_entries_>>
       \/ /\ ~Stale(entry[i], key)
          /\ late_entries_' = late_entries_ + (IF e.is_late_ THEN 1 ELSE 0)
          /\ entry' = [entry EXCEPT ![i] = Store(e, p, key)]
          /\ UNCHANGED discarded_entries_
    /\ arrived' = [arrived EXCEPT ![p][key] = @ + 1]
    /\ tpc' = [tpc EXCEPT ![t] = "load"]
    /\ tkey' = [tkey EXCEPT ![t] = key]
    /\ UNCHANGED <<now, latest_, old_key, readerVars, delivered>>

\* atomic_store_to_if: the first load of latest_.
LoadLatest(t) ==
    /\ tpc[t] = "load"
    /\ old_key' = [old_key EXCEPT ![t] = latest_]
    /\ tpc' = [tpc EXCEPT ![t] = "cas"]
    /\ UNCHANGED <<now, bufferVars, latest_, tkey, readerVars, delivered,
                   arrived>>

\* Mutant of CasLatest: a plain store instead of the compare and swap.
CasLatestStores(t) ==
    /\ tpc[t] = "cas"
    /\ latest_' = IF old_key[t] < tkey[t] THEN tkey[t] ELSE latest_
    /\ tpc' = [tpc EXCEPT ![t] = "idle"]
    /\ UNCHANGED <<now, bufferVars, tkey, old_key, readerVars, delivered,
                   arrived>>

\* One turn of its loop: the swap returns the value found, which after a
\* success is still the old one, so the loop turns once more.
CasLatest(t) ==
    /\ tpc[t] = "cas"
    /\ \/ /\ old_key[t] < tkey[t]
          /\ latest_' = IF latest_ = old_key[t] THEN tkey[t] ELSE latest_
          /\ old_key' = [old_key EXCEPT ![t] = latest_]
          /\ UNCHANGED <<tpc, tkey>>
       \/ /\ old_key[t] >= tkey[t]
          /\ tpc' = [tpc EXCEPT ![t] = "idle"]
          /\ old_key' = [old_key EXCEPT ![t] = 0]
          /\ tkey' = [tkey EXCEPT ![t] = 0]
          /\ UNCHANGED latest_
    /\ UNCHANGED <<now, bufferVars, readerVars, delivered, arrived>>

-----------------------------------------------------------------------------
(* The main loop *)

\* The inner loop ends when latest() differs from what it was.
Poll ==
    /\ rpc = "poll" /\ latest_ # last_received
    /\ last_received' = latest_
    /\ rpc' = "delay"
    /\ UNCHANGED <<now, bufferVars, latest_, threadVars, queued, late_messages,
                   very_late_messages, delivered, arrived>>

\* Mutant of Processed: is_late_ stays as it was.
ProcessedNotLate(e) == e

\* process_if: anything received after this point is late.
Processed(e) ==
    [latest |-> e.latest, models |-> e.models, is_late_ |-> TRUE,
     msgs |-> e.msgs]

Slice(i) == [key |-> process_at, models |-> entry[i].models,
             msgs |-> entry[i].msgs]

\* Mutant of ProcessSlice: last_received is read again after the delay.
ProcessSliceRereads ==
    LET i == Index(process_at) IN
    /\ rpc = "delay"
    /\ \/ /\ entry[i].latest = process_at
          /\ delivered' = Append(delivered, Slice(i))
          /\ rpc' = "emplace"
       \/ /\ entry[i].latest # process_at
          /\ rpc' = "stats"
          /\ UNCHANGED delivered
    /\ last_received' = latest_
    /\ UNCHANGED <<now, bufferVars, latest_, threadVars, queued, late_messages,
                   very_late_messages, arrived>>

\* After the delay: process_slice_at, with the recorder that copies the slice
\* to the output, if the entry still is at that key.
ProcessSlice ==
    LET i == Index(process_at) IN
    /\ rpc = "delay"
    /\ \/ /\ entry[i].latest = process_at
          /\ delivered' = Append(delivered, Slice(i))
          /\ rpc' = "emplace"
       \/ /\ entry[i].latest # process_at
          /\ rpc' = "stats"
          /\ UNCHANGED delivered
    /\ UNCHANGED <<now, bufferVars, latest_, threadVars, last_received, queued,
                   late_messages, very_late_messages, arrived>>

\* The recorder passes a copy to the statistics, once there is room; then
\* process_if marks the entry and gives its mutex back.
Emplace ==
    LET i == Index(process_at) IN
    /\ rpc = "emplace" /\ queued < QueueSize
    /\ queued' = queued + 1
    /\ entry' = [entry EXCEPT ![i] = Processed(@)]
    /\ rpc' = "stats"
    /\ UNCHANGED <<now, late_entries_, discarded_entries_, latest_, threadVars,
                   last_received, late_messages, very_late_messages, delivered,
                   arrived>>

\* The statistics thread takes a slice.
Pop ==
    /\ queued > 0
    /\ queued' = queued - 1
    /\ UNCHANGED <<now, bufferVars, latest_, threadVars, rpc, last_received,
                   late_messages, very_late_messages, delivered, arrived>>

\* The statistics: once a second the counters are moved to the totals.
Report ==
    /\ rpc = "stats"
    /\ \/ /\ Cycle(last_received) = 0
          /\ late_messages' = late_messages + late_entries_
          /\ very_late_messages' = very_late_messages + discarded_entries_
          /\ late_entries_' = 0 /\ discarded_entries_' = 0
       \/ /\ Cycle(last_received) # 0
          /\ UNCHANGED <<late_messages, very_late_messages, late_entries_,
                         discarded_entries_>>
    /\ rpc' = "poll"
    /\ UNCHANGED <<now, entry, latest_, threadVars, last_received, queued,
                   delivered, arrived>>

-----------------------------------------------------------------------------
(* Specification *)

\* The publishers move on to the next cycle.
Tick ==
    /\ now < LastKey
    /\ now' = now + 1
    /\ UNCHANGED <<bufferVars, latest_, threadVars, readerVars, delivered,
                   arrived>>

Next ==
    \/ Tick
    \/ \E t \in Threads :
        \/ \E p \in Publishers, key \in Keys : Ingest(t, p, key)
        \/ LoadLatest(t)
        \/ CasLatest(t)
    \/ Poll
    \/ ProcessSlice
    \/ Emplace
    \/ Pop
    \/ Report

\* The main loop, the statistics thread and a callback that has begun keep
\* running.
Fairness ==
    /\ WF_vars(Poll) /\ WF_vars(ProcessSlice) /\ WF_vars(Emplace)
    /\ WF_vars(Report) /\ WF_vars(Pop)
    /\ \A t \in Threads : WF_vars(LoadLatest(t)) /\ WF_vars(CasLatest(t))

Spec == Init /\ [][Next]_vars
FairSpec == Spec /\ Fairness

-----------------------------------------------------------------------------
(* Properties *)

Header == [dcu : Nat \ {0}, key : Keys]
Entry == [latest : Keys \cup {0}, models : Seq(Header), is_late_ : BOOLEAN,
          msgs : Nat]

\* The state has its types; an entry never holds more headers than ifo_data
\* has room for (buffer_entry::ingest tests dest_index before each).
TypeOK ==
    /\ now \in Keys
    /\ entry \in [0..(N - 1) -> Entry]
    /\ \A i \in 0..(N - 1) : Len(entry[i].models) <= MaxDcu
    /\ latest_ \in Keys \cup {0} /\ last_received \in Keys \cup {0}
    /\ tpc \in [Threads -> {"idle", "load", "cas"}]
    /\ tkey \in [Threads -> Keys \cup {0}]
    /\ old_key \in [Threads -> Keys \cup {0}]
    /\ rpc \in {"poll", "delay", "emplace", "stats"}
    /\ queued \in 0..QueueSize

Channel == INSTANCE SliceChannel WITH delivered <- delivered

\* The receiver implements the channel: whatever the order in which messages
\* arrive and callbacks interleave, the recorder gets every cycle at most
\* once, never one older than the last, and no header of another cycle.
ImplementsChannel == Channel!Spec

Counted ==
    late_entries_ + discarded_entries_ + late_messages + very_late_messages
Delivered == 1..Len(delivered)
DeliveredKeys == {delivered[i].key : i \in Delivered}

\* The messages of the cycles K that reached an entry, copies told apart.
Copies(K) ==
    {m \in (Publishers \X K) \X (1..MaxCopies) :
        m[2] <= arrived[m[1][1]][m[1][2]]}

\* The messages the slices that were handed on hold.
InSlices == UNION {{i} \X (1..delivered[i].msgs) : i \in Delivered}

\* No message is lost without a trace: each one that reached an entry is in the
\* slice of its cycle, or that slice was never handed on, or it is counted as
\* late or discarded; and none of those counted is in a slice.  (A message that
\* found the entry full counts as taken, though some of its headers are not.)
EveryMessageAccounted ==
    /\ Cardinality(Copies(DeliveredKeys)) <= Cardinality(InSlices) + Counted
    /\ Counted + Cardinality(InSlices) <= Cardinality(Copies(Keys))

\* The main loop is woken for a cycle whose entry is there, or was there and
\* has been reused for a later cycle: latest_ is set after the entry.
WokenForStoredCycle ==
    last_received # 0 => entry[Index(last_received)].latest >= last_received

\* A cycle that is stored when it becomes due (its key is BufferCycles behind
\* the newest, which the main loop has not seen yet) is handed on, or a later
\* one is, unless the stream moves on first: no wakeup is missed while the main
\* loop sleeps, waits for the queue or does statistics.
NewestIsDelivered ==
    \A key \in Keys :
        latest_ = key /\ last_received < key
          /\ entry[Index(key - BufferCycles)].latest = key - BufferCycles
        ~> \/ latest_ > key
           \/ \E i \in Delivered : delivered[i].key >= key - BufferCycles
=============================================================================
