# TLA+ models of the advLigoRTS data acquisition system

This directory holds TLA+ modules that model parts of advLigoRTS, the real-time
code generator, front-end controllers and data acquisition system of the LIGO
detectors; TLC configurations that check them on small instances; and proofs
that TLAPS checks. `PROJECT.json` lists the components, the runs, the source
lines behind every definition, the hazards that motivate the properties, and the
theorems. Paths below are relative to the repository's root.

## 1. The system

    ADCs -> IOP controller -> user controllers (RCG models) -> DACs
              |  commData3 IPC (shared memory, Dolphin)  |
              v                                          v
         daqLib: one DAQ buffer per model, 16 cycles a second, in mbuf
              |
         local_dc (on the front end)
              |
         pub_xmit / mx_stream / ix_stream / dx_stream   (network)
              |
         recv_buffer, sub_recv_bufferred (data concentrator)
              |
         daqd: producer -> main circular buffer -> trenders, frame savers,
                net writers (NDS clients), each a consumer thread
              |
         run number server (hash of the configuration -> run number)

| Component | State | Operations | What is hard | What makes it correct |
|---|---|---|---|---|
| circular buffer, `src/daqd/circ.*` | ring of blocks with busy masks for blocks and for sixteenths, in/out indices, consumer masks and counters | 6 puts, 5 gets, unlock, unlock16th, noop, add/add_transient/delete consumer, bfree (a query) | one lock for the buffer and one per block, taken one after the other; three condition variables per block; sign-on and sign-off at any time | nobody reads what is being stored; no block lost or repeated; counters agree with masks; nobody sleeps for ever |
| frame broadcast, `src/daqd/{framesend,framerecv,net_writer}.cc` | pool of radio buffers, queue of frames with a cursor, receiver's packet list and expected sequence number | send, transmit burst, retransmit, receive with requests and a retry timer | UDP loses, repeats and reorders; sequence numbers wrap; the sender forgets old frames | frames come whole, in order and without a gap, or the process ends; a buffer is not reused while it is queued |
| daqd threads, `src/daqd/{producer_shmem,trend,net_writer,daqd,filesys}.*` | thread lists, trend blocks, file counters | producer loop, minute trend from second trend, frame save, client connect/disconnect | producer timing, threads that stop without signing off | every second reaches every saver; a stopped consumer does not block the producer |
| run number server, `src/run_number` | last number and configuration hash, in memory and in a file | get_number, file_backing_store get/save, client request with timeouts | restart between requests; the file is a text encoding of the hash | same hash, same number; the number never goes back |
| receive buffer, `src/pub_sub_stream/recv_buffer.hh` | 4 slots of partly assembled cycles, latest key | ingest of a node's message, process_slice_at | messages late, out of order, duplicated, from several subscriber threads | a cycle is delivered once, in order, with each node's data once |
| publisher side, `src/pub_sub_stream/{pub_xmit.cc,message_queue.hh,arena.hh}` | bounded queue, buffers | push, pop, send | full queue, stop | no buffer is used twice, order kept |
| local_dc, `src/local_dc` | per-model cycle words, output slots | wait for the next cycle, collect, publish | models that are late or stop | a slot never mixes cycles |
| streamers, `src/{mx_stream,ix_stream,dx_stream}` | ring in remote memory | write, announce | torn reads, retries | as local_dc |
| mbuf driver, `src/drv/mbuf` | named shared buffers with use counts | allocate, free, mmap, release | processes that die | a buffer in use is not freed |
| IPC, `src/fe/commData3.c` | value and cycle word per channel | send, receive | writer and reader on different clocks | a value is used only in its cycle, else counted as an error |
| controllers, `src/fe/controllerIop.c, controllerApp.c, moduleLoad*.c` | cycle counters, overflow and DAC status, watchdogs | one cycle | overruns, ADC timeouts | DACs are zeroed on error |
| filter modules, `src/include/drv/fm10Gen.c` | history, switches, ramps | one filter step, coefficient reload | switching while running | ramps end at their target |
| daqLib, `src/include/drv/daqLib.c` | swing buffers, test point slots | daqWrite | reconfiguration while running | a cycle is complete before it is announced |
| test points and awg, `src/gds/{testpoint_server,awg,gdssched*,rmapi}.c` | index of test points, reference counts, task tickets | request, clear, clear-all, schedule | RPCs from several clients, keep-alive clean up | a test point is removed only when nobody wants it |
| EPICS sequencer and SDF, `src/epics/seq` | settings tables | load, save, compare, confirm | changes while a load is under way | the table that was confirmed is the one that is loaded |
| code generator `src/epics/util`, displays `src/dv`, `src/nds`, `src/args`, `src/simple_pv`, `src/util`, `src/pcie_switch`, `src/fe_stream_test`, `src/catch` | none shared at run time | build-time or display tools, command lines, test drivers, third-party test header | nothing concurrent | not modelled |

The hazards, each at the line where it bites and with the properties that would
catch it, are in `PROJECT.json`.

## 2. Modules and plan

| Module | Models | Proofs |
|---|---|---|
| `CircBuffer`, `CircBufferMC` | the circular buffer of daqd | `CircBufferProofs` |
| `RunNumber`, `RunNumberMC` | run number server and its clients | `RunNumberProofs` |
| `RecvBuffer`, `RecvBufferMC` | receiver of the publish/subscribe stream | `RecvBufferProofs` |
| `SliceChannel` | abstract specification: what the receiver promises | refinement, checked and proved |
| `FrameXmit`, `FrameXmitMC` | frame broadcast: network writer, sender, UDP, receiver | `FrameXmitProofs` |
| `FrameChannel` | abstract specification: what the broadcast promises | refinement, checked and proved |
| `TestPoints`, `TestPointsMC` | test point manager and its scheduled tasks | `TestPointsProofs` |
| `FrontEndDaq`, `FrontEndDaqMC` | daqLib of every model composed with local_dc | `FrontEndDaqProofs` |
| `ModelIpc`, `ModelIpcMC` | signals between models, sender and receiver | `ModelIpcProofs` |
| `Ranks` | the k-th place of a set of places, as a loop over an array meets them; used by `FrontEndDaq` and `TestPoints` | in `NumberLemmas` |
| `NumberLemmas` | nothing: least and greatest elements, quotient and remainder, the numbering of places | the lemmas that the proofs about rings, seconds and places share |

Together they follow the data from a model's test point selection
(`TestPoints`, whose index `FrontEndDaq` reads as `gds`), through the blocks of
shared memory (`FrontEndDaq`) and the network (`RecvBuffer`), into the ring of
daqd (`CircBuffer`) and out of it by broadcast (`FrameXmit`), with the run number
that the frames carry (`RunNumber`). The modules are checked one by one: each
pair meets in one variable (the index of test points, the slices, the ring's
puts) and a product of two would be out of TLC's reach.

Every invariant, action property and refinement that a passing run checks is also
proved for every value of the constants, some under hypotheses that their sections
name. What stays with TLC is liveness, which the prover does
not handle: `PutCompletes`, `GetReturns`, `NewestIsDelivered`, `RecoveryEnds` and
`ExpiredGoes`.

What is left, in this order:

1. An abstract specification of the ring (a log with one cursor per consumer).
2. `DaqdThreads`: producer, trenders (consumers that feed a second ring), frame
   savers and net writers over `CircBuffer`, with start-up and shutdown.
3. `Mbuf`, and the switching logic of the filter modules.

## 3. `CircBuffer`: the circular buffer

### State

The variables are the fields of `circ_buffer_t` and `circ_buffer_block_t` under
their own names, masks (`cmask_t`, a bit per consumer) as sets of slot numbers.
`data[b][p]` is the number of the second whose samples are stored in part `p` of
block `b` (-1: zeroed). `ppc`, `pop`, `nbi` and `nbi16th` are the producer's
program counter and locals; `pc`, `kind`, `cnum`, `op`, `still_busy` those of
each consumer thread; `cursor`, `window`, `first_block` the locals of the one
thread inside `add_transient_consumer` or `delete_consumer`. `last_seq` and
`dropped` are history variables for the properties.

### Steps

The grain is one step per critical section, and finer where the code stores two
things that a thread with another lock can see apart:

- a put is `PutCall`, `PutTest` (and `PutSleep`/`PutSpuriousWakeup` while the
  block is busy), `PutFill`, `PutPublish` and/or `PutPublish16th`, or `PutDrop`
  for `put_nowait`, then `PutSignal`. The six puts differ only in how they copy,
  in the test (`put_nowait*` do not wait) and in the unit (`put16th_*` work on a
  sixteenth and mark the block with the last one). The two stores of the last
  sixteenth (`busy`, then `busy16th`) are two steps.
- a get is `GetCall`, `GetTest` or `Get16thTest`, `GetSleep`; a held block is
  given back by `Unlock` (the bit, under the block lock) and `UnlockDone` (the
  broadcast and the index, under none). `noop` is `NoopTest` then `UnlockDone`.
- `AddConsumer` is one step; `AddTransient`, `MarkBlock`, `AddTransientDone` and
  `DeleteConsumer`, `ClearBlock` take one step per block, because the producer
  holds block locks without the buffer lock.

Mutexes are not variables: who holds one follows from the program counters
(`BufferLocked`, `BlockLocked`). A broadcast sends every sleeper to the test of
its loop; a signal made while nobody sleeps is lost, as in POSIX, and spurious
wakeups are steps. Stores are taken to be seen in program order (x86-64) and the
store of a `cmask_t` to be one step.

Consumers follow the protocols of their callers: savers and trenders loop over
get and unlock; fast consumers read the parts that are left of a block and call
`unlock16th` after the last; transient ones read with `get_nowait` until it
fails and sign off.

### Runs

| Run | Instance | Shows |
|---|---|---|
| `CircWhole` | 2 clients, one there from the start; normal or transient; 2 slots, 3 blocks, 4 puts; put, put_nowait; get, noop; an absolute and a last-two-seconds playback | `TypeOK`, `NoOverwriteWhileHeld`, `InOrderNoGap`, `RegistrationConsistent`, `TransientComplete`, `PlaybackSelectsLast` |
| `CircParts` | 2 clients (symmetric), slow or fast; 2 blocks of 2 parts, 5 puts; put16th | `HeldDataIsOneSecond` |
| `CircLive` | 2 clients with `timed_get`, 2 blocks, 3 puts, fairness | `PutCompletes`, `GetReturns` |
| `CircLostWakeup` | 1 client with `get`, 2 blocks, 4 puts, fairness | violates `GetReturns` |

Two blocks are enough for the producer to lap a consumer, two parts for a fast
consumer to be inside a block, two clients for sign-off to race sign-on and for
`still_busy` to matter, two slots for a slot to be used again; the puts let the
producer lap everybody. The playback arithmetic needs a third block. Only
`CircLive` and `CircLostWakeup` switch off deadlock checking: there the producer
stops after `MaxPuts` puts and, with nobody signing off, the consumers rest.

No run uses `put16th_dpscattered_lost`, which nothing in the repository calls and
which differs from `put16th_dpscattered` in the data only: mixing the two
multiplies the states of `CircParts` by eighteen. The theorems below hold for every
choice of put calls, this one included.

**Lost wakeup** (`CircLostWakeup`). `put` stores `busy` under the buffer lock and
broadcasts `notempty` under none; `get` tests `busy` and waits under the block
lock. Between the two the store and the broadcast can happen, and the consumer
sleeps on a filled block until another broadcast for that block, which comes
only after the producer has gone round the ring, where it waits for this
consumer. `timed_get`, which the trend threads use, tests again after its
timeout, so `CircLive` passes.

`bfree`, which changes nothing, is not part of the model. It takes "indices equal,
block not busy" to mean an empty ring, which is wrong between the two steps of
`unlock`.

### Fairness

Strong fairness for each thread's own steps inside a call: taking a mutex is
enabled only while it is free, and a thread that waits for a mutex which is free
again and again gets it. No fairness for calling put, for signing on or off, or
for spurious wakeups. Consumers call get again, as their loops do; a timed wait
times out.

### Proofs (`CircBufferProofs`)

For every number of clients, slots, blocks and parts, from the assumptions named
in `CircBuffer` (sizes positive, a ring is fed either whole blocks or parts,
preset consumers fit in the slots):

- `Invariance`: `Spec => []IndInv`;
- `TypeCorrect`: `Spec => []TypeOK`;
- `NoOverwrite`: `Spec => []NoOverwriteWhileHeld`.

`NoOverwriteWhileHeld` is not inductive. A slow reader has its bit in `busy`
(`HeldInv`), so the producer that has seen `busy` empty under the block lock
(`ProducerInv`) works on another block. That needs: nobody else clears the bit,
that is, two registered threads never share a slot (`SlotInv`) and a thread that
signs off clears its own slot only (`LockInv`, `BusyInv`). A fast reader may have
a part of a block whose `busy` is still empty: there the argument is
`Busy16thInv`, which says that such a part is behind `next_block_in_16th` in the
very block the producer works on. The store of `busy` before `busy16th` is what
makes the last part fit (`ProducerInv`, the `publish16th` conjunct). One lemma
per action shows that it keeps `IndInv`.

### Proofs of the order (`CircBufferProofs`, second part)

On top of `IndInv`, in a ring of any size with any number of consumers:

- `Registrations`: `RegistrationConsistent`, the code's own `invariant(1)`, without
  further hypothesis;
- `BlocksInOrder` (`InOrderNoGap`), `OneSecondIsRead` (`HeldDataIsOneSecond`) and
  `TransientGetsAll` (`TransientComplete`), under `StampedRequests`;
- `PlaybackIsExact` (`PlaybackSelectsLast`), under `StampedRequests` and
  `RegularStamps`, one block each block period.

`RosterInv` adds to `IndInv` that each bit of `tcmask` belongs to a registered
thread and that the counters are the sizes of the masks. `OrderInv` has five parts.
`FillInv` and `SeqInv`: blocks are written in order, and the block after b was put
right after it, up to puts that were dropped. `DataInv`: a block that is not being
filled has the samples of its second in every part. `QueueInv` is the heart: the
blocks that have a consumer's bit are an unbroken run from the block it reads next
(`Run`), for consumers that are not transient up to the block that is filled next,
and the last block read was put right before this run (`Follows`). It has to speak
of a consumer between the two steps of `unlock` (`At`) and of the producer in the
middle of a second (`Settled`). `MarkInv` is its counterpart while
`add_transient_consumer` goes over the ring: the marks so far are a run, and after
the first unmarked block everything is beyond the window.

`StampedRequests` is needed. A request with time 0, or for less than a block period
on a ring that was not filled yet, also matches blocks that were never written
(their stamp is 0), which are then handed to the consumer; the callers in the
repository ask for whole seconds that exist.

Only model-checked: `PutCompletes` and `GetReturns`, as the prover does not handle
fairness.

## 4. `RunNumber`: the run number server

### State

`file` is the backing store, a sequence of lines with a number and a hash in
hexadecimal digits; `state` is `run_number<>::_state`. A hash is a sequence of
bytes. `ToHex` writes two digits per byte as `save_state` does, and
`hex_char_to_nibble` and `hex_to_bin_str` read them back as the code does, which
is not the inverse for digits above nine. `requests` and `saving` hold what the
server has yet to handle and the request it is saving; `conn`, `resp`, `hash`
and `number` are the connection, the response on its way, the configuration and
the run number of each daqd. `issued` is a history of what was handed out.

### Steps

The server has one thread, so requests are handled one at a time, but a crash
can fall between any two of its effects: `Save` (the append to the file) and
`Swap` (the change of memory and the response) are two steps, `AnswerKnown` and
`Refuse` one. `Crash` loses memory and sockets; `Restart` reads the last line of
the file. A client asks only while it has no number (`Request`), takes the answer
(`Receive`), or gives up after its timeout (`Timeout`) while the server goes on
with the orphaned request; `ClientRestart` starts a daqd with perhaps another
configuration.

### Runs

| Run | Instance | Shows |
|---|---|---|
| `RunNumberText` | 2 clients (symmetric), two text hashes, one too long and one empty, numbers to 3, 2 crashes | `TypeOK`, `NumberIdentifiesHash`, `ClientNumberIsItsOwn`, `NeverGoesBack`, `RestartRemembers` |
| `RunNumberBinary` | 1 client, hashes of arbitrary bytes | violates `StoreRoundTrips` |

Two clients are enough for one to move the server on while the other waits or
has given up; three numbers let the server leave a hash and come back to it; two
crashes hit a save and what follows it. Deadlock is not checked: with the numbers
used up, a client that has its number and a server that is idle have nothing
left to do, and the number of crashes is bounded.

**Letters** (`RunNumberBinary`). `hex_char_to_nibble` returns `ch - 'a'` for a
letter, without adding ten. A hash byte with a nibble above nine comes back as
another byte, so a restarted server does not know its own last hash. daqd sends
its hash as hexadecimal text, whose characters (0x30-0x39, 0x61-0x66) have decimal
nibbles only; that is the hypothesis `TextOnly`.

**Unsaved numbers**. `save_state` ignores the state of its ofstream: the number
is handed out although nothing is on disk, and after a restart the same number
goes to another configuration. The constant `SaveMayFail` switches this on;
`NumberIdentifiesHash` then fails, so runs and proofs take saves to succeed.

### Proofs (`RunNumberProofs`)

For any clients, hashes, bounds and crashes, assuming `TextOnly` and that saves
succeed (both are needed):

- `NumbersAreUnique`: `NumberIdentifiesHash` always holds;
- `NumbersAreOwn`: `ClientNumberIsItsOwn` always holds.

The lemma `RoundTrip` shows that decimal digits survive the text encoding. The
invariant `IndInv` then says: memory equals file except during a save, when the
file is exactly one number ahead with the hash being saved (`StoreInv`); nothing
above the file's number was handed out, nothing above memory's during a save, and
the file's own number only for its hash (`IssuedInv`); a request under way
carries the hash its client still has (`ClientInv`). The second part is what
makes a crash between `Save` and `Swap` harmless: the number on disk was handed
out to nobody, so the restarted server may hand it out for the hash on disk.

- `NumbersNeverGoBack` (`NeverGoesBack`) and `NumbersSurviveRestart`
  (`RestartRemembers`) follow from the same invariant and hypotheses;
- `RunNumberTypes` (`TypeOK`) needs neither hypothesis; what it needs besides types is that a
  number that is being saved is still below the bound (`SavingFits`).

## 5. `RecvBuffer`: the receiver of the stream

### State

A `gps_key` is a number that counts cycles. `entry` is `buffer_` with, for each
entry, its `latest` key, the headers in `ifo_data` (as `dcuId` and key),
`is_late_`, and a history `msgs` of how many messages it took. `latest_`,
`late_entries_` and `discarded_entries_` are the members of `receive_buffer`.
Each callback thread has a program counter, its key and the `old_key` of its
compare-and-swap loop; the main loop has its own, with `last_received`. `queued`
is the length of the queue to the statistics thread. `delivered` is what the
recorder wrote, in order. `now` is the publishers' cycle and `arrived` a history
of the copies that reached an entry: a message may be ingested up to `MaxCopies`
times at any time from its cycle on, or never.

### Steps

`Ingest` is the critical section of the entry's mutex: discard an older message,
clear the entry for a newer one, count a late one, copy headers until the entry
is full. `LoadLatest` and each turn of `CasLatest` are separate steps, as other
threads run between them. The main loop is `Poll`, `ProcessSlice` (after the
delay: compare, copy to the output), `Emplace` (wait for room in the queue and
set `is_late_`; the entry's mutex is held from the comparison to here,
`EntryLocked`), `Report` (once a second the counters go to the totals), and the
statistics thread is `Pop`. The configuration without statistics is the one in
which the queue always has room. `Message_queue` is a monitor (every wait is a
loop under its mutex), so its operations are single steps.

Malformed messages change nothing and are not steps (`WellFormed`). The first
message of a cycle always fits, since it has at most `DAQ_TRANSIT_MAX_DCU`
headers; sizes in bytes are not modelled. A message is assumed to have at least
one header with a `dcuId`, as all publishers in the repository send: the recorder
takes the output slot from the entry's first header.

### Runs

| Run | Instance | Shows |
|---|---|---|
| `RecvRace` | 2 threads (symmetric), 1 publisher with two models and an empty header, each message up to 3 times for entries of 5 headers, 2 entries, no delay, 3 cycles | `TypeOK`, `ImplementsChannel`, `EveryMessageAccounted`, `WokenForStoredCycle` |
| `RecvLive` | 2 threads, 1 publisher, 3 entries, 1 cycle of delay, 5 cycles, fairness | `NewestIsDelivered` |

The last cycles of each run use an entry again; a queue of one slice can be full;
the cycles span a second boundary, so totals are moved while messages are late.
A second copy is late for the slice that the first one woke the main loop for,
and three copies overfill an entry. Deadlock is not checked: when the messages of
the bounded time are used up everybody rests.

`SliceChannel` is the abstract specification: a sequence of slices, each for a
later cycle than all before, each with headers of its own cycle only. It leaves
open which cycles come out. In particular a cycle is skipped without a trace when
`latest_` moves by two between two polls; nothing in the repository promises
otherwise.

Fairness is weak: the main loop and the statistics thread never stop, and a
callback that has stored a message goes on to announce it. None of these steps
can be disabled by another thread for ever. Arrival of messages has no fairness.

### Proofs (`RecvBufferProofs`)

For any numbers of threads, publishers, entries, cycles of delay, headers, copies
and cycles, from the assumptions named in `RecvBuffer` (sizes positive,
`BufferCycles` at most N - 2 as `main` enforces; the two facts about `SelectSeq`
in `ModelsAssumption`, which TLC evaluates on each run's constants, and finitely
many publishers):

- `RecvTypeCorrect`: `TypeOK`;
- `StoredBeforeAnnounced`: `WokenForStoredCycle`;
- `Refinement`: `Spec => ImplementsChannel`;
- `MessagesAreAccounted`: `EveryMessageAccounted`.

`IndInv` has three parts besides types. `OneCycleInv`: the headers of an entry
carry its `latest`, because a newer key clears first and the early return of a
full entry happens only when the key is already there. `StoredInv`: every key a
callback is about to announce, `latest_` and `last_received` are stored, which is
stable because no entry goes back. `OrderInv`: the main loop only goes forward
because `latest_` does, and before it hands a slice on everything handed on is
older. The refinement maps `delivered` to itself; only `ProcessSlice` changes it,
and `SliceIsAcceptable` shows that its slice is one the channel allows.

`EveryMessageAccounted` compares the sizes of three sets: the copies of messages
that reached an entry (`Copies`), the messages in slices (`InSlices`), and the
counters. It is not inductive: a step has to know that the message it counts, or the
slice it hands on, is not already on the other side. `AccountInv` (theorem
`Accounts`) adds to `IndInv` three parts. `TakenInv`: an entry has taken exactly the
copies of its `latest` key that arrived, and a key with copies is in its entry or
overtaken there. `LateInv`: an entry is marked late exactly when the slice of its key
was handed on; between the comparison and `Emplace` this holds only because
`process_if` keeps the entry's mutex, which is where the mutant without that lock
fails. `CountInv`: the two sides of the account, the second one sharpened: no copy of
a key that may still be handed on (`Pending`) is counted or in a slice. Each action
then moves one copy, or the copies of one key, from one set to another, and the
lemmas on `Copies` (`CopiesIn`, `Bumped`) say by how much the sizes change.

Only model-checked: `NewestIsDelivered` (liveness).

## 6. `FrameXmit`: the frame broadcast

### State

A frame is a number; its sequence number is that number modulo `SeqMod`, and its
bytes are abstracted to the number of the frame they came from, so that a buffer
used again too early shows in the data. The network writer has a pool of radio
buffers (`bufdata`, `inUse`) and a thread (`wpc`, `wbuf`); `buffers`, `curbuf` and
`skippedDataBuffers` are the members of `frameSend`; `dpc` is the transmit daemon. `net` and `reqs`
hold every packet and request ever sent: taking one late, twice or never is how
UDP delays, repeats and loses. `pkts`, `first`, `oldseq` are the members of
`frameRecv`, the rest locals of `receive`. `pkts` is a set because the code keeps
the list sorted by `operator<` (`Before`) without duplicates; `Front` and
`Leading` are its front element and the run the loops take from it.

### Steps

`send` runs under the mutex of the queue (`Enqueue`: the three ways to put a
frame in; the destructor of the frame dropped at the front gives its radio buffer
back). With the queue full of unsent frames `send` flushes it (`SendOverload`): the
frames after the one being sent are destroyed and counted, the new one is queued, and
the process aborts. Point 3 of the comment of `send` in `framesend.hh:181-182`
describes the removal, but neither the abort, after which the rest of the queue is
lost as well, nor that the frame being sent stays. The daemon assembles a burst under that mutex and sends it without
(`XmitBurst`), then polls for at most one request (`Retransmit`, `NoRequest`).
Sending may fail after part of a burst, which closes the socket and ends the
daemon. The receiver reads at most one packet a turn (`GetPacket`) and then takes
one branch of its loop: `AskFirst`/`WaitFirst`/`GiveUpFirst` when only later
sequences are there, `ExitOutOfSync`, or `TakePackets` and, once the sequence is
done, `Complete`, `AskMissing`, `WaitMissing` or `GiveUp`. Whether the timer has
expired is a choice of the step. The code that would skip frames ends the process
instead (`abort`, `exit`), and so do these actions.

`LowerBound` is `std::lower_bound` as a binary search, because around the wrap of
the sequence numbers the queue is not ordered by the comparison it is given.

### Run

`FrameXmit`: 4 frames of one or two packets, numbers 14 to 17 modulo 16, 3 radio
buffers for a queue of 2, bursts of one packet, 2 retries, a packet list of 3, and
a network that may do everything. The bounds make a frame be evicted while it is
being asked for, the list run full, the wrap fall into the middle, and a full queue
be flushed with an unsent frame in it.

- `QueuedDataIntact`: as long as a frame is queued its radio buffer is in use and
  holds it; this is the contract in the comment of `send` in `framesend.hh`.
- `PoolSuffices`: the writer never aborts for want of a buffer.
- `AcceptedIsSent`: until the socket fails, what `send` accepted was sent in full or
  is still to come; the only other frames are those the flush dropped, which are as
  many as `skipped()` returns, and they exist only once the process has aborted.
  Nothing is claimed of what then is left in the queue of the dead process.
- `ImplementsChannel`: `receive` returns what `FrameChannel` allows, whole frames
  that follow one another without gap or repetition.
- `RecoveryEnds`: once a later sequence has been seen, `receive` returns or ends.

`RecoveryEnds` assumes weak fairness of the receiver's thread and strong fairness
of the branches the expired timer opens: time passes, so a wait cannot be chosen
for ever. Sender and network have no fairness at all, so it also holds when the
sender is dead. Deadlock is not checked: after the last frame both sides rest, and
aborted processes stay so.

### Proofs (`FrameXmitProofs`)

For any frames, radio buffers, queue length, burst, packet list and numbers of
retries, from `SizesAssumption` and `FramesAssumption` (the pool has more buffers
than the queue is long; a frame has at least one packet):

- `FrameTypes`, `QueuedFramesIntact`, `WriterFindsBuffer`, `AcceptedFramesAreSent`:
  the four invariants of the run;
- `ReceiverRefinesChannel`: `NoWrap => (Spec => ImplementsChannel)`.

`IndInv` ties the queue to the frames: it is the window of the last accepted frames,
with a gap before the last one after a flush (`FrameAt`), and the cursor divides it into complete and untouched ones (`QueueInv`); a radio
buffer is in use exactly as long as one element of the queue refers to it, so a
queue at its limit still leaves one free (`RadioInv`); packets on the network are
what their frame says, whatever the network does with them (`NetInv`); what left the
queue at its front was sent in full (`SentInv`). The refinement adds `CopyInv`: during `receive`
everything copied is of the one accepted frame with the number `newseq`, and
`OutInv`: the last frame returned is the one numbered `oldseq`. For a
retransmission nothing has to be known of `LowerBound`, a binary search in a list that
is not sorted around the wrap: the code compares the number it finds.

`NoWrap` says that fewer frames than `SeqMod` are sent altogether. With `SeqMod` =
2^32 and a frame a second that is 136 years; without it a packet that the network
kept for a whole round would be taken for a new one. The run has the wrap of the
numbers inside (14 to 17 modulo 16), and so have the proofs: numbers are compared
modulo `SeqMod` throughout.

Only model-checked: `RecoveryEnds` (liveness).

## 7. `TestPoints`: the test point manager

### State and steps

`indx` is `tpNode.indx`: for every slot of an interface the test point and its
users, each with client, timeout and time of request. Time is in half seconds,
since `TESTPOINT_UPDATE_EPOCH` is the middle of a second. Remote calls are served
by one thread: `Request` up to the release of `servermux`, `Reply` for the
activation time that is computed after it, `Clear`, `ClearAll` followed by
`SetPreselect` in a second critical section. The scheduled tasks are `Cleanup`
(one interface per critical section) and `UpdateCopy`/`UpdateWrite` (the copy
under the mutex, the store into shared memory without). `Projected` counts test
points as the code does, including the ones it counts although they are already
selected. The loops over the list of a request and of a clear are recursive
functions from the number of turns done to the state after them (`SetTurns`,
`ClearTurns`). `ReapSlot` removes users as the loop does, stepping over the one after
a removed one: of a run of expired users every second one is left (`Survivors`).
Timeouts are 0 or positive; a negative one, which the code treats as none, is not
tried.

A request that fails half way calls `cleartp_1_svc` with `servermux` held, and
`cleartp_1_svc` takes it again; `MUTEX_CREATE` makes a mutex of the default kind,
so on Linux the thread and, after it, both tasks wait for ever. The model has this
as `rpc = "stuck"`: time goes on, the update waits (`Tick`), and an activation time
that was already promised passes without the test point in shared memory. `HoldsKept`
and `ActivationKept` name this state as their exception; `OneSlot` has none.

### Run

`TestPoints`: 2 clients, 3 test points (one preselected), 4 slots, 2 users per
slot, 3 calls, 2 seconds, uses with and without timeout, a list of two test points
with a number between them that is none.

- `OneSlot`: however clears and timeouts leave holes, a test point has one slot. The
  second list leaves a hole before the slot of 1 when its uses expire and the other
  client has kept 1; the next request of 1 has to search past it.
- `HoldsKept`: the uses without timeout of a client are what it asked for and did
  not give back; nobody else's call or timeout takes one.
- `ActivationKept`: from the second that the reply named, the test point is in
  shared memory. It assumes that an update begun in the middle of a second is
  written before its end (`Tick`), unless it waits for `servermux` in a service that
  is stuck.
- `ExpiredGoes`: an expired use goes away, under weak fairness of the clean-up task,
  which the scheduler repeats every second.

Three calls let two uses of a test point coexist with the removal of one; more
clients than users per slot make a slot run full, and the failure path is reached.

### Proofs (`TestPointsProofs`)

For any clients, test points, interfaces, numbers of slots and of users of a slot,
for lists of any length, any timeouts and any room for data, from `TpAssumption`
(test points are positive numbers, each with an interface; interfaces are numbered
from 0; sizes are positive; lists are sequences of numbers):

- `TestPointTypes`: `TypeOK`;
- `TestPointOnce`: `OneSlot`;
- `TestPointHolds`: `HoldsKept`;
- `TestPointActivation`: `ActivationKept`.

All follow from `TestPointInvariance`, that `IndInv` holds in every reachable state.
It has three parts besides types and `ActivationKept`. `HoldInv`: a test point has one
slot, and the uses without timeout in that slot are, client by client, the history
`held` (`Agree`); when the service is stuck in a failed request only this is left, that
what is held has a slot. `PromiseInv`: promises exist only for what is held, are even
(the beginning of a second), and between `Request` and `Reply` the whole list of the
request is held. `UpdateInv` makes `ActivationKept` inductive: what is due by the end
of this half second is in the interfaces the update has already written, and in the
copy it has taken but not written, unless the service is stuck. A new promise never is: `ActivationTimeFacts` shows
that it is more than a half second away, the step that fails without the test for the
middle of the second.

The loops are handled by induction on the number of turns. `SetTurnsEquation` and
`ClearTurnsEquation` show that the recursions have a solution, by extending one for k
turns to k + 1, so that each turn can be taken from the one before; `SetInv` and
`ClearInv` hold between the turns (`SetOneKeeps`, `ClearOneKeeps`), and the least
turn at which they would fail leads to a contradiction. The uses in a slot are counted
through bijections: `MineThinned` says that a sequence which keeps some places of another
keeps the client's uses at those places, and is applied to the removal of one user
(`MineRemoved`) and to the survivors of a clean-up (`ReapFacts`), among which are all
users whose time is not over (`SurvivorsFacts`).

Only model-checked: `ExpiredGoes` (liveness).

## 8. `FrontEndDaq`: from the models to local_dc

### State and steps

`fe` holds the static variables of `daqWrite` for each model, `shm` what it
leaves in shared memory: cycle word, times of the blocks, the test point table,
the blocks. A block is represented by its number and by the signal in each test
point column. `Publish` stores header words and table at a block's last sample;
`Announce` stores the cycle word and does what `daqWrite` does after it:
reconfiguration, the check of the selection at the end of a second
(`CheckSelection`), the update of the table for the network (`UpdateNet`), and the
columns with which the next block is filled. local_dc waits for the IOP
(`DcSeeIop`), looks at the other models until its polls run out (`DcSeeModel`,
`DcPolled`), and copies header and data of each ready model in two steps
(`DcHeader`, `DcCopy`).

The cycle word, the times and the table of a header are loads that follow one another
(`local_dc.c:231`, `251-261`); `DcHeader` takes them at one moment. For `MaxLag` = 0,
as in the run, nothing can come between them; for a larger one `LabelsMatch` rests on
this. The sizes of data, and with them the exit of local_dc on overflow, are left out,
and so are test point numbers out of range, which the check skips. After a
reconfiguration that moves the rows of the test points the code finds other contents in
them, and a test point that stays selected keeps such a row; the model has 0 there,
and `LabelsMatch` excludes reconfigurations.

Nothing in the code locks these against each other. `OnTime` states what keeps
them apart in practice: the models share a clock, and local_dc copies within
`MaxLag` blocks of seeing the IOP's cycle word.

### Run

`FrontEndDaq`: IOP and one user model, seconds of 3 blocks, 7 blocks, 2 test point
columns, 3 selections in which the excitation changes its slot, one reconfiguration,
one stop of a model.

- `BlockIntact`, `RunningTogether`: what is sent under a time are the data of that
  time, and the running models in a slice agree on it. The first block after a start
  is excluded: `DAQ_CONNECT` puts its data in the last place and announces place 0.
- `LabelsMatch`: the test point numbers in a header are those of the columns, both
  ways. Two exceptions are stated in it: block 0 of a second, which goes out with the
  table of the second before (the table is updated after block 0 is announced,
  while its columns were laid out before it), and headers whose cycle word shows
  that the model went on while local_dc was copying. After a reconfiguration the
  columns are gone until the next check.
- `TableIsSelection`: after a check every selected test point is in the table once,
  nothing else is, and an excitation is read from the slot the manager gave it.
- `SlicesAdvance`: no slice repeats a block of the IOP.

A stopped model keeps its last cycle word, and local_dc resets cycle words only at
its own start: the model's last block is sent again every second with the status of
a running one. `RunningTogether` therefore speaks of models that run.

Deadlock is not checked: time is bounded, and local_dc may have given up.

### Proofs (`FrontEndDaqProofs`)

Every property of the run, for up to 10 models (the length of `dataRdy` in local_dc)
and any number of blocks a second (3 to 49), columns and selections: `DaqTypes`, `BlocksAreIntact`, `SlicesAreOfOneTime`, `SlicesOnlyAdvance`
(the action property), `LabelsAreRight`, `TableIsRight`. The assumptions:
`MaxLag <= NB - 3` (with the code's 16 blocks local_dc may be 13 late: one block is
being filled, one may have been announced since the cycle word was seen), and
`SelectionsAssumption`, which is the comment in `daqLib.c` that the lists of test
points and excitations do not intersect, and that the manager gives a test point one
slot (`OneSlot`).

`IndInv` says where things are in time. No model is more than a block ahead of one
that runs (`ClockInv`); memory has the last NB headers and blocks (`MemoryInv`);
what local_dc has seen, taken the header of or copied is still due (`Due`:
complete, at the place being collected, and less than NB blocks old), the IOP's
block being exactly the one before `seen` (`CollectInv`, `SliceInv`). `Due` is what
makes cycle words unambiguous: two blocks at the same place are NB apart, so a model
has at most one that is due (`DueUnique`), and a model seen with the same cycle word
as the IOP is of the same time if it runs. `SentInv` keeps the IOP's time of the
last slice behind the block that is due.

`LabelInv` is the invariant for the labels: the table in use and the one for the
network differ in block 0 only (`TablesInv`), memory has the network's table once a
block was stored with it (`StoredInv`), and the last two blocks were laid out by it
(`ColumnsInv`). `ServeInv` is the one for the table: it has nothing that is not
selected, nothing twice, and no free slot while something is missing (`Serves`); the
sizes that `TableIsSelection` speaks of follow by counting. The loops of the check
are not recursive in the model: the k-th new number goes to the k-th free slot
(`Rank`, `Nth`), and `RankFacts`, `NthFacts` show that these are inverse to each
other.

## 9. `ModelIpc`: signals between models

One channel with `IPC_BLOCKS` places; the value for a tick is the tick. The sender
stores value and sync word in two steps (`SendData`, `SendSync`), at once or over a
network that delivers in order within `Latency` (`Deliver`); the receiver loads them
in two steps in the same order (`RcvData`, `RcvSync`). Rates, the kind of link
(with and without `RFM_DELAY`, or no card) are chosen at the start. The sender may be
late by `MaxLate` ticks, stop between its stores, and start again on a second.

Run `ModelIpc`: seconds of 8 ticks, 4 places, equal and different rates, 11 ticks, so
that the end of a second and the reuse of places happen.

- `TakenIsCurrent`: a value that is taken is the one for the cycle. The exception,
  part of the property: the receiver loads the value first, so when a late
  sender stores value and word between the two loads the old value is taken with the
  right word. Without the exception TLC finds this case, although the comment at
  `commData3.c:387` says that with equal words the data are good. When only the word
  is stored between the loads the value is right, and the property says so.
- `PresentIsTaken`: a value that is there with its word is taken, over the end of a
  second and at all rates but one: a sender at 2048 Hz with `RFM_DELAY` is left out.

`PlacesSuffice` leaves out rates at which a place is stored into again before the
receiver's cycle is over; with the code's 64 places that is a sender at 2048 Hz with
`RFM_DELAY`. Nothing in `commData3.c` excludes the combination, and
`src/fe/README:152-162` documents both settings (`rfm_delay=1`, `ipc_rate=2048`). Deadlock is not checked: time is bounded.

### Proofs (`ModelIpcProofs`)

`IpcTypes`, `ValuesAreCurrent` (`TakenIsCurrent`) and `ValuesAreTaken`
(`PresentIsTaken`), for any number of places, any rates that divide the second and
satisfy `PlacesSuffice`, any latency and lateness. `IndInv`: the counts of sender and receiver say which tick each
is in, also over the end of a second and after a restart (`CountInv`); every place
has the value and the sync word of a tick that belongs there (`MemInv`); stores on
their way are those of the sender's last cycles in order (`NetInv`); a value that
was loaded was in its place, and `crossed` is set if another was stored since (`LoadInv`).
`PlacesSuffice` is what lets a sync word stand for one tick: two ticks with the same
place and the same word are a second or a round of places apart.

## 10. What is not modelled

The components with status `not_modelled` in `PROJECT.json`, each with its reason.
The repository has some 228 000 lines. Most of them are outside what such
models are for: third-party code (`src/catch`, Dolphin and Myrinet libraries),
X/Motif displays (`src/dv`), the numerics of filters and waveforms
(`fm10Gen.c`, `awg.c`), register access to ADCs, DACs and clocks, parsing and
generated text (`comm.y`, the EPICS databases, the code generator), simulated
front ends and test programs. The modules cover the places where threads,
processes or machines meet over shared state or a network; what is left of that kind
(daqd's threads around the ring, mbuf, the older streamers, the settings tables of
the sequencer) is in the plan of section 2.

Limits of the modelled parts that a reader should know:

- the machine is not taken to crash while a line of the run number file is being
  written, so half lines do not occur;
- bytes are abstracted: `buffer_entry::ingest` does not advance its input over the
  data of a header without a `dcuId`, which is harmless only because no publisher in
  the repository sends such a header with data;
- test points of clients that die without clearing them stay (the removal by
  keep-alive is disabled with `#if 0`, although the comment of `keepalive_1_svc`
  describes it);
- when the last packet of the newest broadcast frame is lost, the receiver learns of
  it only from the next frame;
- liveness properties are checked by TLC only: the prover does not handle fairness.
