---------------------------- MODULE FrontEndDaq -----------------------------
(***************************************************************************)
(* How a front end's data leave it: daqWrite of every real-time model      *)
(* (include/drv/daqLib.c) fills the blocks of a second in shared memory    *)
(* and announces each with its cycle word; local_dc (local_dc/local_dc.c)  *)
(* waits for the cycle words, collects the block from all models that are  *)
(* ready and hands the collection on.  Nothing but the order of stores and *)
(* the time a block stays in memory keeps them apart.                      *)
(*                                                                         *)
(* Model 0 is the IOP.  Blocks are counted from the start of the models,   *)
(* block number t is written to place t % NB.  Samples, EPICS data and     *)
(* decimation are left out: of the data a block holds, the model keeps     *)
(* which block it is of and which signal is in each test point column.     *)
(***************************************************************************)
EXTENDS Integers, Sequences, FiniteSetsExt, Ranks

CONSTANTS
    NSys,        \* models of this front end, at most 10 (dataRdy)
    NB,          \* DAQ_NUM_DATA_BLOCKS_PER_SECOND
    MaxTp,       \* DAQ_GDS_MAX_TP_ALLOWED
    Selections,  \* lists [tp, exc] the test point manager may have in memory
    Unselected,  \* the one without test points
    TpModels,    \* models whose selection or configuration changes
    MaxLag,      \* blocks local_dc may be late with copying
    MaxSelects, MaxReconfigs, MaxStops,   \* bounds, for model checking
    LastBlock                             \* bound on time

Models == 0..(NSys - 1)
Places == 0..(NB - 1)
Slots == 1..MaxTp
NoCycle == 50       \* "impossible number" of waitNextCycle2
Unwritten == -1     \* a column, or a block, of older data

ASSUME DaqAssumption ==
    /\ NSys \in 1..10 /\ NB \in 3..49 /\ MaxTp \in Nat \ {0}
    /\ MaxLag \in 0..(NB - 3) /\ Unselected \in Selections
    /\ \A g \in Selections : g.tp \in [Slots -> Nat] /\ g.exc \in [Slots -> Nat]
    /\ TpModels \subseteq Models
    /\ MaxSelects \in Nat /\ MaxReconfigs \in Nat /\ MaxStops \in Nat
    /\ LastBlock \in Nat

\* "tpnum and excnum lists of numbers do not intersect", and neither has a
\* number twice: the manager gives a test point one slot.
ASSUME SelectionsAssumption ==
    /\ \A g \in Selections, i, j \in Slots :
        /\ g.tp[i] # 0 => g.tp[i] # g.exc[j] /\ (i # j => g.tp[i] # g.tp[j])
        /\ g.exc[i] # 0 /\ i # j => g.exc[i] # g.exc[j]
    /\ \A i \in Slots : Unselected.tp[i] = 0 /\ Unselected.exc[i] = 0

VARIABLES
    running,   \* models that have not stopped
    fe,        \* static variables of daqWrite, one record per model
    shm,       \* shared memory of each model: dipc, tpPtr and the blocks
    gds,       \* test point lists in memory, written by the manager
    dpc, nextCycle, dataRdy, todo, header, seen,  \* local_dc
    slice,     \* ixDataBlock
    sent,      \* the last slice announced with curCycle
    selects, reconfigs

dcVars == <<dpc, nextCycle, dataRdy, todo, header, seen, slice, sent>>
vars == <<running, fe, shm, gds, dcVars, selects, reconfigs>>

Nothing == [i \in Slots |-> 0]

\* Mutant of Block: the counter wraps one block too late.
BlockWrapsLate(t) == t % (NB + 1)

\* daqXmitBlockNum
Block(t) == t % NB

-----------------------------------------------------------------------------
(* Test point selection *)

\* Mutant of InTheLists: an excitation may have moved to another slot.
InTheListsAnywhere(g, n, offset) ==
    \E i \in Slots : g.tp[i] = n \/ g.exc[i] = n

\* in_the_lists: still selected, and an excitation still in the slot of the
\* waveform generator it is read from.
InTheLists(g, n, offset) ==
    (\E i \in Slots : g.tp[i] = n) \/ g.exc[offset] = n

\* The slots that keep their test point, and the places in a list with numbers
\* that no slot keeps: what in_the_lists has left of it.
Kept(s, g) == {i \in Slots : s.tpNum[i] # 0 /\ InTheLists(g, s.tpNum[i], s.offset[i])}
New(s, g, list) ==
    {i \in Slots : list[i] # 0 /\ \A k \in Kept(s, g) : s.tpNum[k] # list[i]}

\* The check for new test points, at the end of a second: deselected ones are
\* cleared, new ones go to the empty slots, test points before excitations.
\* (Numbers out of range, which the code skips, are in no selection.)
CheckSelection(s, g) ==
    LET kept == Kept(s, g)
        newTps == New(s, g, g.tp)
        newExc == New(s, g, g.exc)
        tps == Cardinality(newTps)
        rank(i) == Rank(Slots \ kept, i)
        isTp(i) == i \notin kept /\ rank(i) <= tps
        isExc(i) == i \notin kept /\ rank(i) \in (tps + 1)..(tps + Cardinality(newExc))
        num(i) == IF i \in kept THEN s.tpNum[i]
                  ELSE IF isTp(i) THEN g.tp[Nth(newTps, rank(i))]
                  ELSE IF isExc(i) THEN g.exc[Nth(newExc, rank(i) - tps)]
                  ELSE 0
        tpNum  == [i \in Slots |-> num(i)]
        validTp == Max({0} \cup {i \in Slots : tpNum[i] # 0})
    IN  [s EXCEPT !.tpNum = tpNum,
                  !.offset = [i \in Slots |->
                      IF isExc(i) THEN Nth(newExc, rank(i) - tps) ELSE @[i]],
                  !.localTable = [i \in Slots |->
                      IF i \in kept THEN @[i] ELSE tpNum[i]],
                  !.validTp = validTp, !.totalChans = validTp,
                  !.checked = g]

\* A new DAQ configuration is loaded: the channels of the test points are left
\* out until the next check, and their rows of localTable are lost if the
\* number of other channels has changed: 0 stands for what the rows of the new
\* places hold, and a test point that stays selected keeps such a row.
Reconfigure(s) ==
    [s EXCEPT !.totalChans = 0,
              !.localTable = IF s.reconfig = "moved" THEN Nothing ELSE @,
              !.reconfig = "no"]

\* The table for the network takes over the numbers.
UpdateNet(s) ==
    [s EXCEPT !.tpNumNet = [i \in Slots |-> IF i <= s.validTp THEN s.tpNum[i]
                                            ELSE @[i]],
              !.validTpNet = s.validTp]

\* Mutant of EndOfBlock: the network's table is updated a block later.
EndOfBlockLate(s, x, g) ==
    LET s1 == IF x = 0 /\ s.reconfig # "no" THEN Reconfigure(s) ELSE s
        s2 == IF x = NB - 1 THEN CheckSelection(s1, g) ELSE s1
    IN  IF x = 1 THEN UpdateNet(s2) ELSE s2

\* What daqWrite does with its tables after the announcement of block x.
EndOfBlock(s, x, g) ==
    LET s1 == IF x = 0 /\ s.reconfig # "no" THEN Reconfigure(s) ELSE s
        s2 == IF x = NB - 1 THEN CheckSelection(s1, g) ELSE s1
    IN  IF x = 0 THEN UpdateNet(s2) ELSE s2

-----------------------------------------------------------------------------
(* daqWrite *)

Clock(m) == fe[m].t

\* Assumptions on time: the models share a clock, and local_dc copies a block
\* at most MaxLag blocks after it saw the cycle word of the IOP.
OnTime(m) ==
    /\ \A n \in running : Clock(m) <= Clock(n)
    /\ dpc \in {"poll", "load"} => Clock(m) < seen + MaxLag + 1

\* The last sample of a block: its header and the test point table are stored.
Publish(m) ==
    LET x == Block(Clock(m)) IN
    /\ m \in running /\ fe[m].pc = "fill" /\ Clock(m) < LastBlock /\ OnTime(m)
    /\ shm' = [shm EXCEPT
                ![m].time[x] = Clock(m),
                ![m].count = fe[m].validTpNet,
                ![m].tpNum = [i \in Slots |->
                    IF i <= fe[m].validTp THEN fe[m].tpNumNet[i] ELSE @[i]]]
    /\ fe' = [fe EXCEPT ![m].pc = "announce"]
    /\ UNCHANGED <<running, gds, dcVars, selects, reconfigs>>

\* As the last step the cycle word; then the tables are brought up to date and
\* the next block is filled, with the columns they give.
Announce(m) ==
    LET x == Block(Clock(m))
        s == EndOfBlock(fe[m], x, gds[m])
        cols == [i \in Slots |-> IF i <= s.totalChans THEN s.localTable[i]
                                 ELSE Unwritten]
    IN
    /\ m \in running /\ fe[m].pc = "announce"
    /\ fe' = [fe EXCEPT ![m] = [s EXCEPT !.pc = "fill", !.t = @ + 1]]
    /\ shm' = [shm EXCEPT ![m].cycle = x,
                          ![m].data[Block(Clock(m) + 1)] =
                              [time |-> Clock(m) + 1, cols |-> cols]]
    /\ UNCHANGED <<running, gds, dcVars, selects, reconfigs>>

\* The EPICS sequencer asks for a new configuration.
RequestReconfig(m, how) ==
    /\ m \in TpModels /\ reconfigs < MaxReconfigs
    /\ reconfigs' = reconfigs + 1
    /\ fe' = [fe EXCEPT ![m].reconfig = how]
    /\ UNCHANGED <<running, shm, gds, dcVars, selects>>

\* The test point manager writes its lists.
Select(m, g) ==
    /\ m \in TpModels /\ selects < MaxSelects /\ gds[m] # g
    /\ selects' = selects + 1
    /\ gds' = [gds EXCEPT ![m] = g]
    /\ UNCHANGED <<running, fe, shm, dcVars, reconfigs>>

\* A model stops, with everything in shared memory as it is.
Stop(m) ==
    /\ m \in running /\ Cardinality(Models \ running) < MaxStops
    /\ running' = running \ {m}
    /\ UNCHANGED <<fe, shm, gds, dcVars, selects, reconfigs>>

-----------------------------------------------------------------------------
(* local_dc *)

feVars == <<running, fe, gds, selects, reconfigs>>

\* The first turn of the loop sets all cycle words to an impossible number.
DcStart ==
    /\ dpc = "off"
    /\ shm' = [m \in Models |-> [shm[m] EXCEPT !.cycle = NoCycle]]
    /\ dpc' = "wait"
    /\ UNCHANGED <<feVars, nextCycle, dataRdy, todo, header, seen, slice, sent>>

\* Mutant of CycleIs: any valid cycle word will do.
CycleIsValid(m) == shm[m].cycle # NoCycle

CycleIs(m) == shm[m].cycle = nextCycle

\* waitNextCycle2: the IOP has the cycle that is due.
DcSeeIop ==
    /\ dpc = "wait" /\ CycleIs(0)
    /\ dataRdy' = {0} /\ seen' = Clock(0)
    /\ dpc' = "poll"
    /\ UNCHANGED <<feVars, shm, nextCycle, todo, header, slice, sent>>

\* It gives up after a second, in which a running IOP comes by every cycle.
DcGiveUp ==
    /\ dpc = "wait" /\ 0 \notin running /\ ~CycleIs(0)
    /\ dpc' = "exit"
    /\ UNCHANGED <<feVars, shm, nextCycle, dataRdy, todo, header, seen, slice,
                   sent>>

\* One of twenty looks at the cycle word of another model.
DcSeeModel(m) ==
    /\ dpc = "poll" /\ m \notin dataRdy /\ CycleIs(m)
    /\ dataRdy' = dataRdy \cup {m}
    /\ UNCHANGED <<feVars, shm, dpc, nextCycle, todo, header, seen, slice, sent>>

\* The end of the polls: they always run to their timeout, because threads_rdy
\* does not count the IOP.
DcPolled ==
    /\ dpc = "poll"
    /\ todo' = dataRdy
    /\ slice' = <<>>
    /\ dpc' = "load"
    /\ UNCHANGED <<feVars, shm, nextCycle, dataRdy, header, seen, sent>>

NoHeader == [dcu |-> -1]

\* loadMessageBuffer, the header of the next model.  Its cycle word, times and
\* table are loads that follow one another, taken here at one moment.
DcHeader ==
    LET m == Min(todo) IN
    /\ dpc = "load" /\ todo # {} /\ header = NoHeader
    /\ header' = [dcu |-> m, cycle |-> shm[m].cycle,
                  time |-> shm[m].time[nextCycle],
                  tpNum |-> [i \in 1..shm[m].count |-> shm[m].tpNum[i]]]
    /\ UNCHANGED <<feVars, shm, dpc, nextCycle, dataRdy, todo, seen, slice, sent>>

\* Mutant of SourceBlock: the block the cycle word names.
SourceBlockNewest == (shm[header.dcu].cycle + 1) % NB

\* The block that loadMessageBuffer copies.
SourceBlock == nextCycle

\* loadMessageBuffer, the data of that model.
DcCopy ==
    /\ header # NoHeader
    /\ slice' = Append(slice, [header |-> header,
                               data |-> shm[header.dcu].data[SourceBlock],
                               fresh |-> header.dcu \in running])
    /\ todo' = todo \ {header.dcu}
    /\ header' = NoHeader
    /\ UNCHANGED <<feVars, shm, dpc, nextCycle, dataRdy, seen, sent>>

\* curCycle announces the slice.  Sizes of data, and the exit when they exceed
\* the buffer, are left out.
DcSend ==
    /\ dpc = "load" /\ todo = {} /\ header = NoHeader
    /\ sent' = [curCycle |-> nextCycle, models |-> slice]
    /\ slice' = <<>> /\ dataRdy' = {}
    /\ nextCycle' = (nextCycle + 1) % NB
    /\ dpc' = "wait"
    /\ UNCHANGED <<feVars, shm, todo, header, seen>>

-----------------------------------------------------------------------------
(* Specification *)

\* DAQ_CONNECT: the block that is filled first is announced as block 0, but
\* its data go to the last place.
Init ==
    /\ running = Models
    /\ fe = [m \in Models |->
              [pc |-> "fill", t |-> 0, tpNum |-> Nothing,
               offset |-> [i \in Slots |-> 1], localTable |-> Nothing,
               validTp |-> 0, totalChans |-> 0, tpNumNet |-> Nothing,
               validTpNet |-> 0, reconfig |-> "no", checked |-> Unselected]]
    /\ shm = [m \in Models |->
              [cycle |-> NoCycle, time |-> [x \in Places |-> Unwritten],
               count |-> 0, tpNum |-> Nothing,
               data |-> [x \in Places |->
                   [time |-> IF x = NB - 1 THEN 0 ELSE Unwritten,
                    cols |-> [i \in Slots |-> Unwritten]]]]]
    /\ gds = [m \in Models |-> Unselected]
    /\ dpc = "off" /\ nextCycle = 0 /\ dataRdy = {} /\ todo = {}
    /\ header = NoHeader /\ seen = 0 /\ slice = <<>>
    /\ sent = [curCycle |-> NoCycle, models |-> <<>>]
    /\ selects = 0 /\ reconfigs = 0

Next ==
    \/ \E m \in Models :
        \/ Publish(m)
        \/ Announce(m)
        \/ \E how \in {"same", "moved"} : RequestReconfig(m, how)
        \/ \E g \in Selections : Select(m, g)
        \/ Stop(m)
        \/ DcSeeModel(m)
    \/ DcStart \/ DcSeeIop \/ DcGiveUp \/ DcPolled
    \/ DcHeader \/ DcCopy \/ DcSend

Spec == Init /\ [][Next]_vars

-----------------------------------------------------------------------------
(* Properties *)

FeStates ==
    [pc : {"fill", "announce"}, t : 0..LastBlock, tpNum : [Slots -> Nat],
     offset : [Slots -> Slots], localTable : [Slots -> Nat], validTp : 0..MaxTp,
     totalChans : 0..MaxTp, tpNumNet : [Slots -> Nat], validTpNet : 0..MaxTp,
     reconfig : {"no", "same", "moved"}, checked : Selections]
Cycles == Places \cup {NoCycle}
BlockData == [time : Int, cols : [Slots -> Int]]
Memories == [cycle : Cycles, time : [Places -> Int], count : 0..MaxTp,
             tpNum : [Slots -> Nat], data : [Places -> BlockData]]
Headers == [dcu : Models, cycle : Cycles, time : Int, tpNum : Seq(Nat)]
Entries == [header : Headers, data : BlockData, fresh : BOOLEAN]

\* The state has its types: counters of blocks, tables and slots in range.
TypeOK ==
    /\ running \subseteq Models
    /\ fe \in [Models -> FeStates] /\ shm \in [Models -> Memories]
    /\ gds \in [Models -> Selections]
    /\ dpc \in {"off", "wait", "poll", "load", "exit"}
    /\ nextCycle \in Places /\ dataRdy \subseteq Models /\ todo \subseteq Models
    /\ header \in Headers \cup {NoHeader} /\ seen \in 0..LastBlock
    /\ slice \in Seq(Entries)
    /\ sent \in [curCycle : Cycles, models : Seq(Entries)]
    /\ selects \in Nat /\ reconfigs \in Nat

SentModels == {sent.models[i] : i \in DOMAIN sent.models}

\* The data of every header are of the block whose time it gives, although the
\* models go on writing while local_dc copies, and local_dc may be MaxLag
\* blocks late; except for the first block after the start of a model.
BlockIntact ==
    \A e \in SentModels :
        e.header.time > 0 => /\ e.data.time = e.header.time
                             /\ Block(e.header.time) = sent.curCycle

\* The headers of a slice from models that run are of one time: a model that is
\* ahead or behind is left out.
RunningTogether ==
    \A e, f \in SentModels :
        e.fresh /\ f.fresh => e.header.time = f.header.time

Label(e, i) == IF i \in DOMAIN e.header.tpNum THEN e.header.tpNum[i] ELSE 0
Signal(e, i) == Max({0, e.data.cols[i]})

LabelsOf(e) == \A i \in Slots : Label(e, i) = Signal(e, i)

\* The test point numbers in a header name the signals in the columns of the
\* data, and every column that has a signal is named, if the cycle word in the
\* header is that of the slice and the configuration was not loaded anew, in all
\* blocks of a second but the first.
LabelsMatch ==
    \A e \in SentModels :
        e.header.cycle = sent.curCycle /\ sent.curCycle # 0 /\ reconfigs = 0
          => LabelsOf(e)

Want(g) == ({g.tp[i] : i \in Slots} \cup {g.exc[i] : i \in Slots}) \ {0}

\* After a check the table has every selected test point once, as long as there
\* is room, and nothing else; and each excitation is read from the slot of the
\* waveform generator that the manager gave it.
TableIsSelection ==
    \A m \in Models :
        LET s == fe[m]
            g == s.checked
            used == {i \in Slots : s.tpNum[i] # 0}
        IN
        /\ {s.tpNum[i] : i \in used} \subseteq Want(g)
        /\ Cardinality(used) = Min({MaxTp, Cardinality(Want(g))})
        /\ Cardinality({s.tpNum[i] : i \in used}) = Cardinality(used)
        /\ \A i \in used :
            s.tpNum[i] \in {g.exc[j] : j \in Slots}
              => g.exc[s.offset[i]] = s.tpNum[i]

Iop(s) == IF s.models = <<>> THEN -1 ELSE s.models[1].header.time

\* Every slice is later than the one before: a cycle word that is seen twice, or
\* a missed cycle, never makes local_dc send a block of the IOP again.
SlicesAdvance == [][sent' # sent => Iop(sent') > Iop(sent)]_vars

-----------------------------------------------------------------------------
(* The inductive invariant *)

\* Blocks whose header a model has stored.
Written(m) == IF fe[m].pc = "announce" THEN Clock(m) + 1 ELSE Clock(m)

\* No model is more than a block ahead of one that runs.
ClockInv ==
    /\ \A m \in Models : Written(m) <= LastBlock
    /\ \A m \in Models, n \in running : Written(m) <= Clock(n) + 1

\* Memory holds the last NB headers and the last NB blocks, the one that is
\* being filled included, and the cycle word names the last complete one.
MemoryInv ==
    \A m \in Models :
        /\ \A u \in 0..LastBlock :
             Written(m) - NB <= u /\ u < Written(m) => shm[m].time[Block(u)] = u
        /\ \A u \in 1..LastBlock :
             Clock(m) - NB < u /\ u <= Clock(m) => shm[m].data[Block(u)].time = u
        /\ shm[m].cycle # NoCycle =>
             Clock(m) > 0 /\ shm[m].cycle = Block(Clock(m) - 1)

\* Block r of model m is at the place local_dc collects, complete, and neither
\* its header nor its data have been overwritten.
Due(m, r) ==
    /\ Block(r) = nextCycle
    /\ r < Clock(m) /\ Written(m) < r + NB
    /\ m \in running => seen <= r + 1

Collecting == dpc \in {"poll", "load"}

\* What local_dc has seen is still in memory, the IOP's block to begin with, and
\* it collects in the order of the models.
CollectInv ==
    /\ Collecting => /\ 0 \in dataRdy /\ seen > 0 /\ Due(0, seen - 1)
                     /\ \A m \in dataRdy : \E r \in 0..LastBlock : Due(m, r)
    /\ dpc = "load" => todo \subseteq dataRdy /\ (0 \in todo <=> slice = <<>>)
    /\ header # NoHeader => /\ dpc = "load" /\ header.dcu \in todo
                            /\ header.time \in 0..LastBlock
                            /\ Due(header.dcu, header.time)
                            /\ 0 \in todo => header.dcu = 0

\* An entry of the slice is of the block that was due, and no model that has been
\* seen is ahead of one that ran when it was copied.
EntryInv(e) ==
    /\ e.header.dcu \in dataRdy /\ e.header.time \in 0..LastBlock
    /\ Due(e.header.dcu, e.header.time)
    /\ e.header.time > 0 => e.data.time = e.header.time
    /\ e.fresh => \A n \in dataRdy, r \in 0..LastBlock :
                    Due(n, r) => r <= e.header.time

SliceInv ==
    dpc = "load" => /\ \A i \in DOMAIN slice : EntryInv(slice[i])
                    /\ slice # <<>> => slice[1].header.dcu = 0

\* The last slice sent is of one place, and the IOP's block in it is older than
\* the one that is due.
SentInv ==
    /\ BlockIntact /\ RunningTogether
    /\ Iop(sent) < Clock(0)
    /\ sent.models # <<>> => Iop(sent) >= 0 /\ Block(Iop(sent) + 1) = nextCycle
    /\ Collecting => Iop(sent) < seen - 1

IndInv == TypeOK /\ ClockInv /\ MemoryInv /\ CollectInv /\ SliceInv /\ SentInv

-----------------------------------------------------------------------------
(* The invariant behind LabelsMatch *)

\* The columns of a block are those the network's table names.
ColumnsOf(m, u) ==
    \A i \in Slots : shm[m].data[Block(u)].cols[i] =
        IF i <= fe[m].validTpNet THEN fe[m].tpNumNet[i] ELSE Unwritten

\* As long as no configuration is loaded, the table in use and the one for the
\* network differ in the first block of a second only.
TablesInv(m) ==
    /\ fe[m].reconfig = "no" /\ fe[m].totalChans = fe[m].validTp
    /\ fe[m].localTable = fe[m].tpNum
    /\ Block(Clock(m)) # 0 =>
         /\ fe[m].validTpNet = fe[m].validTp
         /\ \A i \in 1..fe[m].validTp : fe[m].tpNumNet[i] = fe[m].tpNum[i]

\* The table in memory is that of the network once a block with it was stored.
StoredInv(m) ==
    fe[m].pc = "announce" \/ Block(Clock(m) - 1) # 0 =>
        /\ shm[m].count = fe[m].validTpNet
        /\ \A i \in 1..fe[m].validTpNet : shm[m].tpNum[i] = fe[m].tpNumNet[i]

ColumnsInv(m) ==
    \A u \in {Clock(m) - 1, Clock(m)} : u > 0 /\ Block(u) # 0 => ColumnsOf(m, u)

\* A header that claims to be of the slice's cycle has the labels of its data.
Labelled(e, x) == e.header.cycle = x /\ x # 0 => LabelsOf(e)

ModelLabels(m) == TablesInv(m) /\ StoredInv(m) /\ ColumnsInv(m)
HeaderLabels ==
    header # NoHeader =>
        Labelled([header |-> header, data |-> shm[header.dcu].data[nextCycle]],
                 nextCycle)
SliceLabels == dpc = "load" => \A i \in DOMAIN slice : Labelled(slice[i], nextCycle)
SentLabels == \A e \in SentModels : Labelled(e, sent.curCycle)

LabelInv ==
    reconfigs = 0 => /\ \A m \in Models : ModelLabels(m)
                     /\ HeaderLabels /\ SliceLabels /\ SentLabels

-----------------------------------------------------------------------------
(* The invariant behind TableIsSelection *)

\* A table of numbers and slots of waveform generators that serves a selection:
\* it has nothing else, nothing twice, and no room left if something is missing.
Serves(numbers, offset, g) ==
    /\ \A i \in Slots : numbers[i] # 0 => numbers[i] \in Want(g)
    /\ \A i, j \in Slots : numbers[i] # 0 /\ numbers[i] = numbers[j] => i = j
    /\ \/ \A i \in Slots : numbers[i] # 0
       \/ \A v \in Want(g) : \E i \in Slots : numbers[i] = v
    /\ \A i, j \in Slots : numbers[i] # 0 /\ numbers[i] = g.exc[j]
                             => g.exc[offset[i]] = numbers[i]

ServeInv == \A m \in Models : Serves(fe[m].tpNum, fe[m].offset, fe[m].checked)
=============================================================================
