-------------------------- MODULE CircBufferProofs --------------------------
(***************************************************************************)
(* Proofs about CircBuffer for any number of consumers, blocks and parts:  *)
(* IndInv is inductive, and NoOverwriteWhileHeld follows from it.  What    *)
(* consumers get: RosterInv is inductive on top of IndInv, and so is       *)
(* OrderInv when every request names stamps a block can have.              *)
(***************************************************************************)
EXTENDS CircBuffer, NumberLemmas, FiniteSetTheorems, TLAPS

\* The index arithmetic of the ring stays inside the ring.
LEMMA ModRange ==
    ASSUME NEW x \in Int, NEW n \in Nat \ {0}
    PROVE  x % n \in 0..(n - 1)
  OBVIOUS

\* The search for a zero bit in tcmask finds one when consumers is below
\* MAX_CONSUMERS.
LEMMA FreeSlotIsFree ==
    ASSUME tcmask \subseteq Slots, consumers = Cardinality(tcmask),
           consumers < MaxConsumers
    PROVE  FreeSlot \in Slots /\ FreeSlot \notin tcmask
<1>1. IsFiniteSet(Slots) /\ Cardinality(Slots) = MaxConsumers
  BY SizesAssumption, FS_Interval DEF Slots
<1>2. Slots \ tcmask # {}
  <2>1. SUFFICES ASSUME Slots \ tcmask = {} PROVE FALSE
    OBVIOUS
  <2>2. tcmask = Slots
    BY <2>1
  <2> QED BY <1>1, <2>2, SizesAssumption
<1>3. Slots \ tcmask \in SUBSET Nat
  BY SizesAssumption DEF Slots
<1>4. \E s \in Slots \ tcmask : \A t \in Slots \ tcmask : s <= t
  BY <1>2, <1>3, LeastElement
<1> QED BY <1>4 DEF FreeSlot

-----------------------------------------------------------------------------
(* Steps that change neither masks, busy bits nor who is registered *)

\* What the invariants about masks and busy bits see of the clients.
SameRoles ==
    \A d \in Clients : /\ Registered(d)' = Registered(d)
                       /\ Scanning(d)' = Scanning(d)
                       /\ (pc'[d] = "marking") = (pc[d] = "marking")
                       /\ (pc'[d] = "clearing") = (pc[d] = "clearing")

\* A step of readers that leaves the producer and all registrations alone
\* keeps the parts of IndInv about them.
LEMMA RolesKept ==
    ASSUME IndInv, SameRoles,
           UNCHANGED <<maskVars, busyVars, inVars, kind, cnum, scanVars>>,
           (ppc' = "publish16th") = (ppc = "publish16th")
    PROVE  LockInv' /\ SlotInv' /\ BusyInv' /\ Busy16thInv'
<1>1. LockInv'
  BY DEF LockInv, SameRoles, IndInv
<1>2. SlotInv'
  BY DEF SlotInv, SameRoles, IndInv, maskVars
<1>3. BusyInv'
  BY DEF BusyInv, SameRoles, IndInv, maskVars, busyVars, scanVars
<1>4. Busy16thInv'
  BY DEF Busy16thInv, SameRoles, IndInv, maskVars, busyVars, scanVars, inVars
<1> QED BY <1>1, <1>2, <1>3, <1>4

\* A client inside a get call moves on, and at most its op and its part index
\* change.
LEMMA ClientMoves ==
    ASSUME IndInv, NEW c \in Clients,
           NEW q \in {"test", "willwait", "asleep", "held", "finished"},
           pc[c] \in {"ready", "test", "willwait", "asleep", "held"},
           pc' = [pc EXCEPT ![c] = q],
           NEW o \in GetCalls,
           op' = [op EXCEPT ![c] = o],
           NEW n \in 0..Parts,
           next_block_out_16th' = [next_block_out_16th EXCEPT ![cnum[c]] = n],
           o \in CallsOf(kind[c]),
           kind[c] = "fast" /\ q # "held" => n < Parts,
           q = "held" /\ kind[c] # "fast" =>
               cnum[c] \in busy[next_block_out[cnum[c]]],
           q = "held" /\ kind[c] = "fast" =>
               n > 0 /\ cnum[c] \in busy16th[next_block_out[cnum[c]]][n - 1],
           UNCHANGED <<countVars, inVars, next_block_out, maskVars, busyVars,
                       fillVars, prodVars, kind, cnum, still_busy, last_seq,
                       scanVars>>
    PROVE  IndInv'
<1>1. /\ pc'[c] = q /\ \A d \in Clients : d # c => pc'[d] = pc[d]
      /\ op'[c] = o /\ \A d \in Clients : d # c => op'[d] = op[d]
  BY DEF IndInv, TypeOK
<1>2. TypeOK'
  BY DEF IndInv, TypeOK, ClientSteps, countVars, inVars, maskVars, busyVars,
         fillVars, prodVars, scanVars
<1>3. ProducerInv'
  BY DEF IndInv, ProducerInv, InCall, countVars, inVars, maskVars, busyVars,
         prodVars
<1>4. SameRoles
  BY <1>1 DEF SameRoles, Registered, Scanning
<1>5. LockInv' /\ SlotInv' /\ BusyInv' /\ Busy16thInv'
  BY <1>4, RolesKept DEF prodVars
<1>6. HeldInv'
  <2>1. /\ next_block_out_16th'[cnum[c]] = n
        /\ \A d \in Clients : Registered(d) /\ d # c =>
             next_block_out_16th'[cnum[d]] = next_block_out_16th[cnum[d]]
    BY DEF IndInv, TypeOK, SlotInv, Registered
  <2>2. ASSUME NEW d \in Clients
        PROVE  /\ pc'[d] = "held" /\ kind[d] # "fast" =>
                    cnum[d] \in busy[next_block_out[cnum[d]]]
               /\ pc'[d] = "held" /\ kind[d] = "fast" =>
                    /\ next_block_out_16th'[cnum[d]] > 0
                    /\ cnum[d] \in busy16th[next_block_out[cnum[d]]]
                                        [next_block_out_16th'[cnum[d]] - 1]
               /\ /\ pc'[d] \notin {"out", "marking", "clearing"}
                  /\ kind[d] = "fast"
                  /\ pc'[d] \notin {"held", "freeing"}
                  => next_block_out_16th'[cnum[d]] < Parts
               /\ pc'[d] \in {"test", "willwait", "asleep", "held"} =>
                    op'[d] \in CallsOf(kind[d])
    <3>1. CASE d = c
      BY <1>1, <2>1, <3>1
    <3>2. CASE d # c
      BY <1>1, <2>1, <3>2 DEF IndInv, HeldInv, Registered
    <3> QED BY <3>1, <3>2
  <2>3. UNCHANGED <<kind, cnum, busy, busy16th, next_block_out>>
    BY DEF busyVars
  <2> QED BY <2>2, <2>3 DEF HeldInv, Registered, CallsOf
<1> QED BY <1>2, <1>3, <1>5, <1>6 DEF IndInv

\* The steps of get, timed_get, get_nowait and get16th preserve IndInv.
LEMMA GetCallKeeps ==
    ASSUME IndInv, NEW c \in Clients, NEW o \in CallsOf(kind[c]),
           GetCall(c, o)
    PROVE  IndInv'
<1>1. o \in GetCalls
  BY OpsAssumption DEF CallsOf, GetCalls
<1>2. next_block_out_16th' =
        [next_block_out_16th EXCEPT ![cnum[c]] = next_block_out_16th[cnum[c]]]
  BY DEF GetCall, outVars, IndInv, TypeOK
<1>3. next_block_out_16th[cnum[c]] \in 0..Parts
  BY DEF IndInv, TypeOK
<1>4. kind[c] = "fast" => next_block_out_16th[cnum[c]] < Parts
  BY DEF GetCall, IndInv, HeldInv, Registered
<1> QED
  BY <1>1, <1>2, <1>3, <1>4, ClientMoves DEF GetCall, outVars

\* Steps that leave op and the part index of c alone.
LEMMA ClientMovesOn ==
    ASSUME IndInv, NEW c \in Clients,
           NEW q \in {"test", "willwait", "asleep", "held", "finished"},
           pc[c] \in {"test", "willwait", "asleep", "held"},
           kind[c] = "fast" => next_block_out_16th[cnum[c]] < Parts,
           pc' = [pc EXCEPT ![c] = q],
           q = "held" => /\ kind[c] # "fast"
                         /\ cnum[c] \in busy[next_block_out[cnum[c]]],
           UNCHANGED <<countVars, inVars, outVars, maskVars, busyVars,
                       fillVars, prodVars, kind, cnum, op, still_busy,
                       last_seq, scanVars>>
    PROVE  IndInv'
<1>1. op' = [op EXCEPT ![c] = op[c]] /\ op[c] \in GetCalls
  BY DEF IndInv, TypeOK
<1>2. /\ next_block_out_16th' =
           [next_block_out_16th EXCEPT ![cnum[c]] = next_block_out_16th[cnum[c]]]
      /\ next_block_out_16th[cnum[c]] \in 0..Parts
  BY DEF outVars, IndInv, TypeOK
<1>3. op[c] \in CallsOf(kind[c])
  BY DEF IndInv, HeldInv
<1> QED
  BY <1>1, <1>2, <1>3, ClientMoves DEF outVars

\* get finds its block filled, or gives up, without changing any mask.
LEMMA GetTestKeeps ==
    ASSUME IndInv, NEW c \in Clients, GetTest(c)
    PROVE  IndInv'
<1> DEFINE q == IF cnum[c] \in busy[next_block_out[cnum[c]]] THEN "held"
                ELSE IF op[c] = "get_nowait" THEN "finished" ELSE "willwait"
<1>1. kind[c] # "fast"
  BY DEF GetTest, IndInv, HeldInv, CallsOf
<1>2. /\ q \in {"test", "willwait", "asleep", "held", "finished"}
      /\ q = "held" => cnum[c] \in busy[next_block_out[cnum[c]]]
      /\ pc' = [pc EXCEPT ![c] = q]
  BY DEF GetTest
<1> HIDE DEF q
<1> QED BY <1>1, <1>2, ClientMovesOn DEF GetTest

\* Going to sleep in get changes only the sleeper's place.
LEMMA GetSleepKeeps ==
    ASSUME IndInv, NEW c \in Clients, GetSleep(c)
    PROVE  IndInv'
<1>1. kind[c] = "fast" => next_block_out_16th[cnum[c]] < Parts
  BY DEF GetSleep, IndInv, HeldInv, Registered
<1> QED BY <1>1, ClientMovesOn DEF GetSleep

\* A wakeup sends the reader back to its test.
LEMMA GetSpuriousWakeupKeeps ==
    ASSUME IndInv, NEW c \in Clients, GetSpuriousWakeup(c)
    PROVE  IndInv'
<1>1. kind[c] = "fast" => next_block_out_16th[cnum[c]] < Parts
  BY DEF GetSpuriousWakeup, IndInv, HeldInv, Registered
<1> QED BY <1>1, ClientMovesOn DEF GetSpuriousWakeup

\* timed_get returns without a block.
LEMMA GetTimeoutKeeps ==
    ASSUME IndInv, NEW c \in Clients, GetTimeout(c)
    PROVE  IndInv'
<1>1. kind[c] = "fast" => next_block_out_16th[cnum[c]] < Parts
  BY DEF GetTimeout, IndInv, HeldInv, Registered
<1> QED BY <1>1, ClientMovesOn DEF GetTimeout

\* A fast reader goes on to the next part of the block it holds.
LEMMA NextPartKeeps ==
    ASSUME IndInv, NEW c \in Clients, NextPart(c)
    PROVE  IndInv'
<1>1. next_block_out_16th[cnum[c]] \in 0..Parts
  BY DEF IndInv, TypeOK
<1>2. next_block_out_16th[cnum[c]] < Parts
  BY <1>1, SizesAssumption DEF NextPart
<1> QED BY <1>2, ClientMovesOn DEF NextPart

\* get16th finds its part filled: the part is behind the producer's, or its
\* block is busy.
LEMMA Get16thTestKeeps ==
    ASSUME IndInv, NEW c \in Clients, Get16thTest(c)
    PROVE  IndInv'
<1> DEFINE n == next_block_out_16th[cnum[c]]
<1>1. kind[c] = "fast" /\ n \in 0..Parts /\ n < Parts
  BY OpsAssumption DEF Get16thTest, IndInv, TypeOK, HeldInv, CallsOf, Registered
<1>2. CASE cnum[c] \in busy16th[next_block_out[cnum[c]]][n]
  <2>1. /\ next_block_out_16th' =
             [next_block_out_16th EXCEPT ![cnum[c]] = n + 1]
        /\ pc' = [pc EXCEPT ![c] = "held"]
    BY <1>2 DEF Get16thTest
  <2>2. n + 1 \in 0..Parts /\ n + 1 > 0 /\ (n + 1) - 1 = n
    BY <1>1, SizesAssumption
  <2>3. op' = [op EXCEPT ![c] = op[c]] /\ op[c] \in GetCalls
    BY DEF Get16thTest, IndInv, TypeOK
  <2>4. op[c] \in CallsOf(kind[c])
    BY DEF Get16thTest, IndInv, HeldInv
  <2> DEFINE m == n + 1
  <2>5. /\ m \in 0..Parts /\ m > 0
        /\ cnum[c] \in busy16th[next_block_out[cnum[c]]][m - 1]
        /\ next_block_out_16th' =
             [next_block_out_16th EXCEPT ![cnum[c]] = m]
    BY <1>2, <2>1, <2>2
  <2> HIDE DEF n, m
  <2> QED BY <1>1, <2>1, <2>3, <2>4, <2>5, ClientMoves DEF Get16thTest
<1>3. CASE cnum[c] \notin busy16th[next_block_out[cnum[c]]][n]
  <2>1. pc' = [pc EXCEPT ![c] = "willwait"] /\ UNCHANGED outVars
    BY <1>3 DEF Get16thTest, outVars
  <2> HIDE DEF n
  <2> QED BY <1>1, <2>1, ClientMovesOn DEF Get16thTest, n
<1> QED BY <1>2, <1>3

-----------------------------------------------------------------------------
(* The producer's steps *)

\* A step of the producer that leaves the masks alone keeps IndInv when its
\* own locals are right.
LEMMA ProducerMoves ==
    ASSUME IndInv, TypeOK', ProducerInv',
           (ppc' = "publish16th") = (ppc = "publish16th"),
           UNCHANGED <<inVars, outVars, maskVars, busyVars, clientVars,
                       scanVars>>
    PROVE  IndInv'
<1>1. SameRoles
  BY DEF SameRoles, Registered, Scanning, clientVars
<1>2. LockInv' /\ SlotInv' /\ BusyInv' /\ Busy16thInv'
  BY <1>1, RolesKept DEF clientVars
<1>3. HeldInv'
  BY DEF IndInv, HeldInv, Registered, CallsOf, clientVars, busyVars, outVars
<1> QED BY <1>2, <1>3 DEF IndInv

\* Entering put, testing busy, sleeping, waking, filling and dropping.
LEMMA PutCallKeeps ==
    ASSUME IndInv, NEW o \in PutOps, PutCall(o)
    PROVE  IndInv'
<1>1. TypeOK'
  BY OpsAssumption DEF IndInv, TypeOK, PutCall, PutCalls, ProducerSteps,
     countVars, inVars, outVars, maskVars, busyVars, fillVars, clientVars,
     scanVars
<1>2. ProducerInv'
  BY DEF IndInv, ProducerInv, InCall, PutCall, countVars, inVars, maskVars,
     busyVars
<1> QED BY <1>1, <1>2, ProducerMoves DEF PutCall

\* put waits until its block is free.
LEMMA PutWaitKeeps ==
    ASSUME IndInv, PutTest \/ PutSleep \/ PutSpuriousWakeup
    PROVE  IndInv'
<1>1. TypeOK'
  BY DEF IndInv, TypeOK, PutTest, PutSleep, PutSpuriousWakeup, ProducerSteps,
     countVars, inVars, outVars, maskVars, busyVars, fillVars, clientVars,
     scanVars
<1>2. ProducerInv'
  BY DEF IndInv, ProducerInv, InCall, PutTest, PutSleep, PutSpuriousWakeup,
     countVars, inVars, maskVars, busyVars
<1> QED BY <1>1, <1>2, ProducerMoves
        DEF PutTest, PutSleep, PutSpuriousWakeup

\* Storing into a block that is not busy disturbs no reader.
LEMMA PutFillKeeps ==
    ASSUME IndInv, PutFill
    PROVE  IndInv'
<1>1. puts \in 0..MaxPuts /\ puts \in Nat /\ GpsAt(puts) \in Nat
  BY GpsAssumption, SizesAssumption
     DEF IndInv, TypeOK, ProducerInv, InCall, PutFill
<1>2. seq_num' \in [BlockIds -> Nat] /\ gps' \in [BlockIds -> Nat]
  BY <1>1 DEF IndInv, TypeOK, PutFill
<1>5. data' \in [BlockIds -> [PartIds -> Int]]
  <2>1. /\ data \in [BlockIds -> [PartIds -> Int]]
        /\ nbi \in BlockIds /\ nbi16th \in PartIds
    BY DEF IndInv, TypeOK
  <2>2. CASE pop \in WholePuts
    <3>1. [p \in PartIds |-> puts] \in [PartIds -> Int]
      BY <1>1
    <3> QED BY <2>1, <2>2, <3>1 DEF PutFill
  <2>3. CASE pop \notin WholePuts
    <3> DEFINE v == IF pop = "put16th_lost" THEN -1 ELSE puts
    <3>1. v \in Int
      BY <1>1
    <3>2. data' = [data EXCEPT ![nbi][nbi16th] = v]
      BY <2>3 DEF PutFill
    <3> HIDE DEF v
    <3> QED BY <2>1, <3>1, <3>2
  <2> QED BY <2>2, <2>3
<1>3. TypeOK'
  BY <1>2, <1>5 DEF IndInv, TypeOK, PutFill, ProducerSteps,
     countVars, inVars, outVars, maskVars, busyVars, clientVars, scanVars
<1>4. ProducerInv'
  BY DEF IndInv, ProducerInv, InCall, PutFill, countVars, inVars, maskVars,
     busyVars
<1> QED BY <1>3, <1>4, ProducerMoves DEF PutFill

\* put_nowait on a full ring leaves the ring alone.
LEMMA PutDropKeeps ==
    ASSUME IndInv, PutDrop
    PROVE  IndInv'
<1>1. puts' \in Nat /\ drops' \in Nat /\ dropped' \subseteq Nat
  BY DEF IndInv, TypeOK, PutDrop
<1>2. TypeOK'
  BY <1>1 DEF IndInv, TypeOK, PutDrop, ProducerSteps,
     inVars, outVars, maskVars, busyVars, fillVars, clientVars, scanVars
<1>3. ProducerInv'
  BY SizesAssumption DEF IndInv, TypeOK, ProducerInv, InCall, PutDrop, inVars,
     maskVars, busyVars
<1> QED BY <1>2, <1>3, ProducerMoves DEF PutDrop

\* The broadcasts only send sleepers back to their test.
LEMMA WakingKeepsRoles ==
    ASSUME IndInv,
           \A d \in Clients : pc'[d] = pc[d] \/ (pc[d] = "asleep" /\ pc'[d] = "test")
    PROVE  SameRoles
  BY DEF SameRoles, Registered, Scanning

\* The broadcasts after a put only wake readers.
LEMMA PutSignalKeeps ==
    ASSUME IndInv, PutSignal
    PROVE  IndInv'
<1>1. \A d \in Clients :
        pc'[d] = pc[d] \/ (pc[d] = "asleep" /\ pc'[d] = "test")
  <2>1. TAKE d \in Clients
  <2> DEFINE W == \/ AsleepNotEmpty(d, nbi)
                     /\ (pop \in WholePuts \/ nbi16th = Parts - 1)
                  \/ Asleep16th(d, nbi) /\ pop \in PartPuts
  <2>2. pc'[d] = IF W THEN "test" ELSE pc[d]
    BY DEF PutSignal
  <2>3. W => pc[d] = "asleep"
    BY DEF AsleepNotEmpty, Asleep16th
  <2> HIDE DEF W
  <2> QED BY <2>2, <2>3
<1>2. LockInv' /\ SlotInv' /\ BusyInv' /\ Busy16thInv'
  BY <1>1, WakingKeepsRoles, RolesKept DEF PutSignal
<1>3. pc' \in [Clients -> ClientSteps]
  BY DEF PutSignal, IndInv, TypeOK, ClientSteps
<1>4. TypeOK'
  BY <1>3 DEF IndInv, TypeOK, PutSignal, ProducerSteps, countVars, inVars,
     outVars, maskVars, busyVars, fillVars, scanVars
<1>5. ProducerInv'
  BY DEF IndInv, ProducerInv, InCall, PutSignal, countVars, inVars, maskVars,
     busyVars
<1>6. HeldInv'
  BY <1>1 DEF IndInv, HeldInv, PutSignal, Registered, CallsOf, busyVars, outVars
<1> QED BY <1>2, <1>4, <1>5, <1>6 DEF IndInv

\* Publishing a block: it was free, so no consumer loses a bit it relies on,
\* and every fast consumer that has parts of it now has the block.
LEMMA PutPublishKeeps ==
    ASSUME IndInv, PutPublish
    PROVE  IndInv'
<1>1. /\ nbi \in BlockIds /\ nbi = next_block_in /\ busy[nbi] = {}
      /\ nbi16th = next_block_in_16th /\ nbi16th \in PartIds
      /\ pop \in PutOps /\ puts \in Nat /\ puts < MaxPuts
      /\ \A c \in Clients : ~Scanning(c)
  BY DEF IndInv, TypeOK, ProducerInv, InCall, PutPublish, BufferLocked, Scanning
<1>2. /\ busy' \in [BlockIds -> SUBSET Slots]
      /\ busy'[nbi] = cmask
      /\ \A b \in BlockIds : b # nbi => busy'[b] = busy[b]
  BY <1>1 DEF IndInv, TypeOK, PutPublish
<1>3. next_block_in' \in BlockIds
  BY ModRange, SizesAssumption DEF PutPublish, IndInv, TypeOK, BlockIds
<1>4. puts' \in Nat /\ puts' <= MaxPuts
  BY <1>1, SizesAssumption DEF PutPublish
<1>5. TypeOK'
  BY <1>2, <1>3, <1>4 DEF IndInv, TypeOK, PutPublish, ProducerSteps, outVars,
     maskVars, fillVars, clientVars, scanVars
<1>6. cmask16th \subseteq cmask /\ cmask \subseteq tcmask
  BY DEF IndInv, SlotInv
<1>7. \A b \in BlockIds, p \in PartIds, s \in Slots :
        s \in busy16th[b][p] => s \in cmask16th /\ s \in busy'[b]
  <2>1. SUFFICES ASSUME NEW b \in BlockIds, NEW p \in PartIds, NEW s \in Slots,
                        s \in busy16th[b][p]
                 PROVE  s \in cmask16th /\ s \in busy'[b]
    OBVIOUS
  <2>2. s \in cmask16th
    BY <1>1, <2>1 DEF IndInv, Busy16thInv, Scanning
  <2>3. CASE b = nbi
    BY <1>2, <1>6, <2>2, <2>3
  <2>4. CASE b # nbi
    <3>1. s \in busy[b]
      BY <1>1, <2>1, <2>4 DEF IndInv, Busy16thInv
    <3> QED BY <1>2, <2>2, <2>4, <3>1
  <2> QED BY <2>2, <2>3, <2>4
<1>8. ProducerInv'
  <2>1. CASE pop \in WholePuts
    BY <1>1, <1>4, <2>1 DEF IndInv, ProducerInv, InCall, PutPublish
  <2>2. CASE pop \notin WholePuts
    <3>1. ppc' = "publish16th" /\ nbi16th = Parts - 1 /\ pop \in PartPuts
      BY <2>2 DEF PutPublish, IndInv, TypeOK, PutCalls
    <3>2. busy16th[nbi][nbi16th] = {}
      <4>1. \A s \in Slots : s \notin busy16th[nbi][nbi16th]
        BY <1>1, SizesAssumption DEF IndInv, Busy16thInv, PartIds
      <4>2. busy16th[nbi][nbi16th] \subseteq Slots
        BY <1>1 DEF IndInv, TypeOK
      <4> QED BY <4>1, <4>2
    <3> QED
      BY <1>1, <1>2, <1>4, <1>6, <3>1, <3>2
         DEF IndInv, ProducerInv, InCall, PutPublish, maskVars
  <2> QED BY <2>1, <2>2
<1>9. LockInv'
  BY <1>1 DEF LockInv, Scanning, PutPublish, clientVars
<1>10. SlotInv'
  BY DEF IndInv, SlotInv, Registered, Scanning, PutPublish, maskVars, clientVars
<1>11. BusyInv'
  BY <1>1, <1>2, <1>6
     DEF IndInv, BusyInv, Scanning, PutPublish, maskVars, clientVars, scanVars
<1>12. Busy16thInv'
  BY <1>1, <1>7
     DEF Busy16thInv, Scanning, PutPublish, maskVars, clientVars, scanVars
<1>13. HeldInv'
  <2>1. \A b \in BlockIds, s \in Slots : s \in busy[b] => s \in busy'[b]
    BY <1>1, <1>2
  <2>2. \A c \in Clients : pc[c] = "held" /\ kind[c] # "fast" =>
          cnum[c] \in busy'[next_block_out[cnum[c]]]
    BY <2>1 DEF IndInv, HeldInv, TypeOK
  <2> QED
    BY <2>2 DEF IndInv, HeldInv, Registered, CallsOf, PutPublish, outVars,
       clientVars
<1> QED
  BY <1>5, <1>8, <1>9, <1>10, <1>11, <1>12, <1>13 DEF IndInv

\* Publishing a part: nobody had it, and after the last part every fast
\* consumer already has the block.
LEMMA PutPublish16thKeeps ==
    ASSUME IndInv, PutPublish16th
    PROVE  IndInv'
<1>1. /\ nbi \in BlockIds /\ nbi16th \in PartIds
      /\ nbi16th = next_block_in_16th
      /\ \A c \in Clients : ~Scanning(c)
      /\ pop \in PutOps /\ ppc' = "signal"
  BY DEF IndInv, TypeOK, ProducerInv, LockInv, InCall, PutPublish16th,
     BufferLocked, Scanning
<1>2. /\ busy16th' \in [BlockIds -> [PartIds -> SUBSET Slots]]
      /\ busy16th'[nbi][nbi16th] = cmask16th
      /\ \A b \in BlockIds, p \in PartIds :
           <<b, p>> # <<nbi, nbi16th>> => busy16th'[b][p] = busy16th[b][p]
  BY <1>1 DEF IndInv, TypeOK, PutPublish16th
<1>3. next_block_in_16th' \in PartIds
  BY ModRange, SizesAssumption DEF PutPublish16th, IndInv, TypeOK, PartIds
<1>4. TypeOK'
  BY <1>2, <1>3 DEF IndInv, TypeOK, PutPublish16th, ProducerSteps, countVars,
     outVars, maskVars, fillVars, clientVars, scanVars
<1>7. /\ \A s \in Slots : s \notin busy16th[nbi][nbi16th]
      /\ \A b \in BlockIds, p \in PartIds, s \in Slots :
           s \in busy16th'[b][p] =>
             /\ s \in cmask16th
             /\ s \in busy[b] \/ (b = next_block_in /\ p < next_block_in_16th')
  <2>1. CASE ppc = "publish16th"
    <3>1. /\ nbi16th = Parts - 1 /\ cmask16th \subseteq busy[nbi]
          /\ busy16th[nbi][nbi16th] = {}
      BY <2>1 DEF IndInv, ProducerInv
    <3>2. ASSUME NEW b \in BlockIds, NEW p \in PartIds, NEW s \in Slots,
                 s \in busy16th'[b][p]
          PROVE  s \in cmask16th /\ s \in busy[b]
      <4>1. CASE b = nbi /\ p = nbi16th
        BY <1>2, <3>1, <3>2, <4>1
      <4>2. CASE ~(b = nbi /\ p = nbi16th)
        <5>1. s \in busy16th[b][p]
          BY <1>2, <3>2, <4>2
        <5> QED BY <1>1, <2>1, <5>1 DEF IndInv, Busy16thInv, Scanning
      <4> QED BY <4>1, <4>2
    <3> QED BY <3>1, <3>2
  <2>2. CASE ppc # "publish16th"
    <3>1. /\ ppc = "publish" /\ nbi16th # Parts - 1
          /\ nbi = next_block_in /\ busy[nbi] = {}
      BY <2>2 DEF PutPublish16th, IndInv, ProducerInv, InCall
    <3>2. next_block_in_16th' = nbi16th + 1
      BY <1>1, <3>1, SizesAssumption DEF PutPublish16th, PartIds
    <3>3. \A s \in Slots : s \notin busy16th[nbi][nbi16th]
      BY <1>1, <3>1, SizesAssumption DEF IndInv, Busy16thInv, PartIds
    <3>4. ASSUME NEW b \in BlockIds, NEW p \in PartIds, NEW s \in Slots,
                 s \in busy16th'[b][p]
          PROVE  /\ s \in cmask16th
                 /\ s \in busy[b]
                    \/ (b = next_block_in /\ p < next_block_in_16th')
      <4>1. CASE b = nbi /\ p = nbi16th
        BY <1>1, <1>2, <3>1, <3>2, <3>4, <4>1, SizesAssumption DEF PartIds
      <4>2. CASE ~(b = nbi /\ p = nbi16th)
        <5>1. s \in busy16th[b][p]
          BY <1>2, <3>4, <4>2
        <5>2. s \in cmask16th
          BY <1>1, <5>1 DEF IndInv, Busy16thInv, Scanning
        <5>3. s \in busy[b] \/ (b = next_block_in /\ p < nbi16th)
          BY <1>1, <5>1 DEF IndInv, Busy16thInv
        <5> QED
          BY <1>1, <3>2, <5>2, <5>3, SizesAssumption DEF PartIds
      <4> QED BY <4>1, <4>2
    <3> QED BY <3>3, <3>4
  <2> QED BY <2>1, <2>2
<1>8. ProducerInv'
  <2>1. PutOps \subseteq WholePuts => FALSE
    BY <1>1 DEF PutPublish16th, WholePuts, PartPuts, IndInv, ProducerInv
  <2> QED
    BY <1>1, <2>1 DEF IndInv, ProducerInv, InCall, PutPublish16th, countVars
<1>9. LockInv'
  BY <1>1 DEF LockInv, Scanning, PutPublish16th, clientVars
<1>10. SlotInv'
  BY DEF IndInv, SlotInv, Registered, Scanning, PutPublish16th, maskVars,
     clientVars
<1>11. BusyInv'
  BY DEF IndInv, BusyInv, Scanning, PutPublish16th, maskVars, clientVars,
     scanVars
<1>12. Busy16thInv'
  BY <1>1, <1>7 DEF Busy16thInv, Scanning, PutPublish16th, maskVars, clientVars
<1>13. HeldInv'
  <2>1. \A c \in Clients : pc[c] = "held" /\ kind[c] = "fast" =>
          cnum[c] \in busy16th'[next_block_out[cnum[c]]]
                               [next_block_out_16th[cnum[c]] - 1]
    <3>1. SUFFICES ASSUME NEW c \in Clients, pc[c] = "held", kind[c] = "fast"
                   PROVE  cnum[c] \in busy16th'[next_block_out[cnum[c]]]
                                        [next_block_out_16th[cnum[c]] - 1]
      OBVIOUS
    <3> DEFINE b == next_block_out[cnum[c]]
               p == next_block_out_16th[cnum[c]] - 1
    <3>2. cnum[c] \in busy16th[b][p] /\ cnum[c] \in Slots /\ b \in BlockIds
      BY <3>1 DEF IndInv, HeldInv, TypeOK
    <3>3. p \in PartIds
      <4>1. /\ next_block_out_16th[cnum[c]] \in 0..Parts
            /\ next_block_out_16th[cnum[c]] > 0
        BY <3>1 DEF IndInv, HeldInv, TypeOK
      <4> QED BY <4>1, SizesAssumption DEF PartIds
    <3> HIDE DEF b, p
    <3>4. ~(b = nbi /\ p = nbi16th)
      BY <1>7, <3>2
    <3>5. cnum[c] \in busy16th'[b][p]
      BY <1>2, <3>2, <3>3, <3>4
    <3> QED BY <3>5 DEF b, p
  <2> QED
    BY <2>1 DEF IndInv, HeldInv, Registered, CallsOf, PutPublish16th, outVars,
       clientVars
<1> QED
  BY <1>4, <1>8, <1>9, <1>10, <1>11, <1>12, <1>13 DEF IndInv

-----------------------------------------------------------------------------
(* Freeing a block *)

\* Clearing the bits of c, in block b and possibly in all its parts, takes
\* nothing from the other consumers.
LEMMA ClearBusyKeeps ==
    ASSUME IndInv, NEW c \in Clients, NEW b \in BlockIds,
           Registered(c), ClearBusy(c, b),
           pc[c] \in {"test", "held"},
           \/ kind[c] # "fast" /\ UNCHANGED busy16th
           \/ /\ kind[c] = "fast"
              /\ pc[c] = "held" /\ next_block_out[cnum[c]] = b
              /\ next_block_out_16th[cnum[c]] = Parts
              /\ busy16th' = [busy16th EXCEPT ![b] =
                                [p \in PartIds |-> @[p] \ {cnum[c]}]],
           UNCHANGED <<countVars, inVars, outVars, maskVars, fillVars, prodVars,
                       kind, cnum, op, scanVars>>
    PROVE  IndInv'
<1>1. /\ pc'[c] = "freeing" /\ \A d \in Clients : d # c => pc'[d] = pc[d]
      /\ pc' \in [Clients -> ClientSteps]
  BY DEF ClearBusy, IndInv, TypeOK, ClientSteps
<1>2. /\ busy' \in [BlockIds -> SUBSET Slots]
      /\ \A e \in BlockIds : busy'[e] = IF e = b THEN busy[b] \ {cnum[c]}
                                        ELSE busy[e]
  BY DEF ClearBusy, IndInv, TypeOK
<1>3. /\ busy16th' \in [BlockIds -> [PartIds -> SUBSET Slots]]
      /\ \A e \in BlockIds, p \in PartIds :
           busy16th'[e][p] = IF kind[c] = "fast" /\ e = b
                             THEN busy16th[b][p] \ {cnum[c]}
                             ELSE busy16th[e][p]
  <2>1. busy16th \in [BlockIds -> [PartIds -> SUBSET Slots]]
    BY DEF IndInv, TypeOK
  <2>2. CASE kind[c] # "fast"
    BY <2>1, <2>2
  <2>3. CASE kind[c] = "fast"
    <3>1. busy16th' = [busy16th EXCEPT ![b] =
                         [p \in PartIds |-> busy16th[b][p] \ {cnum[c]}]]
      BY <2>3
    <3> QED BY <2>1, <2>3, <3>1
  <2> QED BY <2>2, <2>3
<1>4. still_busy' \in [Clients -> BOOLEAN] /\ last_seq' \in [Clients -> Int]
  BY DEF ClearBusy, IndInv, TypeOK
<1>5. TypeOK'
  BY <1>1, <1>2, <1>3, <1>4 DEF IndInv, TypeOK, countVars, inVars, outVars,
     maskVars, fillVars, prodVars, scanVars
<1>6. /\ cnum[c] \in tcmask /\ cnum[c] \in Slots
      /\ kind[c] # "fast" => cnum[c] \notin cmask16th
      /\ \A d \in Clients : Scanning(d) => cnum[d] # cnum[c]
      /\ \A d \in Clients : Registered(d) /\ d # c => cnum[d] # cnum[c]
  BY DEF IndInv, SlotInv, TypeOK
<1>7. SameRoles
  BY <1>1 DEF SameRoles, Registered, Scanning
<1>8. ProducerInv'
  <2>1. ASSUME ppc = "publish16th"
        PROVE  cmask16th \subseteq busy'[nbi] /\ busy16th'[nbi][nbi16th] = {}
    <3>1. /\ nbi \in BlockIds /\ nbi16th \in PartIds /\ nbi16th = Parts - 1
          /\ cmask16th \subseteq busy[nbi] /\ busy16th[nbi][nbi16th] = {}
      BY <2>1 DEF IndInv, ProducerInv, TypeOK
    <3>2. CASE kind[c] # "fast"
      BY <1>2, <1>3, <1>6, <3>1, <3>2
    <3>3. CASE kind[c] = "fast"
      <4>1. cnum[c] \in busy16th[b][Parts - 1]
        BY <3>3 DEF IndInv, HeldInv
      <4>2. b # nbi
        BY <3>1, <4>1
      <4> QED BY <1>2, <1>3, <3>1, <4>2
    <3> QED BY <3>2, <3>3
  <2>2. ppc \in {"fill", "publish"} => busy'[nbi] = {}
    BY <1>2 DEF IndInv, ProducerInv, TypeOK
  <2> QED
    BY <2>1, <2>2 DEF IndInv, ProducerInv, InCall, countVars, inVars, maskVars,
       prodVars
<1>9. LockInv'
  BY <1>7 DEF IndInv, LockInv, SameRoles, prodVars
<1>10. SlotInv'
  BY <1>7 DEF IndInv, SlotInv, SameRoles, maskVars
<1>11. BusyInv'
  <2>1. \A e \in BlockIds, s \in Slots : s \in busy'[e] => s \in busy[e]
    BY <1>2
  <2> QED
    BY <1>7, <2>1, <1>5 DEF IndInv, BusyInv, SameRoles, TypeOK, maskVars,
       scanVars
<1>12. Busy16thInv'
  <2>1. \A e \in BlockIds, p \in PartIds, s \in Slots :
          s \in busy16th'[e][p] => s \in busy16th[e][p]
    BY <1>3
  <2>2. ASSUME NEW e \in BlockIds, NEW p \in PartIds, NEW s \in Slots,
               s \in busy16th'[e][p]
        PROVE  \/ s \in busy'[e]
               \/ /\ ppc # "publish16th"
                  /\ e = next_block_in /\ p < next_block_in_16th
    <3>1. s \in busy16th[e][p]
      BY <2>1, <2>2
    <3>2. CASE e = b /\ s = cnum[c]
      <4>1. kind[c] # "fast"
        BY <1>3, <2>2, <3>2
      <4>2. FALSE
        BY <1>6, <3>1, <3>2, <4>1 DEF IndInv, Busy16thInv, Scanning
      <4> QED BY <4>2
    <3>3. CASE ~(e = b /\ s = cnum[c])
      <4>1. s \in busy[e] => s \in busy'[e]
        BY <1>2, <3>3
      <4> QED BY <3>1, <4>1 DEF IndInv, Busy16thInv
    <3> QED BY <3>2, <3>3
  <2>3. \A e \in BlockIds, p \in PartIds, s \in Slots :
          s \in busy16th'[e][p] =>
            \/ s \in cmask16th
            \/ \E d \in Clients : pc[d] = "clearing" /\ cnum[d] = s
    BY <2>1 DEF IndInv, Busy16thInv
  <2>4. \A d \in Clients, e \in BlockIds, p \in PartIds :
          pc[d] = "clearing" /\ e < cursor => cnum[d] \notin busy16th'[e][p]
    BY <2>1, <1>5 DEF IndInv, Busy16thInv, TypeOK
  <2> QED
    BY <1>7, <2>2, <2>3, <2>4 DEF Busy16thInv, SameRoles, maskVars, inVars,
       prodVars, scanVars
<1>13. HeldInv'
  <2>1. ASSUME NEW d \in Clients, pc'[d] = "held"
        PROVE  /\ d # c /\ pc[d] = "held"
               /\ kind[d] # "fast" => cnum[d] \in busy'[next_block_out[cnum[d]]]
               /\ kind[d] = "fast" =>
                    /\ next_block_out_16th[cnum[d]] > 0
                    /\ cnum[d] \in busy16th'[next_block_out[cnum[d]]]
                                        [next_block_out_16th[cnum[d]] - 1]
    <3>1. d # c /\ pc[d] = "held" /\ cnum[d] # cnum[c]
      BY <1>1, <1>6, <2>1 DEF Registered
    <3>2. next_block_out[cnum[d]] \in BlockIds /\ cnum[d] \in Slots
      BY DEF IndInv, TypeOK
    <3>3. kind[d] # "fast" => cnum[d] \in busy'[next_block_out[cnum[d]]]
      BY <1>2, <3>1, <3>2 DEF IndInv, HeldInv
    <3>4. ASSUME kind[d] = "fast"
          PROVE  /\ next_block_out_16th[cnum[d]] > 0
                 /\ cnum[d] \in busy16th'[next_block_out[cnum[d]]]
                                      [next_block_out_16th[cnum[d]] - 1]
      <4>1. /\ next_block_out_16th[cnum[d]] > 0
            /\ next_block_out_16th[cnum[d]] \in 0..Parts
            /\ cnum[d] \in busy16th[next_block_out[cnum[d]]]
                                  [next_block_out_16th[cnum[d]] - 1]
        BY <3>1, <3>4 DEF IndInv, HeldInv, TypeOK
      <4>2. next_block_out_16th[cnum[d]] - 1 \in PartIds
        BY <4>1, SizesAssumption DEF PartIds
      <4> QED BY <1>3, <3>1, <3>2, <4>1, <4>2
    <3> QED BY <3>1, <3>3, <3>4
  <2> QED
    BY <1>1, <2>1 DEF IndInv, HeldInv, Registered, CallsOf, outVars
<1> QED
  BY <1>5, <1>8, <1>9, <1>10, <1>11, <1>12, <1>13 DEF IndInv

\* unlock clears the bit of the caller and of nobody else.
LEMMA UnlockKeeps ==
    ASSUME IndInv, NEW c \in Clients, Unlock(c)
    PROVE  IndInv'
<1> DEFINE b == next_block_out[cnum[c]]
<1>1. b \in BlockIds /\ Registered(c) /\ pc[c] = "held"
  BY DEF Unlock, IndInv, TypeOK, Registered
<1>2. ClearBusy(c, b)
  BY DEF Unlock
<1>3. CASE kind[c] = "fast"
  <2>1. /\ next_block_out_16th[cnum[c]] = Parts
        /\ busy16th' = [busy16th EXCEPT ![b] =
                          [p \in PartIds |-> @[p] \ {cnum[c]}]]
    BY <1>3 DEF Unlock
  <2> QED BY <1>1, <1>2, <1>3, <2>1, ClearBusyKeeps DEF Unlock
<1>4. CASE kind[c] # "fast"
  BY <1>1, <1>2, <1>4, ClearBusyKeeps DEF Unlock
<1> QED BY <1>3, <1>4

\* noop clears the caller's bit, as unlock does, without reading.
LEMMA NoopTestKeeps ==
    ASSUME IndInv, NEW c \in Clients, NoopTest(c)
    PROVE  IndInv'
<1> DEFINE b == next_block_out[cnum[c]]
<1>1. b \in BlockIds /\ Registered(c) /\ pc[c] = "test" /\ kind[c] # "fast"
  BY DEF NoopTest, IndInv, TypeOK, Registered, HeldInv, CallsOf
<1>2. CASE cnum[c] \in busy[b]
  <2>1. ClearBusy(c, b)
    BY <1>2 DEF NoopTest
  <2> QED BY <1>1, <2>1, ClearBusyKeeps DEF NoopTest
<1>3. CASE cnum[c] \notin busy[b]
  <2>1. /\ pc' = [pc EXCEPT ![c] = "willwait"]
        /\ UNCHANGED <<busyVars, still_busy, last_seq>>
    BY <1>3 DEF NoopTest, busyVars
  <2> QED BY <1>1, <2>1, ClientMovesOn DEF NoopTest
<1> QED BY <1>2, <1>3

\* The broadcast and the advance of next_block_out at the end of unlock.
LEMMA UnlockDoneKeeps ==
    ASSUME IndInv, NEW c \in Clients, UnlockDone(c)
    PROVE  IndInv'
<1> DEFINE s == cnum[c]
<1>1. /\ pc[c] = "freeing" /\ pc'[c] = "ready"
      /\ \A d \in Clients : d # c =>
           pc'[d] = pc[d] \/ (pc[d] = "asleep" /\ pc'[d] = "test")
      /\ pc' \in [Clients -> ClientSteps]
  BY DEF UnlockDone, AsleepNotEmpty, IndInv, TypeOK, ClientSteps
<1>2. ppc' = ppc \/ (ppc = "asleep" /\ ppc' = "test")
  BY DEF UnlockDone, WakeProducer
<1>3. SameRoles
  BY <1>1 DEF SameRoles, Registered, Scanning
<1>4. LockInv' /\ SlotInv' /\ BusyInv' /\ Busy16thInv'
  BY <1>2, <1>3, RolesKept DEF UnlockDone
<1>5. s \in Slots /\ next_block_out \in [Slots -> BlockIds]
      /\ next_block_out_16th \in [Slots -> 0..Parts]
  BY DEF IndInv, TypeOK
<1>6. /\ next_block_out' \in [Slots -> BlockIds]
      /\ \A t \in Slots : t # s => next_block_out'[t] = next_block_out[t]
  <2>1. (next_block_out[s] + 1) % Blocks \in BlockIds
    <3>1. next_block_out[s] + 1 \in Int
      BY <1>5 DEF BlockIds
    <3> QED BY <3>1, ModRange, SizesAssumption DEF BlockIds
  <2>2. next_block_out' =
          [next_block_out EXCEPT ![s] = (next_block_out[s] + 1) % Blocks]
    BY DEF UnlockDone
  <2> HIDE DEF s
  <2> QED BY <1>5, <2>1, <2>2
<1>7. /\ next_block_out_16th' \in [Slots -> 0..Parts]
      /\ \A t \in Slots : t # s =>
           next_block_out_16th'[t] = next_block_out_16th[t]
      /\ kind[c] = "fast" => next_block_out_16th'[s] = 0
  <2>1. 0 \in 0..Parts
    BY SizesAssumption
  <2>2. next_block_out_16th' = IF kind[c] = "fast"
                               THEN [next_block_out_16th EXCEPT ![s] = 0]
                               ELSE next_block_out_16th
    BY DEF UnlockDone
  <2> HIDE DEF s
  <2> QED BY <1>5, <2>1, <2>2
<1>8. still_busy' \in [Clients -> BOOLEAN]
  BY DEF UnlockDone, IndInv, TypeOK
<1>9. TypeOK'
  BY <1>1, <1>2, <1>6, <1>7, <1>8 DEF IndInv, TypeOK, UnlockDone, ProducerSteps,
     countVars, inVars, maskVars, busyVars, fillVars, scanVars
<1>10. ProducerInv'
  BY <1>2 DEF IndInv, ProducerInv, InCall, UnlockDone, countVars, inVars,
     maskVars, busyVars
<1>11. HeldInv'
  <2>1. \A d \in Clients : Registered(d) /\ d # c => cnum[d] # s
    BY <1>1 DEF IndInv, SlotInv, Registered
  <2>2. \A d \in Clients : Registered(d) /\ d # c =>
          /\ next_block_out'[cnum[d]] = next_block_out[cnum[d]]
          /\ next_block_out_16th'[cnum[d]] = next_block_out_16th[cnum[d]]
    BY <1>6, <1>7, <2>1 DEF IndInv, TypeOK
  <2>3. ASSUME NEW d \in Clients
        PROVE  /\ pc'[d] = "held" /\ kind[d] # "fast" =>
                    cnum[d] \in busy[next_block_out'[cnum[d]]]
               /\ pc'[d] = "held" /\ kind[d] = "fast" =>
                    /\ next_block_out_16th'[cnum[d]] > 0
                    /\ cnum[d] \in busy16th[next_block_out'[cnum[d]]]
                                        [next_block_out_16th'[cnum[d]] - 1]
               /\ /\ pc'[d] \notin {"out", "marking", "clearing"}
                  /\ kind[d] = "fast"
                  /\ pc'[d] \notin {"held", "freeing"}
                  => next_block_out_16th'[cnum[d]] < Parts
               /\ pc'[d] \in {"test", "willwait", "asleep", "held"} =>
                    op[d] \in CallsOf(kind[d])
    <3>1. CASE d = c
      BY <1>1, <1>7, <3>1, SizesAssumption
    <3>2. CASE d # c
      BY <1>1, <2>2, <3>2 DEF IndInv, HeldInv, Registered
    <3> QED BY <3>1, <3>2
  <2>4. UNCHANGED <<kind, cnum, busy, busy16th, op>>
    BY DEF UnlockDone, busyVars
  <2> QED BY <2>3, <2>4 DEF HeldInv, Registered, CallsOf
<1> QED BY <1>4, <1>9, <1>10, <1>11 DEF IndInv

-----------------------------------------------------------------------------
(* Signing on and off *)

\* The mask of transient consumers is finite, so it has a size.
LEMMA TcmaskFinite ==
    ASSUME TypeOK
    PROVE  IsFiniteSet(tcmask)
<1>1. IsFiniteSet(Slots)
  BY SizesAssumption, FS_Interval DEF Slots
<1> QED BY <1>1, FS_Subset DEF TypeOK

\* A new consumer gets a slot that nobody has, and starts at next_block_in.
LEMMA AddConsumerKeeps ==
    ASSUME IndInv, NEW c \in Clients, NEW k \in Kinds \ {"transient"},
           AddConsumer(c, k)
    PROVE  IndInv'
<1> DEFINE s == FreeSlot
<1>1. s \in Slots /\ s \notin tcmask
  BY FreeSlotIsFree DEF AddConsumer, IndInv, TypeOK, SlotInv
<1>2. /\ pc[c] = "out" /\ cmask' = cmask \cup {s} /\ tcmask' = tcmask \cup {s}
      /\ consumers' = consumers + 1
      /\ next_block_out' = [next_block_out EXCEPT ![s] = next_block_in]
      /\ cmask16th' = (IF k = "fast" THEN cmask16th \cup {s} ELSE cmask16th)
      /\ next_block_out_16th' =
           (IF k = "fast"
            THEN [next_block_out_16th EXCEPT ![s] = next_block_in_16th]
            ELSE next_block_out_16th)
      /\ pc' = [pc EXCEPT ![c] = "ready"] /\ kind' = [kind EXCEPT ![c] = k]
      /\ cnum' = [cnum EXCEPT ![c] = s]
      /\ k \in {"slow", "fast"}
      /\ \A d \in Clients : ~Scanning(d)
      /\ ppc # "publish16th"
  BY OpsAssumption DEF AddConsumer, BufferLocked, Scanning
<1>3. /\ fast_consumers' \in Int /\ consumers' \in Int
      /\ last_seq' \in [Clients -> Int]
  BY DEF AddConsumer, IndInv, TypeOK
<1> HIDE DEF s
<1>4. /\ pc'[c] = "ready" /\ cnum'[c] = s /\ kind'[c] = k
      /\ \A d \in Clients : d # c =>
           pc'[d] = pc[d] /\ cnum'[d] = cnum[d] /\ kind'[d] = kind[d]
  BY <1>2 DEF IndInv, TypeOK
<1>5. /\ next_block_in_16th \in 0..Parts /\ next_block_in_16th < Parts
      /\ next_block_in \in BlockIds
  BY SizesAssumption DEF IndInv, TypeOK, PartIds
<1>6. /\ next_block_out' \in [Slots -> BlockIds]
      /\ next_block_out_16th' \in [Slots -> 0..Parts]
      /\ k = "fast" => next_block_out_16th'[s] = next_block_in_16th
      /\ \A t \in Slots : t # s =>
           /\ next_block_out'[t] = next_block_out[t]
           /\ next_block_out_16th'[t] = next_block_out_16th[t]
  BY <1>1, <1>2, <1>5 DEF IndInv, TypeOK
<1>7. /\ cmask' \subseteq Slots /\ tcmask' \subseteq Slots
      /\ cmask16th' \subseteq Slots
      /\ pc' \in [Clients -> ClientSteps]
      /\ kind' \in [Clients -> {"slow", "fast", "transient"}]
      /\ cnum' \in [Clients -> Slots]
  BY <1>1, <1>2 DEF IndInv, TypeOK, ClientSteps
<1>8. TypeOK'
  BY <1>3, <1>6, <1>7 DEF IndInv, TypeOK, AddConsumer, countVars, inVars,
     busyVars, fillVars, prodVars, scanVars
<1>9. ProducerInv'
  BY <1>2 DEF IndInv, ProducerInv, InCall, AddConsumer, countVars, inVars,
     busyVars, prodVars
<1>10. LockInv'
  BY <1>2, <1>4 DEF LockInv, Scanning
<1>11. SlotInv'
  <2>1. Cardinality(tcmask') = consumers'
    BY <1>1, <1>2, TcmaskFinite, FS_AddElement DEF IndInv, SlotInv
  <2>2. cmask16th' \subseteq cmask' /\ cmask' \subseteq tcmask'
    BY <1>2 DEF IndInv, SlotInv
  <2>3. ASSUME NEW d \in Clients, Registered(d)'
        PROVE  /\ cnum'[d] \in tcmask'
               /\ (kind'[d] = "fast") = (cnum'[d] \in cmask16th')
               /\ d # c => cnum'[d] # s /\ Registered(d)
    <3>1. CASE d = c
      BY <1>1, <1>2, <1>4, <3>1 DEF IndInv, SlotInv
    <3>2. CASE d # c
      BY <1>1, <1>2, <1>4, <2>3, <3>2 DEF IndInv, SlotInv, Registered
    <3> QED BY <3>1, <3>2
  <2>4. \A d, e \in Clients :
          Registered(d)' /\ Registered(e)' /\ cnum'[d] = cnum'[e] => d = e
    BY <1>4, <2>3 DEF IndInv, SlotInv
  <2>5. \A d \in Clients : ~Scanning(d)'
    BY <1>2, <1>4 DEF Scanning
  <2> QED BY <2>1, <2>2, <2>3, <2>4, <2>5 DEF SlotInv
<1>12. BusyInv'
  BY <1>2, <1>4 DEF IndInv, BusyInv, Scanning, AddConsumer, busyVars
<1>13. Busy16thInv'
  BY <1>2, <1>4 DEF IndInv, Busy16thInv, Scanning, AddConsumer, busyVars,
     inVars, prodVars
<1>14. HeldInv'
  <2>1. \A d \in Clients : d # c /\ Registered(d) => cnum[d] # s
    BY <1>1 DEF IndInv, SlotInv
  <2>2. \A d \in Clients : d # c /\ Registered(d) =>
          /\ next_block_out'[cnum[d]] = next_block_out[cnum[d]]
          /\ next_block_out_16th'[cnum[d]] = next_block_out_16th[cnum[d]]
    BY <1>6, <2>1 DEF IndInv, TypeOK
  <2>3. UNCHANGED <<busy, busy16th, op>>
    BY DEF AddConsumer, busyVars
  <2>4. ASSUME NEW d \in Clients
        PROVE  /\ pc'[d] = "held" /\ kind'[d] # "fast" =>
                    cnum'[d] \in busy[next_block_out'[cnum'[d]]]
               /\ pc'[d] = "held" /\ kind'[d] = "fast" =>
                    /\ next_block_out_16th'[cnum'[d]] > 0
                    /\ cnum'[d] \in busy16th[next_block_out'[cnum'[d]]]
                                        [next_block_out_16th'[cnum'[d]] - 1]
               /\ /\ pc'[d] \notin {"out", "marking", "clearing"}
                  /\ kind'[d] = "fast"
                  /\ pc'[d] \notin {"held", "freeing"}
                  => next_block_out_16th'[cnum'[d]] < Parts
               /\ pc'[d] \in {"test", "willwait", "asleep", "held"} =>
                    op[d] \in CallsOf(kind'[d])
    <3>1. CASE d = c
      BY <1>4, <1>5, <1>6, <3>1
    <3>2. CASE d # c
      BY <1>4, <2>2, <3>2 DEF IndInv, HeldInv, Registered
    <3> QED BY <3>1, <3>2
  <2> QED BY <2>3, <2>4 DEF HeldInv, Registered, CallsOf
<1> QED
  BY <1>8, <1>9, <1>10, <1>11, <1>12, <1>13, <1>14 DEF IndInv

\* The window arithmetic of add_transient_consumer yields integers.
LEMMA WindowType ==
    ASSUME TypeOK, NEW r \in Requests
    PROVE  TransientWindow(r) \in Int \X Int
<1>1. r[1] \in Nat /\ r[2] \in Nat
  BY GpsAssumption
<1>2. PlaybackWindow(r[1]) \in Int \X Int
  <2> DEFINE span == Blocks * BlockPeriod - 1
             want == IF r[1] > span THEN span ELSE r[1]
             x    == next_block_in + Blocks - want \div BlockPeriod
             idx  == x % Blocks
  <2>1. span \in Int
    BY SizesAssumption
  <2>2. want \in Int
    BY <1>1, <2>1
  <2> HIDE DEF want
  <2>3. want \div BlockPeriod \in Int
    BY <2>2, SizesAssumption
  <2>4. x \in Int
    BY <2>3, SizesAssumption DEF TypeOK, BlockIds
  <2> HIDE DEF x
  <2>5. idx \in BlockIds /\ 0 \in BlockIds
    BY <2>4, ModRange, SizesAssumption DEF BlockIds
  <2> HIDE DEF idx
  <2>6. gps[idx] \in Int /\ gps[0] \in Int /\ puts * BlockPeriod \in Int
    BY <2>5, SizesAssumption DEF TypeOK
  <2>7. PlaybackWindow(r[1]) = IF idx > puts
                               THEN <<gps[0], gps[0] + puts * BlockPeriod>>
                               ELSE <<gps[idx], gps[idx] + want>>
    BY DEF PlaybackWindow, want, idx, x
  <2> QED BY <2>2, <2>6, <2>7
<1> QED BY <1>1, <1>2 DEF TransientWindow

\* add_transient_consumer takes the buffer lock; its slot has no bit anywhere.
LEMMA AddTransientKeeps ==
    ASSUME IndInv, NEW c \in Clients, NEW r \in Requests, AddTransient(c, r)
    PROVE  IndInv'
<1> DEFINE s == FreeSlot
<1>1. s \in Slots /\ s \notin tcmask
  BY FreeSlotIsFree DEF AddTransient, IndInv, TypeOK, SlotInv
<1>2. /\ pc[c] = "out" /\ pc' = [pc EXCEPT ![c] = "marking"]
      /\ cnum' = [cnum EXCEPT ![c] = s]
      /\ \A d \in Clients : ~Scanning(d)
      /\ ppc # "publish16th"
  BY DEF AddTransient, BufferLocked, Scanning
<1>3. window' \in Int \X Int
  BY WindowType DEF AddTransient, IndInv
<1>4. cursor' \in BlockIds
  BY ModRange, SizesAssumption DEF AddTransient, IndInv, TypeOK, BlockIds
<1> HIDE DEF s
<1>5. /\ pc'[c] = "marking" /\ cnum'[c] = s
      /\ \A d \in Clients : d # c => pc'[d] = pc[d] /\ cnum'[d] = cnum[d]
      /\ pc' \in [Clients -> ClientSteps] /\ cnum' \in [Clients -> Slots]
  BY <1>1, <1>2 DEF IndInv, TypeOK, ClientSteps
<1>6. TypeOK'
  BY <1>3, <1>4, <1>5 DEF IndInv, TypeOK, AddTransient, countVars, inVars,
     outVars, maskVars, busyVars, fillVars, prodVars
<1>7. ProducerInv'
  BY DEF IndInv, ProducerInv, InCall, AddTransient, countVars, inVars,
     maskVars, busyVars, prodVars
<1>8. LockInv'
  BY <1>2, <1>5 DEF LockInv, Scanning, AddTransient, prodVars
<1>9. \A b \in BlockIds : busy[b] \subseteq tcmask
  BY <1>2 DEF IndInv, BusyInv, TypeOK
<1>10. SlotInv'
  BY <1>1, <1>2, <1>5
     DEF IndInv, SlotInv, Registered, Scanning, AddTransient, maskVars
<1>11. BusyInv'
  BY <1>1, <1>2, <1>5, <1>9
     DEF BusyInv, Scanning, AddTransient, maskVars, busyVars
<1>12. Busy16thInv'
  BY <1>2, <1>5 DEF IndInv, Busy16thInv, Scanning, AddTransient, maskVars,
     busyVars, inVars, prodVars
<1>13. HeldInv'
  BY <1>2, <1>5 DEF IndInv, HeldInv, Registered, CallsOf, AddTransient,
     busyVars, outVars
<1> QED
  BY <1>6, <1>7, <1>8, <1>10, <1>11, <1>12, <1>13 DEF IndInv

\* Marking never touches the block the producer works on.
LEMMA MarkBlockKeeps ==
    ASSUME IndInv, NEW c \in Clients, MarkBlock(c)
    PROVE  IndInv'
<1>1. /\ pc[c] = "marking" /\ Scanning(c) /\ cursor \in BlockIds
      /\ cursor # next_block_in /\ cnum[c] \in Slots
      /\ \A d \in Clients : Scanning(d) => d = c
      /\ ppc # "publish16th"
  BY DEF MarkBlock, Scanning, IndInv, LockInv, TypeOK
<1>2. cursor' \in BlockIds
  BY <1>1, ModRange, SizesAssumption DEF MarkBlock, BlockIds
<1>3. /\ busy' \in [BlockIds -> SUBSET Slots]
      /\ first_block' \in BlockIds \cup {-1}
      /\ \A b \in BlockIds : b # cursor => busy'[b] = busy[b]
      /\ busy'[cursor] \subseteq busy[cursor] \cup {cnum[c]}
      /\ \A b \in BlockIds : busy[b] \subseteq busy'[b]
      /\ first_block' < 0 => first_block < 0 /\ busy' = busy
  <2>1. CASE window[1] <= gps[cursor] /\ gps[cursor] < window[2]
    <3>1. /\ busy' = [busy EXCEPT ![cursor] = busy[cursor] \cup {cnum[c]}]
          /\ first_block' = IF first_block < 0 THEN cursor ELSE first_block
      BY <2>1 DEF MarkBlock
    <3>2. first_block \in BlockIds \cup {-1} /\ busy \in [BlockIds -> SUBSET Slots]
      BY DEF IndInv, TypeOK
    <3>3. first_block' \in BlockIds
      BY <1>1, <3>1, <3>2, SizesAssumption DEF BlockIds
    <3>4. ~(first_block' < 0)
      BY <3>3, SizesAssumption DEF BlockIds
    <3> QED BY <1>1, <3>1, <3>2, <3>3, <3>4
  <2>2. CASE ~(window[1] <= gps[cursor] /\ gps[cursor] < window[2])
    BY <2>2 DEF MarkBlock, IndInv, TypeOK
  <2> QED BY <2>1, <2>2
<1>4. TypeOK'
  BY <1>2, <1>3 DEF IndInv, TypeOK, MarkBlock, countVars, inVars, outVars,
     maskVars, fillVars, prodVars, clientVars
<1>5. ProducerInv'
  BY <1>1, <1>3 DEF IndInv, TypeOK, ProducerInv, InCall, MarkBlock, countVars,
     inVars, maskVars, prodVars
<1>6. LockInv'
  BY DEF IndInv, LockInv, Scanning, MarkBlock, prodVars, clientVars
<1>7. SlotInv'
  BY DEF IndInv, SlotInv, Registered, Scanning, MarkBlock, maskVars, clientVars
<1>8. BusyInv'
  <2>1. \A b \in BlockIds, t \in Slots : t \in busy'[b] =>
          t \in tcmask \/ \E d \in Clients : Scanning(d) /\ cnum[d] = t
    BY <1>1, <1>3 DEF IndInv, BusyInv
  <2>2. \A d \in Clients : pc[d] # "clearing"
    BY <1>1 DEF Scanning
  <2>3. \A d \in Clients, b \in BlockIds :
          pc[d] = "marking" /\ first_block' < 0 => cnum[d] \notin busy'[b]
    BY <1>3 DEF IndInv, BusyInv
  <2> QED
    BY <2>1, <2>2, <2>3 DEF BusyInv, Scanning, MarkBlock, maskVars, clientVars
<1>9. Busy16thInv'
  <2>1. \A d \in Clients : pc[d] # "clearing"
    BY <1>1 DEF Scanning
  <2>2. \A b \in BlockIds, p \in PartIds, t \in Slots : t \in busy16th[b][p] =>
          t \in busy'[b] \/ (b = next_block_in /\ p < next_block_in_16th)
    BY <1>3 DEF IndInv, Busy16thInv
  <2> QED
    BY <1>1, <2>1, <2>2 DEF IndInv, Busy16thInv, MarkBlock, maskVars, clientVars,
       inVars, prodVars
<1>10. HeldInv'
  BY <1>3 DEF IndInv, TypeOK, HeldInv, Registered, CallsOf, MarkBlock, outVars,
     clientVars
<1> QED
  BY <1>4, <1>5, <1>6, <1>7, <1>8, <1>9, <1>10 DEF IndInv

\* The transient consumer signs on, or gives its slot back unused.
LEMMA AddTransientDoneKeeps ==
    ASSUME IndInv, NEW c \in Clients, AddTransientDone(c)
    PROVE  IndInv'
<1> DEFINE s == cnum[c]
<1>1. /\ pc[c] = "marking" /\ Scanning(c) /\ s \in Slots /\ s \notin tcmask
      /\ \A d \in Clients : Scanning(d) => d = c
      /\ ppc # "publish16th"
  BY DEF AddTransientDone, Scanning, IndInv, LockInv, SlotInv, TypeOK
<1>2. \A d \in Clients : pc[d] # "clearing"
  BY <1>1 DEF Scanning
<1>5. /\ cursor' \in BlockIds /\ window' \in Int \X Int
      /\ first_block' \in BlockIds \cup {-1}
  BY SizesAssumption DEF AddTransientDone, BlockIds
<1>3. CASE first_block < 0
  <2>1. /\ pc'[c] = "out" /\ \A d \in Clients : d # c => pc'[d] = pc[d]
        /\ pc' \in [Clients -> ClientSteps]
        /\ UNCHANGED <<maskVars, outVars, kind, cnum, op, still_busy, last_seq>>
    BY <1>3 DEF AddTransientDone, maskVars, outVars, clientVars, IndInv, TypeOK,
       ClientSteps
  <2>2. TypeOK'
    BY <1>5, <2>1 DEF IndInv, TypeOK, AddTransientDone, countVars,
       inVars, outVars, maskVars, busyVars, fillVars, prodVars
  <2>3. ProducerInv'
    BY <2>1 DEF IndInv, ProducerInv, InCall, AddTransientDone, countVars, inVars,
       maskVars, busyVars, prodVars
  <2>4. LockInv'
    BY <1>1, <2>1 DEF LockInv, Scanning
  <2>5. SlotInv'
    BY <1>1, <2>1 DEF IndInv, SlotInv, Registered, Scanning, maskVars
  <2>6. BusyInv'
    <3>1. \A b \in BlockIds : s \notin busy[b]
      BY <1>1, <1>3 DEF IndInv, BusyInv
    <3>2. \A b \in BlockIds, t \in Slots : t \in busy[b] => t \in tcmask
      BY <1>1, <3>1 DEF IndInv, BusyInv
    <3>3. \A d \in Clients : pc'[d] \notin {"marking", "clearing"}
      BY <1>1, <2>1 DEF Scanning
    <3> QED
      BY <2>1, <3>2, <3>3 DEF BusyInv, AddTransientDone, maskVars, busyVars
  <2>7. Busy16thInv'
    BY <1>1, <1>2, <2>1 DEF IndInv, Busy16thInv, AddTransientDone, maskVars,
       busyVars, inVars, prodVars
  <2>8. HeldInv'
    BY <2>1 DEF IndInv, HeldInv, Registered, CallsOf, AddTransientDone, busyVars,
       outVars
  <2> QED BY <2>2, <2>3, <2>4, <2>5, <2>6, <2>7, <2>8 DEF IndInv
<1>4. CASE ~(first_block < 0)
  <2>1. /\ pc'[c] = "ready" /\ \A d \in Clients : d # c => pc'[d] = pc[d]
        /\ kind'[c] = "transient"
        /\ \A d \in Clients : d # c => kind'[d] = kind[d]
        /\ pc' \in [Clients -> ClientSteps]
        /\ kind' \in [Clients -> {"slow", "fast", "transient"}]
    BY <1>4 DEF AddTransientDone, IndInv, TypeOK, ClientSteps
  <2>2. /\ tcmask' = tcmask \cup {s} /\ consumers' = consumers + 1
        /\ next_block_out' = [next_block_out EXCEPT ![s] = first_block]
        /\ transient_consumers' \in Int /\ consumers' \in Int
        /\ UNCHANGED <<cnum, cmask, cmask16th, fast_consumers, busyVars, ppc,
                       next_block_out_16th, op>>
    BY <1>4 DEF AddTransientDone, IndInv, TypeOK, prodVars
  <2>3. first_block \in BlockIds
    BY <1>4 DEF IndInv, TypeOK
  <2>4. /\ next_block_out' \in [Slots -> BlockIds]
        /\ \A t \in Slots : t # s => next_block_out'[t] = next_block_out[t]
    BY <1>1, <2>2, <2>3 DEF IndInv, TypeOK
  <2>5. last_seq' \in [Clients -> Int]
    BY <1>4, <2>3 DEF AddTransientDone, IndInv, TypeOK
  <2>6. TypeOK'
    <3>1. tcmask' \subseteq Slots
      BY <1>1, <2>2 DEF IndInv, TypeOK
    <3> QED
      BY <1>5, <2>1, <2>2, <2>4, <2>5, <3>1
         DEF IndInv, TypeOK, AddTransientDone, countVars, inVars, busyVars,
             fillVars, prodVars
  <2>7. ProducerInv'
    BY <1>1 DEF IndInv, ProducerInv, InCall, AddTransientDone, countVars, inVars,
       busyVars, prodVars
  <2>8. LockInv'
    BY <1>1, <2>1, <2>2 DEF LockInv, Scanning
  <2>9. \A d \in Clients : d # c /\ Registered(d) => cnum[d] # s
    BY <1>1 DEF IndInv, SlotInv
  <2>10. SlotInv'
    <3>1. Cardinality(tcmask') = consumers'
      BY <1>1, <2>2, TcmaskFinite, FS_AddElement DEF IndInv, SlotInv
    <3>2. s \notin cmask16th
      BY <1>1 DEF IndInv, SlotInv
    <3>3. \A d \in Clients : ~Scanning(d)'
      BY <1>1, <2>1 DEF Scanning
    <3>4. \A d \in Clients : Registered(d)' <=> Registered(d) \/ d = c
      BY <2>1 DEF Registered
    <3>5. cmask16th' \subseteq cmask' /\ cmask' \subseteq tcmask'
      BY <2>2 DEF IndInv, SlotInv
    <3>6. ASSUME NEW d \in Clients, Registered(d)'
          PROVE  /\ cnum'[d] \in tcmask'
                 /\ (kind'[d] = "fast") = (cnum'[d] \in cmask16th')
      <4>1. CASE d = c
        BY <2>1, <2>2, <3>2, <4>1
      <4>2. CASE d # c
        BY <2>1, <2>2, <3>4, <3>6, <4>2 DEF IndInv, SlotInv
      <4> QED BY <4>1, <4>2
    <3>7. \A d, e \in Clients :
            Registered(d)' /\ Registered(e)' /\ cnum'[d] = cnum'[e] => d = e
      BY <2>2, <2>9, <3>4 DEF IndInv, SlotInv
    <3> QED BY <3>1, <3>3, <3>5, <3>6, <3>7 DEF SlotInv
  <2>11. BusyInv'
    <3>1. \A b \in BlockIds, t \in Slots : t \in busy[b] => t \in tcmask'
      BY <1>1, <2>2 DEF IndInv, BusyInv
    <3>2. \A d \in Clients : pc'[d] \notin {"marking", "clearing"}
      BY <1>1, <2>1 DEF Scanning
    <3> QED BY <2>2, <3>1, <3>2 DEF BusyInv, busyVars
  <2>12. Busy16thInv'
    BY <1>1, <1>2, <2>1, <2>2 DEF IndInv, Busy16thInv, AddTransientDone,
       busyVars, inVars
  <2>13. HeldInv'
    <3>1. \A d \in Clients : d # c /\ Registered(d) =>
            next_block_out'[cnum[d]] = next_block_out[cnum[d]]
      BY <2>4, <2>9 DEF IndInv, TypeOK
    <3> HIDE DEF s
    <3> QED
      BY <2>1, <2>2, <3>1 DEF IndInv, HeldInv, Registered, CallsOf, busyVars
  <2> QED BY <2>6, <2>7, <2>8, <2>10, <2>11, <2>12, <2>13 DEF IndInv
<1> QED BY <1>3, <1>4

\* delete_consumer takes the slot out of the masks; its busy bits stay until
\* the loop over the blocks has cleared them.
LEMMA DeleteConsumerKeeps ==
    ASSUME IndInv, NEW c \in Clients, DeleteConsumer(c)
    PROVE  IndInv'
<1> DEFINE s == cnum[c]
<1>1. /\ Registered(c) /\ pc[c] \in {"ready", "finished"} /\ s \in tcmask
      /\ s \in Slots
      /\ \A d \in Clients : ~Scanning(d)
      /\ ppc # "publish16th"
  BY DEF DeleteConsumer, Registered, BufferLocked, Scanning, IndInv, SlotInv,
     TypeOK
<1>2. /\ pc'[c] = "clearing" /\ \A d \in Clients : d # c => pc'[d] = pc[d]
      /\ pc' \in [Clients -> ClientSteps]
  BY DEF DeleteConsumer, IndInv, TypeOK, ClientSteps
<1>3. /\ tcmask' = tcmask \ {s} /\ consumers' = consumers - 1
      /\ cmask16th' = cmask16th \ {s} /\ cmask' = cmask \ {s}
      /\ UNCHANGED <<cnum, kind, op, busyVars, outVars, inVars, ppc>>
      /\ cursor' = 0
  BY DEF DeleteConsumer, prodVars
<1>4. /\ fast_consumers' \in Int /\ transient_consumers' \in Int
      /\ consumers' \in Int
  BY DEF DeleteConsumer, IndInv, TypeOK
<1>5. TypeOK'
  <2>1. /\ cmask' \subseteq Slots /\ tcmask' \subseteq Slots
        /\ cmask16th' \subseteq Slots
    BY <1>3 DEF IndInv, TypeOK
  <2>2. cursor' \in BlockIds
    BY <1>3, SizesAssumption DEF BlockIds
  <2> QED
    BY <1>2, <1>4, <2>1, <2>2 DEF IndInv, TypeOK, DeleteConsumer, countVars,
       inVars, outVars, busyVars, fillVars, prodVars
<1>6. ProducerInv'
  BY <1>1 DEF IndInv, ProducerInv, InCall, DeleteConsumer, countVars, inVars,
     busyVars, prodVars
<1>7. LockInv'
  BY <1>1, <1>2, <1>3 DEF LockInv, Scanning
<1>8. \A d \in Clients : d # c /\ Registered(d) => cnum[d] # s
  BY <1>1 DEF IndInv, SlotInv
<1>9. SlotInv'
  <2>1. Cardinality(tcmask') = consumers'
    BY <1>1, <1>3, TcmaskFinite, FS_RemoveElement DEF IndInv, SlotInv
  <2>2. \A d \in Clients : Registered(d)' <=> Registered(d) /\ d # c
    BY <1>2 DEF Registered
  <2>3. \A d \in Clients : Scanning(d)' => d = c
    BY <1>1, <1>2 DEF Scanning
  <2>4. ASSUME NEW d \in Clients, Registered(d)'
        PROVE  /\ cnum'[d] \in tcmask'
               /\ (kind'[d] = "fast") = (cnum'[d] \in cmask16th')
    <3>1. d # c /\ Registered(d) /\ cnum[d] # s
      BY <1>8, <2>2, <2>4
    <3> HIDE DEF s
    <3> QED BY <1>3, <3>1 DEF IndInv, SlotInv
  <2>5. \A d, e \in Clients :
          Registered(d)' /\ Registered(e)' /\ cnum'[d] = cnum'[e] => d = e
    BY <1>3, <2>2 DEF IndInv, SlotInv
  <2>6. cmask16th' \subseteq cmask' /\ cmask' \subseteq tcmask'
    BY <1>3 DEF IndInv, SlotInv
  <2>7. cnum'[c] \notin tcmask'
    BY <1>3
  <2> QED BY <2>1, <2>3, <2>4, <2>5, <2>6, <2>7 DEF SlotInv
<1>10. \A b \in BlockIds : ~(b < 0)
  BY SizesAssumption DEF BlockIds
<1>11. BusyInv'
  <2>1. \A b \in BlockIds, t \in Slots : t \in busy[b] => t \in tcmask
    BY <1>1 DEF IndInv, BusyInv
  <2>2. Scanning(c)' /\ \A d \in Clients : pc'[d] # "marking"
    BY <1>1, <1>2 DEF Scanning
  <2> QED BY <1>3, <1>10, <2>1, <2>2 DEF BusyInv, busyVars
<1>12. Busy16thInv'
  <2>1. \A b \in BlockIds, p \in PartIds, t \in Slots : t \in busy16th[b][p] =>
          /\ t \in cmask16th' \/ t = s
          /\ t \in busy[b] \/ (b = next_block_in /\ p < next_block_in_16th)
    BY <1>1, <1>3 DEF IndInv, Busy16thInv, Scanning
  <2> QED
    BY <1>1, <1>2, <1>3, <1>10, <2>1 DEF Busy16thInv, busyVars, inVars
<1>13. HeldInv'
  BY <1>2, <1>3 DEF IndInv, HeldInv, Registered, CallsOf, busyVars, outVars
<1> QED
  BY <1>5, <1>6, <1>7, <1>9, <1>11, <1>12, <1>13 DEF IndInv

\* One round of the loop of delete_consumer; after the last one no bit of the
\* slot is left.
LEMMA ClearBlockKeeps ==
    ASSUME IndInv, NEW c \in Clients, ClearBlock(c)
    PROVE  IndInv'
<1> DEFINE s == cnum[c]
<1>1. /\ pc[c] = "clearing" /\ Scanning(c) /\ s \in Slots /\ s \notin tcmask
      /\ \A d \in Clients : Scanning(d) => d = c
      /\ ppc # "publish16th" /\ cursor \in BlockIds
  BY DEF ClearBlock, Scanning, IndInv, LockInv, SlotInv, TypeOK
<1>2. /\ busy' \in [BlockIds -> SUBSET Slots]
      /\ \A b \in BlockIds :
           busy'[b] = IF b = cursor THEN busy[b] \ {s} ELSE busy[b]
  BY <1>1 DEF ClearBlock, IndInv, TypeOK
<1>3. /\ busy16th' \in [BlockIds -> [PartIds -> SUBSET Slots]]
      /\ \A b \in BlockIds, p \in PartIds :
           busy16th'[b][p] = IF b = cursor THEN busy16th[b][p] \ {s}
                             ELSE busy16th[b][p]
  <2>1. /\ busy16th \in [BlockIds -> [PartIds -> SUBSET Slots]]
        /\ busy16th' = [busy16th EXCEPT ![cursor] =
                          [p \in PartIds |-> busy16th[cursor][p] \ {s}]]
    BY DEF ClearBlock, IndInv, TypeOK
  <2> HIDE DEF s
  <2> QED BY <1>1, <2>1
<1>4. ppc' = ppc \/ (ppc = "asleep" /\ ppc' = "test")
  BY DEF ClearBlock, WakeProducer
<1>5. /\ \A d \in Clients : d # c => pc'[d] = pc[d]
      /\ pc' \in [Clients -> ClientSteps]
      /\ \/ pc'[c] = "clearing" /\ cursor' = cursor + 1 /\ cursor # Blocks - 1
         \/ pc'[c] = "out" /\ cursor' = 0 /\ cursor = Blocks - 1
  BY <1>1 DEF ClearBlock, IndInv, TypeOK, ClientSteps
<1>6. TypeOK'
  <2>1. cursor' \in BlockIds
    BY <1>1, <1>5, SizesAssumption DEF BlockIds
  <2> QED
    BY <1>2, <1>3, <1>4, <1>5, <2>1 DEF IndInv, TypeOK, ClearBlock,
       ProducerSteps, countVars, inVars, outVars, maskVars, fillVars
<1>7. ProducerInv'
  BY <1>1, <1>2, <1>4 DEF IndInv, TypeOK, ProducerInv, InCall, ClearBlock,
     countVars, inVars, maskVars
<1>8. LockInv'
  BY <1>1, <1>4, <1>5 DEF LockInv, Scanning
<1>9. UNCHANGED <<maskVars, kind, cnum, op, outVars, inVars, first_block>>
  BY DEF ClearBlock
<1>10. SlotInv'
  BY <1>1, <1>5, <1>9 DEF IndInv, SlotInv, Registered, Scanning, maskVars
<1>11. \A b \in BlockIds : b <= cursor =>
         s \notin busy'[b] /\ \A p \in PartIds : s \notin busy16th'[b][p]
  <2>1. TAKE b \in BlockIds
  <2>2. CASE b = cursor
    BY <1>2, <1>3, <2>2
  <2>3. CASE b < cursor
    <3>1. s \notin busy[b]
      BY <1>1, <2>3 DEF IndInv, BusyInv
    <3>2. \A p \in PartIds : s \notin busy16th[b][p]
      BY <1>1, <2>3 DEF IndInv, Busy16thInv
    <3>3. b # cursor
      BY <1>1, <2>3, SizesAssumption DEF BlockIds
    <3> HIDE DEF s
    <3> QED BY <1>2, <1>3, <3>1, <3>2, <3>3
  <2> QED BY <1>1, <2>2, <2>3, SizesAssumption DEF BlockIds
<1>12. pc'[c] = "out" => \A b \in BlockIds : b <= cursor
  BY <1>1, <1>5, SizesAssumption DEF BlockIds
<1>13. pc'[c] = "clearing" => \A b \in BlockIds : b < cursor' => b <= cursor
  BY <1>1, <1>5, SizesAssumption DEF BlockIds
<1>14. \A d \in Clients : d # c => pc'[d] \notin {"marking", "clearing"}
  BY <1>1, <1>5 DEF Scanning
<1>15. pc'[c] = "clearing" \/ pc'[c] = "out"
  BY <1>5
<1> HIDE DEF s
<1>16. BusyInv'
  <2>1. \A b \in BlockIds, t \in Slots :
          t \in busy'[b] => t \in tcmask \/ (t = s /\ pc'[c] = "clearing")
    <3>1. TAKE b \in BlockIds, t \in Slots
    <3>2. CASE t = s
      BY <1>11, <1>12, <1>15, <3>2
    <3>3. CASE t # s
      BY <1>1, <1>2, <3>3 DEF IndInv, BusyInv, s
    <3> QED BY <3>2, <3>3
  <2> QED
    BY <1>9, <1>11, <1>13, <1>14, <1>15, <2>1 DEF BusyInv, Scanning, maskVars, s
<1>17. Busy16thInv'
  <2>1. ASSUME NEW b \in BlockIds, NEW p \in PartIds, NEW t \in Slots,
               t \in busy16th'[b][p]
        PROVE  /\ t \in cmask16th \/ (t = s /\ pc'[c] = "clearing")
               /\ t \in busy'[b] \/ (b = next_block_in /\ p < next_block_in_16th)
    <3>1. t \in busy16th[b][p]
      BY <1>3, <2>1
    <3>2. t \in busy'[b] \/ (b = next_block_in /\ p < next_block_in_16th)
      <4>1. t \in busy[b] \/ (b = next_block_in /\ p < next_block_in_16th)
        BY <3>1 DEF IndInv, Busy16thInv
      <4>2. ~(b = cursor /\ t = s)
        BY <1>3, <2>1
      <4> QED BY <1>2, <4>1, <4>2
    <3>3. CASE t = s
      BY <1>11, <1>12, <1>15, <2>1, <3>2, <3>3
    <3>4. CASE t # s
      <4>1. t \in cmask16th
        BY <1>1, <3>1, <3>4 DEF IndInv, Busy16thInv, Scanning, s
      <4> QED BY <3>2, <4>1
    <3> QED BY <3>3, <3>4
  <2>2. ppc' # "publish16th"
    BY <1>1, <1>4
  <2> QED
    BY <1>9, <1>11, <1>13, <1>14, <2>1, <2>2
       DEF Busy16thInv, maskVars, inVars, s
<1>18. HeldInv'
  <2>1. \A d \in Clients : Registered(d) => cnum[d] # s
    BY <1>1 DEF IndInv, SlotInv, s
  <2>2. \A d \in Clients : Registered(d)' => Registered(d) /\ pc'[d] = pc[d]
    BY <1>5 DEF Registered
  <2>3. ASSUME NEW d \in Clients, pc'[d] = "held"
        PROVE  /\ pc[d] = "held"
               /\ kind[d] # "fast" => cnum[d] \in busy'[next_block_out[cnum[d]]]
               /\ kind[d] = "fast" =>
                    /\ next_block_out_16th[cnum[d]] > 0
                    /\ cnum[d] \in busy16th'[next_block_out[cnum[d]]]
                                        [next_block_out_16th[cnum[d]] - 1]
    <3>1. pc[d] = "held" /\ cnum[d] # s
      BY <1>5, <2>1, <2>3 DEF Registered
    <3>2. next_block_out[cnum[d]] \in BlockIds /\ cnum[d] \in Slots
      BY DEF IndInv, TypeOK
    <3>3. kind[d] # "fast" => cnum[d] \in busy'[next_block_out[cnum[d]]]
      BY <1>2, <3>1, <3>2 DEF IndInv, HeldInv
    <3>4. ASSUME kind[d] = "fast"
          PROVE  /\ next_block_out_16th[cnum[d]] > 0
                 /\ cnum[d] \in busy16th'[next_block_out[cnum[d]]]
                                      [next_block_out_16th[cnum[d]] - 1]
      <4>1. /\ next_block_out_16th[cnum[d]] > 0
            /\ next_block_out_16th[cnum[d]] \in 0..Parts
            /\ cnum[d] \in busy16th[next_block_out[cnum[d]]]
                                  [next_block_out_16th[cnum[d]] - 1]
        BY <3>1, <3>4 DEF IndInv, HeldInv, TypeOK
      <4>2. next_block_out_16th[cnum[d]] - 1 \in PartIds
        BY <4>1, SizesAssumption DEF PartIds
      <4> QED BY <1>3, <3>1, <3>2, <4>1, <4>2
    <3> QED BY <3>1, <3>3, <3>4
  <2> QED
    BY <1>5, <1>9, <2>3 DEF IndInv, HeldInv, Registered, CallsOf, outVars
<1> QED
  BY <1>6, <1>7, <1>8, <1>10, <1>16, <1>17, <1>18 DEF IndInv

-----------------------------------------------------------------------------
(* The theorems *)

\* A new buffer satisfies IndInv.
LEMMA InitEstablishes == Init => IndInv
<1> SUFFICES ASSUME Init PROVE IndInv
  OBVIOUS
<1>1. Cardinality(Preset) \in Nat /\ Cardinality(Preset) <= MaxConsumers
  BY PresetAssumption, FS_CardinalityType
<1>2. /\ tcmask \subseteq Slots /\ consumers = Cardinality(tcmask)
      /\ consumers \in Int
  <2> DEFINE n == Cardinality(Preset)
  <2>1. tcmask = 0..(n - 1) /\ consumers = n
    BY DEF Init
  <2>2. n \in Nat /\ n <= MaxConsumers
    BY <1>1
  <2> HIDE DEF n
  <2>3. 0..(n - 1) \subseteq Slots
    BY <2>2, SizesAssumption DEF Slots
  <2>4. Cardinality(0..(n - 1)) = IF 0 > n - 1 THEN 0 ELSE (n - 1) - 0 + 1
    <3>1. 0 \in Int /\ n - 1 \in Int
      BY <2>2
    <3> QED BY <3>1, FS_Interval
  <2>5. Cardinality(0..(n - 1)) = n
    BY <2>2, <2>4
  <2> QED BY <2>1, <2>2, <2>3, <2>5
<1>3. 0 \in Slots /\ 0 \in BlockIds /\ 0 \in PartIds /\ 0 \in 0..Parts
  BY SizesAssumption DEF Slots, BlockIds, PartIds
<1>4. /\ cnum \in [Clients -> Slots]
      /\ \A c \in Preset : cnum[c] \in tcmask
      /\ \A c, d \in Preset : cnum[c] = cnum[d] => c = d
  BY <1>2, <1>3, PresetAssumption DEF Init
<1>5. \A c \in Clients : /\ kind[c] = "slow"
                         /\ c \in Preset => pc[c] = "ready"
                         /\ c \notin Preset => pc[c] = "out"
  BY DEF Init
<1>6. TypeOK
  BY <1>2, <1>3, <1>4 DEF Init, TypeOK, PutCalls, WholePuts, PartPuts, GetCalls,
     ProducerSteps, ClientSteps
<1>7. ProducerInv
  BY SizesAssumption DEF Init, ProducerInv, InCall
<1>8. LockInv
  BY <1>5 DEF Init, LockInv, Scanning
<1>9. SlotInv
  BY <1>2, <1>4, <1>5 DEF Init, SlotInv, Registered, Scanning
<1>10. BusyInv
  BY <1>5 DEF Init, BusyInv
<1>11. Busy16thInv
  BY <1>5 DEF Init, Busy16thInv
<1>12. HeldInv
  BY <1>5 DEF Init, HeldInv
<1> QED BY <1>6, <1>7, <1>8, <1>9, <1>10, <1>11, <1>12 DEF IndInv

\* A step that changes nothing keeps IndInv.
LEMMA StutterKeeps ==
    ASSUME IndInv, UNCHANGED vars
    PROVE  IndInv'
  BY DEF IndInv, TypeOK, ProducerInv, InCall, LockInv, SlotInv, BusyInv,
     Busy16thInv, HeldInv, Registered, Scanning, CallsOf, vars, countVars, inVars,
     outVars, maskVars, busyVars, fillVars, prodVars, clientVars, scanVars

\* Every step of every thread keeps IndInv.
LEMMA NextKeeps == IndInv /\ [Next]_vars => IndInv'
<1> SUFFICES ASSUME IndInv, [Next]_vars PROVE IndInv'
  OBVIOUS
<1>1. CASE Put
  BY <1>1, PutCallKeeps, PutWaitKeeps, PutFillKeeps, PutPublishKeeps,
     PutPublish16thKeeps, PutDropKeeps, PutSignalKeeps DEF Put
<1>2. ASSUME NEW c \in Clients, SignOnOff(c)
      PROVE  IndInv'
  BY <1>2, AddConsumerKeeps, AddTransientKeeps, MarkBlockKeeps,
     AddTransientDoneKeeps, DeleteConsumerKeeps, ClearBlockKeeps DEF SignOnOff
<1>3. ASSUME NEW c \in Clients, Consume(c)
      PROVE  IndInv'
  BY <1>3, GetCallKeeps, GetTestKeeps, Get16thTestKeeps, NoopTestKeeps,
     GetSleepKeeps, GetSpuriousWakeupKeeps, GetTimeoutKeeps, NextPartKeeps,
     UnlockKeeps, UnlockDoneKeeps DEF Consume
<1>4. CASE UNCHANGED vars
  BY <1>4, StutterKeeps
<1> QED BY <1>1, <1>2, <1>3, <1>4 DEF Next

\* IndInv holds in every reachable state of the buffer: producer, consumers,
\* sign-on and sign-off in any order.
THEOREM Invariance == Spec => []IndInv
  BY InitEstablishes, NextKeeps, PTL DEF Spec

\* Ring indices, part indices and masks stay in range for every buffer size
\* and number of consumers.
THEOREM TypeCorrect == Spec => []TypeOK
<1>1. IndInv => TypeOK
  BY DEF IndInv
<1> QED BY <1>1, Invariance, PTL

\* put, put_nowait and put16th never store into what a consumer reads between
\* get and unlock, whatever the number of consumers, blocks and parts.
THEOREM NoOverwrite == Spec => []NoOverwriteWhileHeld
<1>1. IndInv => NoOverwriteWhileHeld
  <2>1. SUFFICES ASSUME IndInv, NEW c \in Clients, NEW b \in BlockIds,
                        NEW p \in PartIds, Reads(c, b, p), Writes(b, p)
                 PROVE  FALSE
    BY DEF NoOverwriteWhileHeld
  <2>2. /\ ppc = "fill" /\ nbi = b /\ busy[b] = {} /\ cnum[c] \in Slots
        /\ b = next_block_in /\ nbi16th = next_block_in_16th
        /\ pop \in PutOps /\ pop \in PutCalls
    BY <2>1 DEF Writes, IndInv, ProducerInv, InCall, TypeOK
  <2>3. CASE kind[c] # "fast"
    BY <2>1, <2>2, <2>3 DEF Reads, IndInv, HeldInv
  <2>4. CASE kind[c] = "fast"
    <3>1. cnum[c] \in busy16th[b][p]
      BY <2>1, <2>4 DEF Reads, IndInv, HeldInv
    <3>2. p < next_block_in_16th
      BY <2>1, <2>2, <3>1 DEF IndInv, Busy16thInv
    <3>3. CASE pop \in PartPuts
      BY <2>1, <2>2, <3>2, <3>3, SizesAssumption DEF Writes, PartIds
    <3>4. CASE pop \in WholePuts
      <4>1. PutOps \subseteq WholePuts
        BY <2>2, <3>4, OpsAssumption DEF WholePuts, PartPuts
      <4>2. next_block_in_16th = 0
        BY <2>1, <4>1 DEF IndInv, ProducerInv
      <4> QED BY <3>2, <4>2, SizesAssumption DEF PartIds
    <3> QED BY <2>2, <3>3, <3>4 DEF PutCalls
  <2> QED BY <2>3, <2>4
<1> QED BY <1>1, Invariance, PTL

-----------------------------------------------------------------------------
(* The ring *)

\* next_block_in and next_block_out step through the ring and wrap at its end.
LEMMA SuccIs ==
    ASSUME NEW b \in BlockIds
    PROVE  Succ(b) = (IF b = Blocks - 1 THEN 0 ELSE b + 1) /\ Succ(b) \in BlockIds
<1>1. b + 1 \in Int /\ 0 \in 0..(Blocks - 1)
  BY SizesAssumption DEF BlockIds
<1>2. CASE b = Blocks - 1
  BY <1>1, <1>2, SizesAssumption DEF Succ, BlockIds
<1>3. CASE b # Blocks - 1
  BY <1>1, <1>3, SizesAssumption DEF Succ, BlockIds
<1> QED BY <1>2, <1>3

\* One turn of the ring more or less leads to the same block.
LEMMA OneTurn ==
    ASSUME NEW x \in Int, NEW r \in BlockIds, x = r + Blocks \/ x = r - Blocks
    PROVE  x % Blocks = r
<1>1. r \in 0..(Blocks - 1) /\ Blocks \in Nat \ {0} /\ 1 \in Int /\ -1 \in Int
  BY SizesAssumption DEF BlockIds
<1>2. CASE x = r + Blocks
  <2>1. x = Blocks * 1 + r
    BY <1>1, <1>2
  <2> QED BY <1>1, <2>1, DivModUnique
<1>3. CASE x = r - Blocks
  <2>1. x = Blocks * (-1) + r
    BY <1>1, <1>3
  <2> QED BY <1>1, <2>1, DivModUnique
<1> QED BY <1>2, <1>3

\* Pred undoes Succ.
LEMMA PredIs ==
    ASSUME NEW b \in BlockIds
    PROVE  /\ Pred(b) \in BlockIds /\ Succ(Pred(b)) = b /\ Pred(Succ(b)) = b
<1>1. \A e \in BlockIds : Pred(e) = (IF e = 0 THEN Blocks - 1 ELSE e - 1)
  <2>1. TAKE e \in BlockIds
  <2>2. CASE e = 0
    BY <2>2, SizesAssumption DEF Pred, BlockIds
  <2>3. CASE e # 0
    <3> DEFINE x == e + Blocks - 1
               r == e - 1
    <3>1. x \in Int /\ r \in BlockIds /\ x = r + Blocks
      BY <2>3, SizesAssumption DEF BlockIds
    <3> HIDE DEF x, r
    <3>2. x % Blocks = r
      BY <3>1, OneTurn
    <3> QED BY <2>3, <3>2 DEF Pred, x, r
  <2> QED BY <2>2, <2>3
<1>2. Pred(b) \in BlockIds
  BY <1>1, SizesAssumption DEF BlockIds
<1>3. Succ(Pred(b)) = b
  BY <1>1, <1>2, SuccIs, SizesAssumption DEF BlockIds
<1>4. Pred(Succ(b)) = b
  BY <1>1, SuccIs, SizesAssumption DEF BlockIds
<1> QED BY <1>2, <1>3, <1>4

\* Dist counts the steps of Succ from a to b.
LEMMA DistIs ==
    ASSUME NEW a \in BlockIds, NEW b \in BlockIds
    PROVE  Dist(a, b) = IF a <= b THEN b - a ELSE b - a + Blocks
<1>1. a \in Int /\ b \in Int /\ b - a \in Int
  BY SizesAssumption DEF BlockIds
<1>2. CASE a <= b
  BY <1>1, <1>2, SizesAssumption DEF Dist, BlockIds
<1>3. CASE ~(a <= b)
  <2> DEFINE x == b - a
             r == b - a + Blocks
  <2>1. x \in Int /\ r \in BlockIds /\ x = r - Blocks
    BY <1>1, <1>3, SizesAssumption DEF BlockIds
  <2> HIDE DEF x, r
  <2>2. x % Blocks = r
    BY <2>1, OneTurn
  <2> QED BY <1>3, <2>2 DEF Dist, x, r
<1> QED BY <1>2, <1>3

\* Distances from one block tell the blocks apart.
LEMMA DistFacts ==
    ASSUME NEW a \in BlockIds, NEW b \in BlockIds, NEW e \in BlockIds
    PROVE  /\ Dist(a, b) \in 0..(Blocks - 1)
           /\ (Dist(a, b) = 0) = (a = b)
           /\ Dist(a, b) = Dist(a, e) => b = e
  BY DistIs, SizesAssumption DEF BlockIds

\* One block further on the distance from h is one more, and so is the distance
\* to b from one block further back.
LEMMA DistSteps ==
    ASSUME NEW h \in BlockIds, NEW b \in BlockIds
    PROVE  /\ Dist(h, Succ(b)) = IF Succ(b) = h THEN 0 ELSE Dist(h, b) + 1
           /\ Succ(b) = h => Dist(h, b) = Blocks - 1
           /\ Dist(Succ(h), b) = IF b = h THEN Blocks - 1 ELSE Dist(h, b) - 1
<1>1. Dist(h, b) = IF h <= b THEN b - h ELSE b - h + Blocks
  BY DistIs
<1>2. Dist(h, Succ(b)) = IF h <= Succ(b) THEN Succ(b) - h ELSE Succ(b) - h + Blocks
  BY DistIs, SuccIs
<1>3. Dist(Succ(h), b) = IF Succ(h) <= b THEN b - Succ(h) ELSE b - Succ(h) + Blocks
  BY DistIs, SuccIs
<1>4. /\ Succ(b) = IF b = Blocks - 1 THEN 0 ELSE b + 1
      /\ Succ(h) = IF h = Blocks - 1 THEN 0 ELSE h + 1
  BY SuccIs
<1> QED BY <1>1, <1>2, <1>3, <1>4, SizesAssumption DEF BlockIds

\* Two blocks are followed by different ones; a block is followed by itself only
\* in a ring of one.
LEMMA SuccFacts ==
    ASSUME NEW a \in BlockIds, NEW b \in BlockIds
    PROVE  /\ Succ(a) = Succ(b) => a = b
           /\ Succ(a) = a => Blocks = 1 /\ a = b
<1>1. /\ Succ(b) = IF b = Blocks - 1 THEN 0 ELSE b + 1
      /\ Succ(a) = IF a = Blocks - 1 THEN 0 ELSE a + 1
  BY SuccIs
<1> QED BY <1>1, SizesAssumption DEF BlockIds

-----------------------------------------------------------------------------
(* Registration *)

\* A step that leaves the masks alone and registers nobody keeps RosterInv.
LEMMA RosterKept ==
    ASSUME RosterInv, UNCHANGED <<maskVars, kind, cnum>>,
           \A d \in Clients : Registered(d)' = Registered(d)
    PROVE  RosterInv'
  BY DEF RosterInv, maskVars

\* The masks are finite sets of slots.
LEMMA MasksFinite ==
    ASSUME IndInv
    PROVE  IsFiniteSet(tcmask) /\ IsFiniteSet(tcmask \ cmask) /\ IsFiniteSet(cmask16th)
<1>1. IsFiniteSet(tcmask)
  BY TcmaskFinite DEF IndInv
<1>2. cmask16th \subseteq tcmask /\ tcmask \ cmask \subseteq tcmask
  BY DEF IndInv, SlotInv
<1> QED BY <1>1, <1>2, FS_Subset

\* add_consumer counts the new consumer where its mask bits say it belongs.
LEMMA AddConsumerKeepsRoster ==
    ASSUME IndInv, RosterInv, NEW c \in Clients,
           NEW k \in Kinds \ {"transient"}, AddConsumer(c, k)
    PROVE  RosterInv'
<1> DEFINE s == FreeSlot
<1>1. s \in Slots /\ s \notin tcmask
  BY FreeSlotIsFree DEF AddConsumer, IndInv, TypeOK, SlotInv
<1>2. /\ pc[c] = "out" /\ cmask' = cmask \cup {s} /\ tcmask' = tcmask \cup {s}
      /\ cmask16th' = (IF k = "fast" THEN cmask16th \cup {s} ELSE cmask16th)
      /\ fast_consumers' = (IF k = "fast" THEN fast_consumers + 1
                            ELSE fast_consumers)
      /\ transient_consumers' = transient_consumers
      /\ pc' = [pc EXCEPT ![c] = "ready"] /\ kind' = [kind EXCEPT ![c] = k]
      /\ cnum' = [cnum EXCEPT ![c] = s]
      /\ k # "transient"
  BY DEF AddConsumer
<1> HIDE DEF s
<1>3. /\ pc'[c] = "ready" /\ cnum'[c] = s /\ kind'[c] = k
      /\ \A d \in Clients : d # c =>
           pc'[d] = pc[d] /\ cnum'[d] = cnum[d] /\ kind'[d] = kind[d]
  BY <1>2 DEF IndInv, TypeOK
<1>4. \A d \in Clients : Registered(d)' <=> Registered(d) \/ d = c
  BY <1>2, <1>3 DEF Registered
<1>5. ~Registered(c)
  BY <1>2 DEF Registered
<1>6. tcmask' \ cmask' = tcmask \ cmask
  BY <1>1, <1>2 DEF IndInv, SlotInv
<1>7. Cardinality(cmask16th') = fast_consumers'
  <2>1. s \notin cmask16th
    BY <1>1 DEF IndInv, SlotInv
  <2> QED BY <1>2, <2>1, MasksFinite, FS_AddElement DEF RosterInv
<1>8. \A t \in tcmask' : \E d \in Clients : Registered(d)' /\ cnum'[d] = t
  BY <1>2, <1>3, <1>4, <1>5 DEF RosterInv
<1>9. ASSUME NEW d \in Clients, Registered(d)'
      PROVE  (kind'[d] = "transient") = (cnum'[d] \notin cmask')
  <2>1. CASE d = c
    BY <1>2, <1>3, <2>1
  <2>2. CASE d # c
    BY <1>1, <1>2, <1>3, <1>4, <1>9, <2>2 DEF RosterInv, IndInv, SlotInv
  <2> QED BY <2>1, <2>2
<1> QED BY <1>2, <1>6, <1>7, <1>8, <1>9 DEF RosterInv

\* The transient consumer that signs on is not in cmask.
LEMMA AddTransientDoneKeepsRoster ==
    ASSUME IndInv, RosterInv, NEW c \in Clients, AddTransientDone(c)
    PROVE  RosterInv'
<1> DEFINE s == cnum[c]
<1>1. /\ pc[c] = "marking" /\ Scanning(c) /\ s \in Slots /\ s \notin tcmask
      /\ s \notin cmask /\ ~Registered(c)
  BY DEF AddTransientDone, Scanning, IndInv, SlotInv, TypeOK, Registered
<1>2. CASE first_block < 0
  <2>1. /\ pc' = [pc EXCEPT ![c] = "out"]
        /\ UNCHANGED <<maskVars, kind, cnum>>
    BY <1>2 DEF AddTransientDone, maskVars
  <2>2. \A d \in Clients : Registered(d)' = Registered(d)
    BY <1>1, <2>1 DEF Registered, IndInv, TypeOK
  <2> QED BY <2>1, <2>2, RosterKept
<1>3. CASE ~(first_block < 0)
  <2>1. /\ tcmask' = tcmask \cup {s}
        /\ transient_consumers' = transient_consumers + 1
        /\ pc' = [pc EXCEPT ![c] = "ready"]
        /\ kind' = [kind EXCEPT ![c] = "transient"]
        /\ UNCHANGED <<cnum, cmask, cmask16th, fast_consumers>>
    BY <1>3 DEF AddTransientDone
  <2>2. /\ pc'[c] = "ready" /\ kind'[c] = "transient"
        /\ \A d \in Clients : d # c => pc'[d] = pc[d] /\ kind'[d] = kind[d]
    BY <2>1 DEF IndInv, TypeOK
  <2>3. \A d \in Clients : Registered(d)' <=> Registered(d) \/ d = c
    BY <1>1, <2>2 DEF Registered
  <2> HIDE DEF s
  <2>4. tcmask' \ cmask' = (tcmask \ cmask) \cup {s} /\ s \notin tcmask \ cmask
    BY <1>1, <2>1
  <2>5. Cardinality(tcmask' \ cmask') = transient_consumers'
    BY <2>1, <2>4, MasksFinite, FS_AddElement DEF RosterInv
  <2>6. \A t \in tcmask' : \E d \in Clients : Registered(d)' /\ cnum'[d] = t
    BY <2>1, <2>3 DEF RosterInv, s
  <2>7. \A d \in Clients :
          Registered(d)' => (kind'[d] = "transient") = (cnum'[d] \notin cmask')
    BY <1>1, <2>1, <2>2, <2>3 DEF RosterInv, s
  <2> QED BY <2>1, <2>5, <2>6, <2>7 DEF RosterInv
<1> QED BY <1>2, <1>3

\* delete_consumer takes the consumer out of every count it was in.
LEMMA DeleteConsumerKeepsRoster ==
    ASSUME IndInv, RosterInv, NEW c \in Clients, DeleteConsumer(c)
    PROVE  RosterInv'
<1> DEFINE s == cnum[c]
<1>1. /\ Registered(c) /\ s \in tcmask /\ s \in Slots
      /\ \A d \in Clients : d # c /\ Registered(d) => cnum[d] # s
  BY DEF DeleteConsumer, Registered, IndInv, SlotInv, TypeOK
<1>2. /\ pc'[c] = "clearing" /\ \A d \in Clients : d # c => pc'[d] = pc[d]
  BY DEF DeleteConsumer, IndInv, TypeOK
<1>3. /\ tcmask' = tcmask \ {s} /\ cmask16th' = cmask16th \ {s}
      /\ cmask' = cmask \ {s}
      /\ fast_consumers' = (IF s \in cmask16th THEN fast_consumers - 1
                            ELSE fast_consumers)
      /\ transient_consumers' = (IF s \notin cmask THEN transient_consumers - 1
                                 ELSE transient_consumers)
      /\ UNCHANGED <<cnum, kind>>
  BY DEF DeleteConsumer
<1> HIDE DEF s
<1>4. \A d \in Clients : Registered(d)' <=> Registered(d) /\ d # c
  BY <1>2 DEF Registered
<1>5. Cardinality(cmask16th') = fast_consumers'
  <2>1. CASE s \in cmask16th
    BY <1>3, <2>1, MasksFinite, FS_RemoveElement DEF RosterInv
  <2>2. CASE s \notin cmask16th
    BY <1>3, <2>2 DEF RosterInv
  <2> QED BY <2>1, <2>2
<1>6. Cardinality(tcmask' \ cmask') = transient_consumers'
  <2>1. CASE s \notin cmask
    <3>1. tcmask' \ cmask' = (tcmask \ cmask) \ {s} /\ s \in tcmask \ cmask
      BY <1>1, <1>3, <2>1
    <3> QED BY <1>3, <2>1, <3>1, MasksFinite, FS_RemoveElement DEF RosterInv
  <2>2. CASE s \in cmask
    <3>1. tcmask' \ cmask' = tcmask \ cmask
      BY <1>3, <2>2
    <3> QED BY <1>3, <2>2, <3>1 DEF RosterInv
  <2> QED BY <2>1, <2>2
<1>7. \A t \in tcmask' : \E d \in Clients : Registered(d)' /\ cnum'[d] = t
  BY <1>3, <1>4 DEF RosterInv, s
<1>8. \A d \in Clients :
        Registered(d)' => (kind'[d] = "transient") = (cnum'[d] \notin cmask')
  BY <1>1, <1>3, <1>4 DEF RosterInv
<1> QED BY <1>5, <1>6, <1>7, <1>8 DEF RosterInv

\* A thread that looks for stored blocks is not yet registered.
LEMMA AddTransientKeepsRoster ==
    ASSUME IndInv, RosterInv, NEW c \in Clients, NEW r \in Requests,
           AddTransient(c, r)
    PROVE  RosterInv'
<1>1. /\ pc[c] = "out" /\ pc' = [pc EXCEPT ![c] = "marking"]
      /\ cnum' = [cnum EXCEPT ![c] = FreeSlot]
      /\ UNCHANGED <<maskVars, kind>>
  BY DEF AddTransient
<1>2. \A d \in Clients : /\ Registered(d)' = Registered(d)
                         /\ Registered(d) => cnum'[d] = cnum[d]
  BY <1>1 DEF Registered, IndInv, TypeOK
<1> QED BY <1>1, <1>2 DEF RosterInv, maskVars

\* Reading and waiting registers nobody.
LEMMA ConsumeKeepsRoles ==
    ASSUME IndInv, NEW c \in Clients, Consume(c)
    PROVE  /\ \A d \in Clients : Registered(d)' = Registered(d)
           /\ UNCHANGED <<maskVars, kind, cnum>>
<1>1. pc \in [Clients -> ClientSteps]
  BY DEF IndInv, TypeOK
<1>2. CASE UnlockDone(c)
  BY <1>1, <1>2 DEF UnlockDone, AsleepNotEmpty, Registered
<1>3. CASE Unlock(c) \/ NoopTest(c)
  BY <1>1, <1>3 DEF Unlock, NoopTest, ClearBusy, Registered
<1>4. CASE \/ \E o \in CallsOf(kind[c]) : GetCall(c, o)
           \/ GetSleep(c) \/ GetSpuriousWakeup(c) \/ GetTimeout(c) \/ NextPart(c)
  BY <1>1, <1>4
     DEF GetCall, GetSleep, GetSpuriousWakeup, GetTimeout, NextPart, Registered
<1>5. CASE GetTest(c)
  BY <1>1, <1>5 DEF GetTest, Registered
<1>6. CASE Get16thTest(c)
  BY <1>1, <1>6 DEF Get16thTest, Registered
<1> QED BY <1>2, <1>3, <1>4, <1>5, <1>6 DEF Consume

\* The producer registers nobody.
LEMMA PutKeepsRoles ==
    ASSUME IndInv, Put
    PROVE  /\ \A d \in Clients : Registered(d)' = Registered(d)
           /\ UNCHANGED <<maskVars, kind, cnum, outVars, scanVars, op, last_seq>>
<1>1. CASE PutSignal
  BY <1>1 DEF PutSignal, AsleepNotEmpty, Asleep16th, Registered
<1>2. CASE ~PutSignal
  BY <1>2 DEF Put, PutCall, PutTest, PutSleep, PutSpuriousWakeup, PutFill,
     PutPublish, PutPublish16th, PutDrop, Registered, clientVars, maskVars
<1> QED BY <1>1, <1>2

\* Every step keeps RosterInv.
LEMMA NextKeepsRoster == IndInv /\ RosterInv /\ [Next]_vars => RosterInv'
<1> SUFFICES ASSUME IndInv, RosterInv, [Next]_vars PROVE RosterInv'
  OBVIOUS
<1>1. CASE Put
  BY <1>1, PutKeepsRoles, RosterKept
<1>2. ASSUME NEW c \in Clients, SignOnOff(c)
      PROVE  RosterInv'
  <2>1. CASE MarkBlock(c)
    <3>1. UNCHANGED <<maskVars, kind, cnum, pc>>
      BY <2>1 DEF MarkBlock, clientVars
    <3> QED BY <3>1, RosterKept DEF Registered
  <2>2. CASE ClearBlock(c)
    <3>1. /\ UNCHANGED <<maskVars, kind, cnum>> /\ pc[c] = "clearing"
          /\ pc' = [pc EXCEPT ![c] = "out"] \/ UNCHANGED pc
      BY <2>2 DEF ClearBlock
    <3>2. \A d \in Clients : Registered(d)' = Registered(d)
      BY <3>1 DEF Registered, IndInv, TypeOK
    <3> QED BY <3>1, <3>2, RosterKept
  <2> QED
    BY <1>2, <2>1, <2>2, AddConsumerKeepsRoster, AddTransientKeepsRoster,
       AddTransientDoneKeepsRoster, DeleteConsumerKeepsRoster DEF SignOnOff
<1>3. ASSUME NEW c \in Clients, Consume(c)
      PROVE  RosterInv'
  BY <1>3, ConsumeKeepsRoles, RosterKept
<1>4. CASE UNCHANGED vars
  <2>1. UNCHANGED <<maskVars, kind, cnum, pc>>
    BY <1>4 DEF vars, clientVars
  <2> QED BY <2>1, RosterKept DEF Registered
<1> QED BY <1>1, <1>2, <1>3, <1>4 DEF Next

\* The constructor counts the consumers it is given.
LEMMA InitRoster == Init => RosterInv
<1> SUFFICES ASSUME Init PROVE RosterInv
  OBVIOUS
<1>1. Cardinality({}) = 0
  BY FS_EmptySet
<1>2. /\ tcmask \ cmask = {} /\ cmask16th = {} /\ cmask = tcmask
      /\ transient_consumers = 0 /\ fast_consumers = 0
  BY DEF Init
<1>3. \A s \in tcmask : \E c \in Preset : c \in Clients /\ cnum[c] = s
  BY PresetAssumption DEF Init
<1>4. \A c \in Clients : /\ kind[c] = "slow"
                         /\ Registered(c) <=> c \in Preset
  BY DEF Init, Registered
<1>5. \A c \in Preset : cnum[c] \in tcmask
  BY PresetAssumption DEF Init
<1> QED BY <1>1, <1>2, <1>3, <1>4, <1>5 DEF RosterInv

\* IndInv and RosterInv hold in every reachable state.
THEOREM RosterInvariance == Spec => [](IndInv /\ RosterInv)
<1>1. Init => RosterInv
  BY InitRoster
<1>2. IndInv /\ RosterInv /\ [Next]_vars => RosterInv'
  BY NextKeepsRoster
<1> QED BY <1>1, <1>2, Invariance, PTL DEF Spec

\* circ_buffer::invariant(1) never fails, whatever the consumers that sign on and
\* off, and every bit of tcmask belongs to one consumer thread.
THEOREM Registrations == Spec => []RegistrationConsistent
<1>1. IndInv /\ RosterInv => RegistrationConsistent
  <2>1. SUFFICES ASSUME IndInv, RosterInv, ~BufferLocked
                 PROVE  /\ consumers = Cardinality(tcmask)
                        /\ transient_consumers = Cardinality(tcmask \ cmask)
                        /\ fast_consumers = Cardinality(cmask16th)
                        /\ cmask16th \subseteq cmask /\ cmask \subseteq tcmask
                        /\ \A b \in BlockIds : busy[b] \subseteq tcmask
                        /\ \A b \in BlockIds, p \in PartIds :
                             busy16th[b][p] \subseteq cmask16th
                        /\ tcmask = {cnum[c] : c \in {d \in Clients : Registered(d)}}
                        /\ \A c, d \in Clients :
                             Registered(c) /\ Registered(d) /\ cnum[c] = cnum[d]
                             => c = d
    BY DEF RegistrationConsistent
  <2>2. \A c \in Clients : ~Scanning(c)
    BY <2>1 DEF BufferLocked, Scanning
  <2>3. \A b \in BlockIds : busy[b] \subseteq tcmask
    BY <2>1, <2>2 DEF IndInv, BusyInv, TypeOK
  <2>4. \A b \in BlockIds, p \in PartIds : busy16th[b][p] \subseteq cmask16th
    <3>1. \A b \in BlockIds, p \in PartIds : busy16th[b][p] \subseteq Slots
      BY <2>1 DEF IndInv, TypeOK
    <3>2. \A b \in BlockIds, p \in PartIds, s \in Slots :
            s \in busy16th[b][p] => s \in cmask16th
      BY <2>1, <2>2 DEF IndInv, Busy16thInv, Scanning
    <3> QED BY <3>1, <3>2
  <2>5. tcmask = {cnum[c] : c \in {d \in Clients : Registered(d)}}
    BY <2>1 DEF IndInv, SlotInv, RosterInv
  <2> QED BY <2>1, <2>3, <2>4, <2>5 DEF IndInv, SlotInv, RosterInv
<1> QED BY <1>1, RosterInvariance, PTL

-----------------------------------------------------------------------------
(* Steps that leave the blocks' contents alone *)

\* No put has stored, published or dropped anything.
SameBlocks ==
    /\ UNCHANGED <<countVars, inVars, fillVars>>
    /\ \/ UNCHANGED prodVars
       \/ /\ ppc \notin {"publish", "publish16th", "drop"}
          /\ ppc' \notin {"publish", "publish16th", "drop"}

\* Such a step keeps what is known of contents and sequence numbers.
LEMMA BlocksKept ==
    ASSUME SameBlocks
    PROVE  /\ Filling' = Filling /\ Stored' = Stored
           /\ \A b \in BlockIds : Settled(b)' = Settled(b)
           /\ DataInv => DataInv'
           /\ SeqInv => SeqInv'
<1>1. Filling' = Filling /\ Stored' = Stored
  BY DEF SameBlocks, Filling, Stored, inVars, prodVars
<1>2. \A b \in BlockIds : Settled(b)' = Settled(b)
  BY <1>1 DEF Settled, SameBlocks, fillVars, inVars
<1>3. DataInv => DataInv'
  <2>1. UNCHANGED <<data, seq_num, next_block_in>>
    BY DEF SameBlocks, fillVars, inVars
  <2>2. ppc' = "publish" => ppc = "publish" /\ UNCHANGED <<pop, nbi, nbi16th>>
    BY DEF SameBlocks, prodVars
  <2> QED BY <1>1, <1>2, <2>1, <2>2 DEF DataInv, OfSecond
<1>4. SeqInv => SeqInv'
  <2>1. UNCHANGED <<dropped, drops, puts, seq_num, next_block_in>>
    BY DEF SameBlocks, fillVars, inVars, countVars
  <2> QED BY <1>2, <2>1 DEF SeqInv, Gap
<1> QED BY <1>1, <1>2, <1>3, <1>4

\* A step of a consumer touches no block's contents.
LEMMA ClientSameBlocks ==
    ASSUME NEW c \in Clients, SignOnOff(c) \/ Consume(c)
    PROVE  SameBlocks
<1>1. CASE SignOnOff(c)
  BY <1>1 DEF SignOnOff, AddConsumer, AddTransient, MarkBlock, AddTransientDone,
     DeleteConsumer, ClearBlock, WakeProducer, SameBlocks, prodVars
<1>2. CASE Consume(c)
  BY <1>2 DEF Consume, GetCall, GetTest, Get16thTest, NoopTest, GetSleep,
     GetSpuriousWakeup, GetTimeout, NextPart, Unlock, UnlockDone, WakeProducer,
     SameBlocks, prodVars
<1> QED BY <1>1, <1>2

\* A step that marks only written blocks keeps FillInv.
LEMMA FillKept ==
    ASSUME FillInv, SameBlocks,
           \A b \in BlockIds : busy'[b] # {} =>
               busy[b] # {} \/ (b # next_block_in /\ gps[b] # 0),
           next_block_in \in BlockIds,
           \A c \in Clients : pc'[c] = "marking" =>
               \/ pc[c] = "marking" /\ window' = window
               \/ window'[1] > 0 \/ window'[2] <= window'[1]
    PROVE  FillInv'
<1>1. /\ UNCHANGED <<puts, gps, seq_num, next_block_in>>
      /\ Filling' = Filling
      /\ ppc' = "drop" => ppc = "drop" /\ pop' = pop
  BY BlocksKept DEF SameBlocks, countVars, fillVars, inVars, prodVars
<1>2. Filling => busy'[next_block_in] = {}
  BY DEF FillInv
<1>3. \A b \in BlockIds : busy'[b] # {} => gps[b] # 0
  BY DEF FillInv
<1>4. \A c \in Clients :
        pc'[c] = "marking" => window'[1] > 0 \/ window'[2] <= window'[1]
  BY DEF FillInv
<1> QED BY <1>1, <1>2, <1>3, <1>4 DEF FillInv

\* The block a client is at is in the ring.
LEMMA AtType ==
    ASSUME TypeOK, NEW c \in Clients
    PROVE  At(c) \in BlockIds /\ next_block_out[cnum[c]] \in BlockIds
<1>1. next_block_out[cnum[c]] \in BlockIds
  BY DEF TypeOK
<1> QED BY <1>1, SuccIs DEF At

\* A client whose bits, place and history stay as they are keeps its queue.
LEMMA QueueKept ==
    ASSUME NEW d \in Clients, Queue(d), Follows(d),
           cnum'[d] = cnum[d], kind'[d] = kind[d], last_seq'[d] = last_seq[d],
           At(d)' = At(d), At(d) \in BlockIds,
           \A b \in BlockIds : cnum[d] \in busy'[b] <=> cnum[d] \in busy[b],
           UNCHANGED <<puts, dropped, next_block_in>>,
           cnum[d] \in busy[At(d)] => seq_num'[At(d)] = seq_num[At(d)]
    PROVE  Queue(d)' /\ Follows(d)'
<1>1. Room(At(d))' = Room(At(d))
  BY DEF Room
<1>2. \A m : Run(cnum[d], At(d), m) => Run(cnum[d], At(d), m)'
  BY DEF Run
<1>3. Queue(d)'
  BY <1>1, <1>2 DEF Queue
<1>4. Follows(d)'
  BY DEF Follows, Gap
<1> QED BY <1>3, <1>4

\* A step that moves no client in the ring, changes no bit and finishes no
\* client wrongly keeps all of OrderInv.
LEMMA QuietStep ==
    ASSUME IndInv, OrderInv, SameBlocks,
           UNCHANGED <<busy, cnum, kind, last_seq, scanVars>>,
           \A d \in Clients :
             /\ Registered(d)' = Registered(d)
             /\ Registered(d) => At(d)' = At(d)
             /\ pc'[d] = "marking" <=> pc[d] = "marking"
             /\ pc'[d] = "finished" =>
                  /\ kind[d] = "transient"
                  /\ cnum[d] \notin busy[next_block_out'[cnum[d]]]
    PROVE  OrderInv'
<1>1. FillInv' /\ DataInv' /\ SeqInv'
  <2>1. next_block_in \in BlockIds
    BY DEF IndInv, TypeOK
  <2>2. UNCHANGED window
    BY DEF scanVars
  <2> QED BY <2>1, <2>2, BlocksKept, FillKept DEF OrderInv
<1>2. UNCHANGED <<puts, dropped, next_block_in, seq_num, gps>>
  BY DEF SameBlocks, countVars, inVars, fillVars
<1>3. QueueInv'
  <2>1. ASSUME NEW d \in Clients, Registered(d)'
        PROVE  Queue(d)' /\ Follows(d)'
    <3>1. Registered(d) /\ At(d)' = At(d) /\ Queue(d) /\ Follows(d)
      BY <2>1 DEF OrderInv, QueueInv
    <3>2. At(d) \in BlockIds
      BY AtType DEF IndInv
    <3> QED BY <1>2, <3>1, <3>2, QueueKept
  <2> QED BY <2>1 DEF QueueInv
<1>4. MarkInv'
  <2>1. UNCHANGED <<cursor, window, first_block>>
    BY DEF scanVars
  <2>2. \A s, h, m : Run(s, h, m)' = Run(s, h, m)
    BY DEF Run
  <2> QED BY <1>2, <2>1, <2>2 DEF OrderInv, MarkInv, Run
<1> QED BY <1>1, <1>3, <1>4 DEF OrderInv

\* A client goes on inside a get call, in the same place of the ring.
LEMMA ClientStays ==
    ASSUME IndInv, OrderInv, NEW c \in Clients,
           Registered(c), pc[c] # "freeing",
           NEW q \in {"test", "willwait", "asleep", "held", "finished"},
           pc' = [pc EXCEPT ![c] = q],
           q = "finished" => /\ kind[c] = "transient"
                             /\ cnum[c] \notin busy[next_block_out[cnum[c]]],
           SameBlocks,
           UNCHANGED <<next_block_out, busy, cnum, kind, last_seq, scanVars>>
    PROVE  OrderInv'
<1>1. pc'[c] = q /\ \A d \in Clients : d # c => pc'[d] = pc[d]
  BY DEF IndInv, TypeOK
<1>2. ASSUME NEW d \in Clients
      PROVE  /\ Registered(d)' = Registered(d)
             /\ Registered(d) => At(d)' = At(d)
             /\ pc'[d] = "marking" <=> pc[d] = "marking"
             /\ pc'[d] = "finished" =>
                  /\ kind[d] = "transient"
                  /\ cnum[d] \notin busy[next_block_out'[cnum[d]]]
  <2>1. CASE d = c
    BY <1>1, <2>1 DEF Registered, At
  <2>2. CASE d # c
    BY <1>1, <2>2 DEF Registered, At, OrderInv, QueueInv
  <2> QED BY <2>1, <2>2
<1> QED BY <1>2, QuietStep

\* The steps of get, timed_get, get_nowait and get16th that clear no bit.
LEMMA GetKeepsOrder ==
    ASSUME IndInv, OrderInv, NEW c \in Clients,
           \/ \E o \in CallsOf(kind[c]) : GetCall(c, o)
           \/ GetTest(c) \/ Get16thTest(c) \/ GetSleep(c) \/ GetSpuriousWakeup(c)
           \/ GetTimeout(c) \/ NextPart(c)
           \/ NoopTest(c) /\ cnum[c] \notin busy[next_block_out[cnum[c]]]
    PROVE  OrderInv'
<1>0. SameBlocks
  BY ClientSameBlocks DEF Consume
<1>1. CASE \E o \in CallsOf(kind[c]) : GetCall(c, o)
  BY <1>0, <1>1, ClientStays DEF GetCall, Registered, busyVars, outVars
<1>2. CASE GetTest(c)
  <2> DEFINE q == IF cnum[c] \in busy[next_block_out[cnum[c]]] THEN "held"
                  ELSE IF op[c] = "get_nowait" THEN "finished" ELSE "willwait"
  <2>1. pc[c] = "test" /\ op[c] \in CallsOf(kind[c])
    BY <1>2 DEF GetTest, IndInv, HeldInv
  <2>2. op[c] = "get_nowait" => kind[c] = "transient"
    BY <2>1, OpsAssumption DEF CallsOf, IndInv, TypeOK
  <2>3. /\ q \in {"test", "willwait", "asleep", "held", "finished"}
        /\ q = "finished" => /\ kind[c] = "transient"
                             /\ cnum[c] \notin busy[next_block_out[cnum[c]]]
    BY <2>2
  <2>4. /\ pc' = [pc EXCEPT ![c] = q] /\ Registered(c) /\ pc[c] # "freeing"
        /\ UNCHANGED <<next_block_out, busy, cnum, kind, last_seq, scanVars>>
    BY <1>2 DEF GetTest, Registered, busyVars, outVars
  <2> HIDE DEF q
  <2> QED BY <1>0, <2>3, <2>4, ClientStays
<1>3. CASE Get16thTest(c)
  <2>1. /\ pc' = [pc EXCEPT ![c] = "held"] \/ pc' = [pc EXCEPT ![c] = "willwait"]
        /\ Registered(c) /\ pc[c] # "freeing"
        /\ UNCHANGED <<next_block_out, busy, cnum, kind, last_seq, scanVars>>
    BY <1>3 DEF Get16thTest, Registered, busyVars
  <2> QED BY <1>0, <2>1, ClientStays
<1>4. CASE GetSleep(c)
  BY <1>0, <1>4, ClientStays DEF GetSleep, Registered, busyVars, outVars
<1>5. CASE GetSpuriousWakeup(c) \/ GetTimeout(c)
  BY <1>0, <1>5, ClientStays
     DEF GetSpuriousWakeup, GetTimeout, Registered, busyVars, outVars
<1>6. CASE NextPart(c)
  BY <1>0, <1>6, ClientStays DEF NextPart, Registered, busyVars, outVars
<1>7. CASE NoopTest(c) /\ cnum[c] \notin busy[next_block_out[cnum[c]]]
  BY <1>0, <1>7, ClientStays DEF NoopTest, Registered, outVars
<1> QED BY <1>1, <1>2, <1>3, <1>4, <1>5, <1>6, <1>7

\* The end of unlock moves next_block_out on to the block the client is at.
LEMMA UnlockDoneKeepsOrder ==
    ASSUME IndInv, OrderInv, NEW c \in Clients, UnlockDone(c)
    PROVE  OrderInv'
<1>0. SameBlocks
  BY ClientSameBlocks DEF Consume
<1>1. /\ pc[c] = "freeing" /\ pc'[c] = "ready"
      /\ \A d \in Clients : d # c =>
           pc'[d] = pc[d] \/ (pc[d] = "asleep" /\ pc'[d] = "test")
      /\ UNCHANGED <<busy, cnum, kind, last_seq, scanVars>>
  BY DEF UnlockDone, AsleepNotEmpty, busyVars
<1>2. cnum[c] \in Slots /\ next_block_out \in [Slots -> BlockIds]
      /\ next_block_out' = [next_block_out EXCEPT ![cnum[c]] =
                              Succ(next_block_out[cnum[c]])]
  BY DEF UnlockDone, IndInv, TypeOK, Succ
<1>3. ASSUME NEW d \in Clients
      PROVE  /\ Registered(d)' = Registered(d)
             /\ Registered(d) => At(d)' = At(d)
             /\ pc'[d] = "marking" <=> pc[d] = "marking"
             /\ pc'[d] = "finished" =>
                  /\ kind[d] = "transient"
                  /\ cnum[d] \notin busy[next_block_out'[cnum[d]]]
  <2>1. CASE d = c
    BY <1>1, <1>2, <2>1 DEF Registered, At
  <2>2. CASE d # c
    <3>1. Registered(d) => /\ cnum[d] # cnum[c]
                           /\ next_block_out'[cnum[d]] = next_block_out[cnum[d]]
      BY <1>1, <1>2, <2>2 DEF Registered, IndInv, SlotInv, TypeOK
    <3>2. pc'[d] = pc[d] \/ (pc[d] = "asleep" /\ pc'[d] = "test")
      BY <1>1, <2>2
    <3>3. pc[d] = "finished" => /\ kind[d] = "transient"
                                /\ cnum[d] \notin busy[next_block_out[cnum[d]]]
      BY DEF OrderInv, QueueInv
    <3> QED BY <1>1, <3>1, <3>2, <3>3 DEF Registered, At
  <2> QED BY <2>1, <2>2
<1> QED BY <1>0, <1>1, <1>3, QuietStep

-----------------------------------------------------------------------------
(* Freeing a block *)

\* How many blocks are left from one block on, and from the next one on.
LEMMA RoomFacts ==
    ASSUME next_block_in \in BlockIds, NEW b \in BlockIds
    PROVE  /\ Room(b) \in 1..Blocks
           /\ Room(b) > 1 => Succ(b) # next_block_in
           /\ Room(b) - 1 <= Room(Succ(b))
           /\ Room(b) - 1 = Room(Succ(b)) \/ (Room(b) = 1 /\ Succ(b) = next_block_in)
<1>1. Succ(b) \in BlockIds
  BY SuccIs
<1>2. /\ Dist(b, next_block_in) \in 0..(Blocks - 1)
      /\ (Dist(b, next_block_in) = 0) = (b = next_block_in)
  BY DistFacts
<1>3. Dist(Succ(b), next_block_in) = IF next_block_in = b THEN Blocks - 1
                                     ELSE Dist(b, next_block_in) - 1
  BY DistSteps
<1>4. /\ Dist(Succ(b), next_block_in) \in 0..(Blocks - 1)
      /\ (Dist(Succ(b), next_block_in) = 0) = (Succ(b) = next_block_in)
  BY <1>1, DistFacts
<1> QED BY <1>2, <1>3, <1>4, SizesAssumption DEF Room

\* A client that frees its block has the bits from the next block on, and what
\* it has had comes right before it.
LEMMA ClearBusyKeepsOrder ==
    ASSUME IndInv, OrderInv, NEW c \in Clients, NEW b \in BlockIds,
           b = next_block_out[cnum[c]], cnum[c] \in busy[b],
           Registered(c), pc[c] \notin {"freeing", "finished"},
           ClearBusy(c, b), SameBlocks,
           UNCHANGED <<next_block_out, cnum, kind, scanVars>>
    PROVE  OrderInv'
<1> DEFINE s == cnum[c]
<1>1. /\ pc'[c] = "freeing" /\ \A d \in Clients : d # c => pc'[d] = pc[d]
      /\ last_seq'[c] = seq_num[b]
      /\ \A d \in Clients : d # c => last_seq'[d] = last_seq[d]
      /\ \A e \in BlockIds : busy'[e] = IF e = b THEN busy[e] \ {s} ELSE busy[e]
      /\ s \in Slots
  BY DEF ClearBusy, IndInv, TypeOK
<1>2. /\ UNCHANGED <<puts, dropped, drops, next_block_in, seq_num, gps>>
      /\ next_block_in \in BlockIds /\ busy \in [BlockIds -> SUBSET Slots]
  BY DEF SameBlocks, countVars, inVars, fillVars, IndInv, TypeOK
<1>3. At(c) = b /\ At(c)' = Succ(b) /\ Succ(b) \in BlockIds
  BY <1>1, SuccIs DEF At
<1>4. FillInv' /\ DataInv' /\ SeqInv'
  <2>1. \A e \in BlockIds : busy'[e] # {} => busy[e] # {}
    BY <1>1
  <2>2. \A d \in Clients : pc'[d] = "marking" => pc[d] = "marking"
    BY <1>1
  <2>3. UNCHANGED window
    BY DEF scanVars
  <2> QED BY <1>2, <2>1, <2>2, <2>3, BlocksKept, FillKept DEF OrderInv
<1>5. PICK m \in 0..Room(b) :
        /\ Run(s, b, m)
        /\ kind[c] # "transient" =>
             m = Room(b) \/ (m = 0 /\ b = next_block_in)
  BY <1>3 DEF OrderInv, QueueInv, Queue
<1>6. Room(b) \in 1..Blocks /\ m \in Int /\ 0 < m /\ m <= Room(b)
  <2>1. Room(b) \in 1..Blocks
    BY <1>2, RoomFacts
  <2>2. Dist(b, b) < m /\ Dist(b, b) = 0
    BY <1>5, DistFacts DEF Run
  <2> QED BY <2>1, <2>2, SizesAssumption
<1>7. \A e \in BlockIds : s \in busy'[e] <=> Dist(Succ(b), e) < m - 1
  <2>1. TAKE e \in BlockIds
  <2>2. Dist(b, e) \in 0..(Blocks - 1)
    BY DistFacts
  <2>3. Dist(Succ(b), e) = IF e = b THEN Blocks - 1 ELSE Dist(b, e) - 1
    BY DistSteps
  <2>4. s \in busy[e] <=> Dist(b, e) < m
    BY <1>5 DEF Run
  <2>5. CASE e = b
    <3>1. s \notin busy'[e]
      BY <1>1, <2>5
    <3>2. ~(Dist(Succ(b), e) < m - 1)
      BY <1>6, <2>3, <2>5, SizesAssumption
    <3> QED BY <3>1, <3>2
  <2>6. CASE e # b
    <3>1. s \in busy'[e] <=> s \in busy[e]
      BY <1>1, <2>6
    <3>2. Dist(Succ(b), e) < m - 1 <=> Dist(b, e) < m
      BY <1>6, <2>2, <2>3, <2>6, SizesAssumption
    <3> QED BY <2>4, <3>1, <3>2
  <2> QED BY <2>5, <2>6
<1>8. Room(Succ(b)) \in 1..Blocks
  BY <1>2, <1>3, RoomFacts
<1>9. Room(Succ(b))' = Room(Succ(b))
  BY <1>2 DEF Room
<1>10. /\ m - 1 \in 0..Room(Succ(b))
       /\ kind[c] # "transient" =>
            m - 1 = Room(Succ(b)) \/ (m - 1 = 0 /\ Succ(b) = next_block_in)
  BY <1>2, <1>5, <1>6, <1>8, RoomFacts
<1>11. Queue(c)'
  <2>1. \E n \in 0..Room(At(c))' :
          /\ \A e \in BlockIds : s \in busy'[e] <=> Dist(At(c)', e) < n
          /\ kind[c] # "transient" =>
               n = Room(At(c))' \/ (n = 0 /\ At(c)' = next_block_in)
    <3>1. Room(At(c))' = Room(Succ(b))
      BY <1>2, <1>3 DEF Room
    <3> QED BY <1>3, <1>7, <1>10, <3>1
  <2> QED BY <1>2, <2>1 DEF Queue, Run
<1>12. Settled(b)
  BY DEF OrderInv, FillInv, Settled
<1>13. Gap(seq_num[b], IF Succ(b) = next_block_in THEN puts ELSE seq_num[Succ(b)])
  BY <1>12 DEF OrderInv, SeqInv
<1>14. Follows(c)'
  <2>1. s \in busy'[Succ(b)] <=> m > 1
    <3>1. Dist(Succ(b), Succ(b)) = 0
      BY <1>3, DistFacts
    <3> QED BY <1>3, <1>6, <1>7, <3>1
  <2>2. CASE m > 1
    <3>1. Succ(b) # next_block_in
      BY <1>2, <1>6, <2>2, RoomFacts
    <3> QED BY <1>1, <1>2, <1>3, <1>13, <2>1, <2>2, <3>1 DEF Follows, Gap
  <2>3. CASE ~(m > 1)
    <3>1. kind[c] # "transient" => Succ(b) = next_block_in
      BY <1>6, <1>8, <1>10, <2>3
    <3> QED BY <1>1, <1>2, <1>3, <1>13, <2>1, <2>3, <3>1 DEF Follows, Gap
  <2> QED BY <2>2, <2>3
<1>15. ASSUME NEW d \in Clients, d # c, Registered(d)
       PROVE  Queue(d)' /\ Follows(d)'
  <2>1. cnum[d] # s
    BY <1>15 DEF IndInv, SlotInv
  <2>2. At(d)' = At(d) /\ At(d) \in BlockIds
    BY <1>1, <1>15, AtType DEF At, IndInv
  <2>3. \A e \in BlockIds : cnum[d] \in busy'[e] <=> cnum[d] \in busy[e]
    BY <1>1, <2>1
  <2>4. Queue(d) /\ Follows(d)
    BY <1>15 DEF OrderInv, QueueInv
  <2> QED BY <1>1, <1>2, <1>15, <2>2, <2>3, <2>4, QueueKept
<1>16. QueueInv'
  <2>1. \A d \in Clients : Registered(d)' => Registered(d)
    BY <1>1 DEF Registered
  <2>2. ASSUME NEW d \in Clients, pc'[d] = "finished"
        PROVE  kind[d] = "transient" /\ cnum[d] \notin busy'[next_block_out[cnum[d]]]
    <3>1. d # c /\ pc[d] = "finished"
      BY <1>1, <2>2
    <3>2. next_block_out[cnum[d]] \in BlockIds
      BY DEF IndInv, TypeOK
    <3> QED BY <1>1, <3>1, <3>2 DEF OrderInv, QueueInv
  <2> QED BY <1>11, <1>14, <1>15, <2>1, <2>2 DEF QueueInv
<1>17. MarkInv'
  <2>1. UNCHANGED <<cursor, window, first_block>>
    BY DEF scanVars
  <2>2. \A d \in Clients : pc'[d] = "marking" <=> pc[d] = "marking"
    BY <1>1 DEF Registered
  <2>3. \A d \in Clients : pc[d] = "marking" => cnum[d] # s
    BY DEF IndInv, SlotInv, Scanning
  <2>4. ASSUME NEW d \in Clients, pc[d] = "marking", NEW h, NEW n,
               Run(cnum[d], h, n)
        PROVE  \A e \in BlockIds : cnum[d] \in busy'[e] <=> Dist(h, e) < n
    <3>1. cnum[d] # s
      BY <2>3, <2>4
    <3> HIDE DEF s
    <3> QED BY <1>1, <2>4, <3>1 DEF Run
  <2> QED BY <1>2, <2>1, <2>2, <2>4 DEF OrderInv, MarkInv, Run
<1> QED BY <1>4, <1>16, <1>17 DEF OrderInv

\* unlock, unlock16th and noop free a block whose bit the caller has.
LEMMA UnlockKeepsOrder ==
    ASSUME IndInv, OrderInv, NEW c \in Clients,
           Unlock(c) \/ (NoopTest(c) /\ cnum[c] \in busy[next_block_out[cnum[c]]])
    PROVE  OrderInv'
<1> DEFINE b == next_block_out[cnum[c]]
<1>0. SameBlocks /\ b \in BlockIds
  BY ClientSameBlocks, AtType DEF Consume, IndInv
<1>1. CASE Unlock(c)
  <2>1. /\ pc[c] = "held" /\ Registered(c) /\ ClearBusy(c, b)
        /\ UNCHANGED <<next_block_out, cnum, kind, scanVars>>
    BY <1>1 DEF Unlock, Registered, outVars
  <2>2. CASE kind[c] # "fast"
    <3>1. cnum[c] \in busy[b]
      BY <2>1, <2>2 DEF IndInv, HeldInv
    <3> HIDE DEF b
    <3> QED BY <1>0, <2>1, <3>1, ClearBusyKeepsOrder DEF b
  <2>3. CASE kind[c] = "fast"
    <3>1. cnum[c] \in busy16th[b][Parts - 1] /\ cnum[c] \in Slots
      BY <1>1, <2>1, <2>3 DEF Unlock, IndInv, HeldInv, TypeOK
    <3>2. Parts - 1 \in PartIds /\ ~(Parts - 1 < next_block_in_16th)
      BY SizesAssumption DEF PartIds, IndInv, TypeOK
    <3>3. cnum[c] \in busy[b]
      BY <1>0, <3>1, <3>2 DEF IndInv, Busy16thInv
    <3> HIDE DEF b
    <3> QED BY <1>0, <2>1, <3>3, ClearBusyKeepsOrder DEF b
  <2> QED BY <2>2, <2>3
<1>2. CASE NoopTest(c) /\ cnum[c] \in busy[b]
  <2>1. /\ pc[c] = "test" /\ Registered(c) /\ ClearBusy(c, b)
        /\ cnum[c] \in busy[b]
        /\ UNCHANGED <<next_block_out, cnum, kind, scanVars>>
    BY <1>2 DEF NoopTest, Registered, outVars
  <2> HIDE DEF b
  <2> QED BY <1>0, <2>1, ClearBusyKeepsOrder DEF b
<1> QED BY <1>1, <1>2

-----------------------------------------------------------------------------
(* Signing on and off *)

\* The number of blocks add_transient_consumer goes back for want seconds.
LEMMA BlocksBack ==
    ASSUME NEW want \in Int, BlockPeriod <= want, want < Blocks * BlockPeriod
    PROVE  want \div BlockPeriod \in 1..(Blocks - 1)
<1> DEFINE q == want \div BlockPeriod
           r == want % BlockPeriod
<1>1. /\ BlockPeriod \in Nat \ {0} /\ Blocks \in Nat \ {0}
      /\ q \in Int /\ r \in 0..(BlockPeriod - 1) /\ want = BlockPeriod * q + r
  BY DivMod, SizesAssumption
<1> HIDE DEF q, r
<1> DEFINE x == BlockPeriod * q
<1>2. x = q * BlockPeriod /\ x \in Int
  BY <1>1
<1>3. q >= 1
  <2>1. SUFFICES ASSUME q <= 0 PROVE FALSE
    BY <1>1
  <2>2. q * BlockPeriod <= 0 * BlockPeriod
    BY <1>1, <2>1, ProductOrder
  <2>3. x <= 0
    BY <1>1, <1>2, <2>2
  <2> HIDE DEF x
  <2> QED BY <1>1, <1>2, <2>3 DEF x
<1>4. q <= Blocks - 1
  <2>1. SUFFICES ASSUME Blocks <= q PROVE FALSE
    BY <1>1
  <2>2. Blocks * BlockPeriod <= q * BlockPeriod
    BY <1>1, <2>1, ProductOrder
  <2> DEFINE y == Blocks * BlockPeriod
  <2>3. y \in Int /\ y <= x /\ want < y /\ want = x + r
    BY <1>1, <1>2, <2>2
  <2> HIDE DEF x, y
  <2> QED BY <1>1, <1>2, <2>3
<1> QED BY <1>1, <1>3, <1>4 DEF q

\* What add_transient_consumer looks for are stamps of written blocks, or
\* nothing at all.
LEMMA WindowStamped ==
    ASSUME IndInv, FillInv, StampedRequests, NEW r \in Requests, puts # 0
    PROVE  TransientWindow(r)[1] > 0 \/ TransientWindow(r)[2] <= TransientWindow(r)[1]
<1>1. r[1] \in Nat /\ r[2] \in Nat
  BY GpsAssumption
<1>2. CASE r[2] # 0
  BY <1>1, <1>2 DEF StampedRequests, TransientWindow
<1>3. CASE r[2] = 0
  <2> DEFINE span == Blocks * BlockPeriod - 1
             want == IF r[1] > span THEN span ELSE r[1]
             back == want \div BlockPeriod
             x    == next_block_in + Blocks - back
             idx  == x % Blocks
  <2>1. TransientWindow(r) = IF idx > puts
                             THEN <<gps[0], gps[0] + puts * BlockPeriod>>
                             ELSE <<gps[idx], gps[idx] + want>>
    BY <1>3 DEF TransientWindow, PlaybackWindow
  <2>2. /\ next_block_in \in BlockIds /\ next_block_in \in Int /\ puts \in Nat
        /\ gps \in [BlockIds -> Nat] /\ 0 \in BlockIds
        /\ Blocks \in Nat \ {0} /\ BlockPeriod \in Nat \ {0}
    BY SizesAssumption DEF IndInv, TypeOK, BlockIds
  <2>3. span \in Nat /\ span < Blocks * BlockPeriod
    BY <2>2
  <2>4. want \in Int /\ want < Blocks * BlockPeriod
    <3> DEFINE y == Blocks * BlockPeriod
    <3>1. want \in Int /\ want <= span
      <4> HIDE DEF span
      <4> QED BY <1>1, <2>3
    <3>2. y \in Int /\ span \in Int /\ span < y
      BY <2>2, <2>3
    <3> HIDE DEF want, span, y
    <3>3. want < y
      BY <3>1, <3>2
    <3> QED BY <3>1, <3>3 DEF y
  <2>5. gps[0] # 0 /\ gps[0] \in Nat
    BY <2>2 DEF FillInv
  <2>6. CASE \A b \in BlockIds : gps[b] # 0
    <3>1. back \in Int
      BY <2>2, <2>4, DivMod
    <3> HIDE DEF back
    <3>2. x \in Int
      BY <2>2, <3>1
    <3> HIDE DEF x
    <3>3. idx \in BlockIds
      BY <2>2, <3>2, ModRange DEF BlockIds
    <3> HIDE DEF idx, want
    <3>4. gps[idx] \in Nat \ {0}
      BY <2>2, <2>6, <3>3
    <3> QED BY <2>1, <2>5, <3>4
  <2>7. CASE \E b \in BlockIds : gps[b] = 0
    <3>1. /\ next_block_in = puts
          /\ \A b \in BlockIds : b < puts => gps[b] # 0
      <4>1. /\ next_block_in = puts
            /\ \A b \in BlockIds : gps[b] = 0 => b > puts \/ b = puts
        BY <2>7 DEF FillInv
      <4> QED BY <2>2, <4>1, SizesAssumption DEF BlockIds
    <3>2. CASE r[1] = 0
      <4>1. want = 0
        BY <2>3, <3>2
      <4> HIDE DEF want
      <4>2. back = 0
        BY <2>2, <4>1
      <4> HIDE DEF back
      <4>3. x \in Int /\ x = next_block_in + Blocks
        BY <2>2, <4>2
      <4> HIDE DEF x
      <4>4. idx = next_block_in
        BY <2>2, <4>3, OneTurn
      <4> HIDE DEF idx
      <4> QED BY <2>1, <2>2, <2>5, <4>1, <4>4
    <3>3. CASE r[1] # 0
      <4>1. r[1] >= BlockPeriod
        BY <1>3, <3>3 DEF StampedRequests
      <4>2. Blocks >= 2
        BY <2>2, <3>1 DEF BlockIds
      <4>3. span >= BlockPeriod
        <5>1. 2 * BlockPeriod <= Blocks * BlockPeriod
          BY <2>2, <4>2, ProductOrder
        <5> QED BY <2>2, <5>1
      <4>4. BlockPeriod <= want
        BY <1>1, <2>2, <2>3, <4>1, <4>3
      <4> HIDE DEF want
      <4>5. back \in 1..(Blocks - 1)
        BY <2>4, <4>4, BlocksBack
      <4> HIDE DEF back
      <4>6. x \in Int
        BY <2>2, <4>5
      <4>7. CASE back <= puts
        <5> DEFINE e == puts - back
        <5>1. e \in BlockIds /\ x = e + Blocks /\ e < puts
          BY <2>2, <3>1, <4>5, <4>7 DEF BlockIds
        <5> HIDE DEF e, x
        <5>2. idx = e
          BY <4>6, <5>1, OneTurn
        <5> HIDE DEF idx
        <5>3. gps[idx] \in Nat \ {0}
          BY <2>2, <3>1, <5>1, <5>2
        <5> QED BY <2>1, <2>5, <5>3
      <4>8. CASE ~(back <= puts)
        <5>1. x \in 0..(Blocks - 1) /\ x > puts
          BY <2>2, <3>1, <4>5, <4>8 DEF BlockIds
        <5> HIDE DEF x
        <5>2. idx = x
          BY <2>2, <5>1
        <5> HIDE DEF idx
        <5> QED BY <2>1, <2>2, <2>5, <5>1, <5>2
      <4> QED BY <2>2, <4>5, <4>7, <4>8
    <3> QED BY <3>2, <3>3
  <2> QED BY <2>6, <2>7
<1> QED BY <1>2, <1>3

\* A new consumer starts with nothing to read, right after the last put.
LEMMA AddConsumerKeepsOrder ==
    ASSUME IndInv, OrderInv, NEW c \in Clients, NEW k \in Kinds \ {"transient"},
           AddConsumer(c, k)
    PROVE  OrderInv'
<1> DEFINE s == FreeSlot
<1>0. SameBlocks
  BY ClientSameBlocks DEF SignOnOff
<1>1. s \in Slots /\ s \notin tcmask
  BY FreeSlotIsFree DEF AddConsumer, IndInv, TypeOK, SlotInv
<1>2. /\ pc[c] = "out" /\ \A d \in Clients : ~Scanning(d)
      /\ next_block_out' = [next_block_out EXCEPT ![s] = next_block_in]
      /\ pc' = [pc EXCEPT ![c] = "ready"] /\ kind' = [kind EXCEPT ![c] = k]
      /\ cnum' = [cnum EXCEPT ![c] = s]
      /\ last_seq' = [last_seq EXCEPT ![c] = puts - 1]
      /\ UNCHANGED <<busy, scanVars>> /\ k # "transient"
  BY DEF AddConsumer, BufferLocked, Scanning, busyVars
<1> HIDE DEF s
<1>3. /\ pc'[c] = "ready" /\ cnum'[c] = s /\ kind'[c] = k
      /\ last_seq'[c] = puts - 1 /\ next_block_out'[s] = next_block_in
      /\ \A d \in Clients : d # c =>
           /\ pc'[d] = pc[d] /\ cnum'[d] = cnum[d] /\ kind'[d] = kind[d]
           /\ last_seq'[d] = last_seq[d]
      /\ \A t \in Slots : t # s => next_block_out'[t] = next_block_out[t]
  BY <1>1, <1>2 DEF IndInv, TypeOK
<1>4. /\ UNCHANGED <<puts, dropped, next_block_in, seq_num, gps>>
      /\ next_block_in \in BlockIds /\ puts \in Nat
  BY <1>0 DEF SameBlocks, countVars, inVars, fillVars, IndInv, TypeOK
<1>5. \A d \in Clients : pc[d] # "marking" /\ pc'[d] # "marking"
  BY <1>2, <1>3 DEF Scanning
<1>6. FillInv' /\ DataInv' /\ SeqInv'
  BY <1>0, <1>2, <1>4, <1>5, BlocksKept, FillKept DEF OrderInv
<1>7. \A b \in BlockIds : s \notin busy[b]
  BY <1>1, <1>2 DEF IndInv, BusyInv
<1>8. Queue(c)' /\ Follows(c)'
  <2>1. At(c)' = next_block_in
    BY <1>3 DEF At
  <2>2. Room(At(c))' \in 1..Blocks
    <3>1. Room(At(c))' = Blocks
      BY <1>4, <2>1 DEF Room
    <3> QED BY <3>1, SizesAssumption
  <2>3. \A b \in BlockIds : s \in busy'[b] <=> Dist(At(c)', b) < 0
    <3>1. \A b \in BlockIds : Dist(At(c)', b) \in 0..(Blocks - 1)
      BY <1>4, <2>1, DistFacts
    <3> QED BY <1>2, <1>7, <3>1, SizesAssumption
  <2>4. 0 \in 0..Room(At(c))'
    BY <2>2, SizesAssumption
  <2>5. Queue(c)'
    BY <1>3, <1>4, <2>1, <2>3, <2>4 DEF Queue, Run
  <2>6. s \notin busy'[At(c)']
    BY <1>2, <1>4, <1>7, <2>1
  <2>7. puts - 1 < puts /\ (puts - 1 + 1)..(puts - 1) = {}
    BY <1>4
  <2>8. Follows(c)'
    BY <1>3, <1>4, <2>6, <2>7 DEF Follows, Gap
  <2> QED BY <2>5, <2>8
<1>9. ASSUME NEW d \in Clients, d # c, Registered(d)
      PROVE  /\ Queue(d)' /\ Follows(d)'
             /\ next_block_out'[cnum[d]] = next_block_out[cnum[d]]
  <2>1. cnum[d] # s /\ cnum[d] \in Slots
    BY <1>1, <1>9 DEF IndInv, SlotInv, TypeOK
  <2>2. At(d)' = At(d) /\ At(d) \in BlockIds
    BY <1>3, <1>9, <2>1, AtType DEF At, IndInv
  <2>3. Queue(d) /\ Follows(d)
    BY <1>9 DEF OrderInv, QueueInv
  <2> QED BY <1>2, <1>3, <1>4, <1>9, <2>1, <2>2, <2>3, QueueKept
<1>10. QueueInv'
  <2>1. \A d \in Clients : Registered(d)' => d = c \/ Registered(d)
    BY <1>3 DEF Registered
  <2>2. ASSUME NEW d \in Clients, pc'[d] = "finished"
        PROVE  /\ kind'[d] = "transient"
               /\ cnum'[d] \notin busy'[next_block_out'[cnum'[d]]]
    <3>1. d # c /\ pc[d] = "finished" /\ Registered(d)
      BY <1>3, <2>2 DEF Registered
    <3> QED BY <1>2, <1>3, <1>9, <3>1 DEF OrderInv, QueueInv
  <2> QED BY <1>8, <1>9, <2>1, <2>2 DEF QueueInv
<1>11. MarkInv'
  <2>1. UNCHANGED first_block
    BY <1>2 DEF scanVars
  <2> QED BY <1>5, <2>1 DEF MarkInv, OrderInv
<1> QED BY <1>6, <1>10, <1>11 DEF OrderInv

\* When only the bits and the index of one client's slot change, the queues of
\* the others are as before.
LEMMA OthersKeepQueues ==
    ASSUME IndInv, OrderInv, SameBlocks, NEW c \in Clients, NEW s \in Slots,
           \A d \in Clients : d # c =>
             /\ pc'[d] = pc[d] /\ cnum'[d] = cnum[d] /\ kind'[d] = kind[d]
             /\ last_seq'[d] = last_seq[d]
             /\ Registered(d) => cnum[d] # s,
           \A t \in Slots : t # s =>
             /\ next_block_out'[t] = next_block_out[t]
             /\ \A b \in BlockIds : t \in busy'[b] <=> t \in busy[b],
           pc'[c] # "finished",
           Registered(c)' => Queue(c)' /\ Follows(c)'
    PROVE  QueueInv'
<1>1. UNCHANGED <<puts, dropped, next_block_in, seq_num>>
  BY DEF SameBlocks, countVars, inVars, fillVars
<1>2. ASSUME NEW d \in Clients, d # c, Registered(d)
      PROVE  /\ Queue(d)' /\ Follows(d)'
             /\ next_block_out'[cnum[d]] = next_block_out[cnum[d]]
  <2>1. cnum[d] # s /\ cnum[d] \in Slots
    BY <1>2 DEF IndInv, TypeOK
  <2>2. At(d)' = At(d) /\ At(d) \in BlockIds
    BY <1>2, <2>1, AtType DEF At, IndInv
  <2>3. Queue(d) /\ Follows(d)
    BY <1>2 DEF OrderInv, QueueInv
  <2> QED BY <1>1, <1>2, <2>1, <2>2, <2>3, QueueKept
<1>3. \A d \in Clients : d # c => Registered(d)' = Registered(d)
  BY DEF Registered
<1>4. ASSUME NEW d \in Clients, pc'[d] = "finished"
      PROVE  /\ kind'[d] = "transient"
             /\ cnum'[d] \notin busy'[next_block_out'[cnum'[d]]]
  <2>1. d # c /\ pc[d] = "finished" /\ Registered(d)
    BY <1>4 DEF Registered
  <2>2. /\ kind[d] = "transient" /\ cnum[d] \notin busy[next_block_out[cnum[d]]]
        /\ cnum[d] \in Slots /\ cnum[d] # s
    BY <2>1 DEF OrderInv, QueueInv, IndInv, TypeOK
  <2>3. next_block_out[cnum[d]] \in BlockIds
    BY AtType DEF IndInv
  <2> QED BY <1>2, <2>1, <2>2, <2>3
<1> QED BY <1>2, <1>3, <1>4 DEF QueueInv

\* add_transient_consumer starts its search with nothing marked.
LEMMA AddTransientKeepsOrder ==
    ASSUME IndInv, OrderInv, StampedRequests, NEW c \in Clients,
           NEW r \in Requests, AddTransient(c, r), "transient" \in Kinds
    PROVE  OrderInv'
<1> DEFINE s == FreeSlot
<1>0. SameBlocks
  BY ClientSameBlocks DEF SignOnOff
<1>1. s \in Slots /\ s \notin tcmask
  BY FreeSlotIsFree DEF AddTransient, IndInv, TypeOK, SlotInv
<1>2. /\ pc[c] = "out" /\ \A d \in Clients : ~Scanning(d)
      /\ pc' = [pc EXCEPT ![c] = "marking"]
      /\ cnum' = [cnum EXCEPT ![c] = s]
      /\ UNCHANGED <<busy, next_block_out, kind, last_seq, first_block>>
      /\ window' = TransientWindow(r) /\ puts # 0
  BY DEF AddTransient, BufferLocked, Scanning, busyVars, outVars
<1> HIDE DEF s
<1>3. /\ pc'[c] = "marking" /\ cnum'[c] = s
      /\ \A d \in Clients : d # c => pc'[d] = pc[d] /\ cnum'[d] = cnum[d]
  BY <1>2 DEF IndInv, TypeOK
<1>4. FillInv' /\ DataInv' /\ SeqInv'
  <2>1. window'[1] > 0 \/ window'[2] <= window'[1]
    BY <1>2, WindowStamped DEF OrderInv
  <2>2. next_block_in \in BlockIds
    BY DEF IndInv, TypeOK
  <2> QED BY <1>0, <1>2, <2>1, <2>2, BlocksKept, FillKept DEF OrderInv
<1>5. QueueInv'
  <2>1. ~Registered(c)'
    BY <1>3 DEF Registered
  <2>2. \A d \in Clients : Registered(d) => cnum[d] # s
    BY <1>1 DEF IndInv, SlotInv
  <2> QED BY <1>0, <1>1, <1>2, <1>3, <2>1, <2>2, OthersKeepQueues
<1>6. MarkInv'
  <2>1. first_block' = -1
    BY <1>2 DEF OrderInv, MarkInv, Scanning
  <2> QED BY <2>1 DEF MarkInv
<1> QED BY <1>4, <1>5, <1>6 DEF OrderInv

\* Past the block filled next, stamps grow from block to block.
LEMMA StampsGrow ==
    ASSUME IndInv, FillInv, SeqInv, NEW b \in BlockIds, gps[b] # 0,
           b # next_block_in, Succ(b) # next_block_in
    PROVE  gps[Succ(b)] # 0 /\ gps[b] < gps[Succ(b)]
<1>1. Settled(b) /\ Succ(b) \in BlockIds
  BY SuccIs DEF Settled
<1>2. seq_num[b] < seq_num[Succ(b)]
  BY <1>1 DEF SeqInv, Gap
<1>3. gps[Succ(b)] # 0
  <2>1. SUFFICES ASSUME gps[Succ(b)] = 0 PROVE FALSE
    OBVIOUS
  <2>2. /\ next_block_in = puts /\ puts \in Nat
        /\ ~(b > puts)
        /\ Succ(b) > puts \/ Succ(b) = puts
    BY <1>1, <2>1 DEF FillInv, IndInv, TypeOK
  <2>3. b < puts
    BY <2>2, SizesAssumption DEF BlockIds
  <2>4. Succ(b) <= b + 1
    BY SuccIs, SizesAssumption DEF BlockIds
  <2>5. Succ(b) \in Int /\ b \in Int
    BY <1>1, SizesAssumption DEF BlockIds
  <2> QED BY <2>2, <2>3, <2>4, <2>5
<1>4. /\ seq_num[b] \in 0..MaxPuts /\ gps[b] = GpsAt(seq_num[b])
      /\ seq_num[Succ(b)] \in 0..MaxPuts
      /\ gps[Succ(b)] = GpsAt(seq_num[Succ(b)])
  BY <1>1, <1>3 DEF FillInv
<1>5. GpsAt(seq_num[b]) < GpsAt(seq_num[Succ(b)])
  BY <1>2, <1>4, GpsAssumption
<1> QED BY <1>3, <1>4, <1>5

\* One round of the marking loop: a block is marked right after the others, or
\* its stamp is past the window.
LEMMA MarkBlockKeepsOrder ==
    ASSUME IndInv, OrderInv, NEW c \in Clients, MarkBlock(c)
    PROVE  OrderInv'
<1> DEFINE s == cnum[c]
           match == window[1] <= gps[cursor] /\ gps[cursor] < window[2]
<1>0. SameBlocks
  BY ClientSameBlocks DEF SignOnOff
<1>1. /\ pc[c] = "marking" /\ cursor \in BlockIds /\ cursor # next_block_in
      /\ s \in Slots /\ s \notin tcmask /\ next_block_in \in BlockIds
      /\ \A d \in Clients : pc[d] = "marking" => d = c
      /\ first_block \in BlockIds \cup {-1}
      /\ window[1] \in Int /\ window[2] \in Int /\ gps \in [BlockIds -> Nat]
  BY DEF MarkBlock, Scanning, IndInv, LockInv, SlotInv, TypeOK
<1>2. /\ \A b \in BlockIds : busy'[b] = IF match /\ b = cursor
                                       THEN busy[b] \cup {s} ELSE busy[b]
      /\ first_block' = IF match /\ first_block = -1 THEN cursor ELSE first_block
      /\ cursor' = Succ(cursor)
      /\ UNCHANGED <<clientVars, outVars, window, gps, next_block_in>>
  <2>1. first_block < 0 <=> first_block = -1
    BY <1>1, SizesAssumption DEF BlockIds
  <2>2. cursor' = Succ(cursor) /\ UNCHANGED <<clientVars, outVars, window, gps, next_block_in>>
    BY DEF MarkBlock, Succ, fillVars, inVars
  <2>3. busy \in [BlockIds -> SUBSET Slots]
    BY DEF IndInv, TypeOK
  <2>4. CASE match
    <3>1. /\ busy' = [busy EXCEPT ![cursor] = busy[cursor] \cup {s}]
          /\ first_block' = IF first_block < 0 THEN cursor ELSE first_block
      BY <2>4 DEF MarkBlock
    <3> HIDE DEF s, match
    <3> QED BY <1>1, <2>1, <2>2, <2>3, <2>4, <3>1
  <2>5. CASE ~match
    <3>1. UNCHANGED <<busy, first_block>>
      BY <2>5 DEF MarkBlock
    <3> HIDE DEF s, match
    <3> QED BY <2>2, <2>5, <3>1
  <2> QED BY <2>4, <2>5
<1>3. UNCHANGED <<pc, cnum, kind, last_seq, next_block_out>>
  BY <1>2 DEF clientVars, outVars
<1>4. window[1] > 0 \/ window[2] <= window[1]
  BY <1>1 DEF OrderInv, FillInv
<1>5. match => gps[cursor] # 0
  BY <1>1, <1>4
<1>6. FillInv' /\ DataInv' /\ SeqInv'
  <2>1. \A b \in BlockIds : busy'[b] # {} =>
          busy[b] # {} \/ (b # next_block_in /\ gps[b] # 0)
    <3> HIDE DEF match, s
    <3> QED BY <1>1, <1>2, <1>5
  <2> QED BY <1>0, <1>1, <1>2, <1>3, <2>1, BlocksKept, FillKept DEF OrderInv
<1>7. QueueInv'
  <2>1. \A d \in Clients : Registered(d) => cnum[d] # s
    BY <1>1 DEF IndInv, SlotInv
  <2>2. ~Registered(c)' /\ pc'[c] # "finished"
    BY <1>1, <1>3 DEF Registered
  <2>3. \A t \in Slots : t # s =>
          \A b \in BlockIds : t \in busy'[b] <=> t \in busy[b]
    <3> HIDE DEF match, s
    <3> QED BY <1>2
  <2> HIDE DEF s
  <2> QED BY <1>0, <1>1, <1>3, <2>1, <2>2, <2>3, OthersKeepQueues
<1>8. MarkInv'
  <2>1. (\A d \in Clients : pc'[d] # "marking") => first_block' = -1
    BY <1>1, <1>3
  <2> DEFINE f == first_block'
  <2>2. ASSUME f # -1
        PROVE  /\ window[1] < window[2]
               /\ Dist(f, Succ(cursor)) <= Dist(f, next_block_in)
               /\ gps[cursor] >= window[1]
               /\ \E m \in 1..Dist(f, Succ(cursor)) :
                    /\ \A b \in BlockIds : s \in busy'[b] <=> Dist(f, b) < m
                    /\ m = Dist(f, Succ(cursor)) \/ gps[cursor] >= window[2]
    <3>1. CASE first_block = -1
      <4>1. match /\ f = cursor
        <5> HIDE DEF match
        <5> QED BY <1>2, <2>2, <3>1
      <4>2. window[1] < window[2] /\ gps[cursor] >= window[1]
        BY <1>1, <4>1
      <4>3. \A b \in BlockIds : s \notin busy[b]
        BY <1>1, <3>1 DEF IndInv, BusyInv
      <4>4. Succ(cursor) # cursor
        BY <1>1, SuccFacts
      <4>5. Dist(cursor, Succ(cursor)) = 1
        BY <1>1, <4>4, DistSteps, DistFacts
      <4>6. /\ Dist(cursor, next_block_in) \in 0..(Blocks - 1)
            /\ Dist(cursor, next_block_in) # 0
        BY <1>1, DistFacts
      <4>7. 1 <= Dist(cursor, next_block_in)
        BY <4>6, SizesAssumption
      <4>8. \A b \in BlockIds : s \in busy'[b] <=> Dist(cursor, b) < 1
        <5>1. TAKE b \in BlockIds
        <5>2. s \in busy'[b] <=> b = cursor
          <6> HIDE DEF match, s
          <6> QED BY <1>2, <4>1, <4>3
        <5>3. /\ Dist(cursor, b) \in 0..(Blocks - 1)
              /\ (Dist(cursor, b) = 0) = (cursor = b)
          BY <1>1, DistFacts
        <5>4. Dist(cursor, b) < 1 <=> b = cursor
          BY <5>3, SizesAssumption
        <5> QED BY <5>2, <5>4
      <4> QED BY <4>1, <4>2, <4>5, <4>7, <4>8
    <3>2. CASE first_block # -1
      <4> DEFINE p == Pred(cursor)
      <4>1. f = first_block /\ f \in BlockIds
        <5> HIDE DEF match
        <5> QED BY <1>1, <1>2, <3>2
      <4>2. /\ window[1] < window[2]
            /\ Dist(f, cursor) <= Dist(f, next_block_in)
            /\ gps[p] >= window[1]
        BY <1>1, <3>2, <4>1 DEF OrderInv, MarkInv
      <4>3. PICK m \in 1..Dist(f, cursor) :
              /\ Run(s, f, m)
              /\ m = Dist(f, cursor) \/ gps[p] >= window[2]
        BY <1>1, <3>2, <4>1 DEF OrderInv, MarkInv
      <4> HIDE DEF f
      <4>4. /\ Dist(f, cursor) \in 0..(Blocks - 1)
            /\ Dist(f, next_block_in) \in 0..(Blocks - 1)
            /\ Dist(f, cursor) # Dist(f, next_block_in)
        BY <1>1, <4>1, DistFacts
      <4>5. /\ Dist(f, cursor) < Dist(f, next_block_in)
            /\ Dist(f, cursor) # Blocks - 1
        BY <4>2, <4>4, SizesAssumption
      <4>6. Dist(f, Succ(cursor)) = Dist(f, cursor) + 1
        BY <1>1, <4>1, <4>5, DistSteps
      <4>7. p \in BlockIds /\ Succ(p) = cursor
        BY <1>1, PredIs
      <4> HIDE DEF p
      <4>8. p # next_block_in
        <5>1. SUFFICES ASSUME p = next_block_in PROVE FALSE
          OBVIOUS
        <5>2. f # cursor
          <6>1. Dist(f, cursor) # 0
            BY <4>3, <4>4, SizesAssumption
          <6> QED BY <1>1, <4>1, <6>1, DistFacts
        <5>3. Dist(f, cursor) = Dist(f, p) + 1
          BY <4>1, <4>7, <5>2, DistSteps
        <5> QED BY <4>4, <4>5, <5>1, <5>3, SizesAssumption
      <4>9. gps[p] # 0
        BY <1>1, <1>4, <4>2, <4>7
      <4>10. gps[p] < gps[cursor]
        BY <1>1, <4>7, <4>8, <4>9, StampsGrow DEF OrderInv
      <4>11. gps[p] \in Nat /\ gps[cursor] \in Nat
        BY <1>1, <4>7
      <4>12. gps[cursor] >= window[1]
        BY <1>1, <4>2, <4>10, <4>11
      <4>13. Dist(f, Succ(cursor)) <= Dist(f, next_block_in)
        BY <4>4, <4>5, <4>6, SizesAssumption
      <4>14. m \in Int /\ 1 <= m /\ m <= Dist(f, cursor)
        BY <4>3, <4>4, SizesAssumption
      <4>15. CASE match
        <5>1. m = Dist(f, cursor)
          BY <1>1, <4>3, <4>10, <4>11, <4>15
        <5>2. \A b \in BlockIds : s \in busy'[b] <=> Dist(f, b) < m + 1
          <6>1. TAKE b \in BlockIds
          <6>2. Dist(f, b) \in 0..(Blocks - 1) /\ (Dist(f, b) = m => b = cursor)
            BY <1>1, <4>1, <5>1, DistFacts
          <6>3. s \in busy[b] <=> Dist(f, b) < m
            BY <4>3 DEF Run
          <6>4. s \in busy'[b] <=> b = cursor \/ s \in busy[b]
            <7> HIDE DEF match, s
            <7> QED BY <1>2, <4>15
          <6>5. Dist(f, b) < m + 1 <=> Dist(f, b) < m \/ Dist(f, b) = m
            BY <4>14, <6>2, SizesAssumption
          <6> QED BY <5>1, <6>2, <6>3, <6>4, <6>5
        <5>3. m + 1 \in 1..Dist(f, Succ(cursor)) /\ m + 1 = Dist(f, Succ(cursor))
          BY <4>6, <4>14, <5>1
        <5> QED BY <4>2, <4>12, <4>13, <5>2, <5>3
      <4>16. CASE ~match
        <5>1. gps[cursor] >= window[2]
          BY <1>1, <4>11, <4>12, <4>16
        <5>2. \A b \in BlockIds : s \in busy'[b] <=> Dist(f, b) < m
          <6>1. \A b \in BlockIds : busy'[b] = busy[b]
            <7> HIDE DEF match, s
            <7> QED BY <1>2, <4>16
          <6> QED BY <4>3, <6>1 DEF Run
        <5>3. m \in 1..Dist(f, Succ(cursor))
          BY <4>4, <4>6, <4>14, SizesAssumption
        <5> QED BY <4>2, <4>12, <4>13, <5>1, <5>2, <5>3
      <4> QED BY <4>15, <4>16
    <3> QED BY <3>1, <3>2
  <2>3. Pred(cursor)' = cursor
    BY <1>1, <1>2, PredIs DEF Pred
  <2> HIDE DEF match
  <2> QED BY <1>1, <1>2, <1>3, <2>1, <2>2, <2>3 DEF MarkInv, Run
<1> QED BY <1>6, <1>7, <1>8 DEF OrderInv

\* The search is over: the first marked block is the consumer's next one.
LEMMA AddTransientDoneKeepsOrder ==
    ASSUME IndInv, OrderInv, NEW c \in Clients, AddTransientDone(c)
    PROVE  OrderInv'
<1> DEFINE s == cnum[c]
<1>0. SameBlocks
  BY ClientSameBlocks DEF SignOnOff
<1>1. /\ pc[c] = "marking" /\ cursor = next_block_in
      /\ s \in Slots /\ s \notin tcmask /\ next_block_in \in BlockIds
      /\ \A d \in Clients : pc[d] = "marking" => d = c
      /\ first_block \in BlockIds \cup {-1}
      /\ first_block' = -1 /\ UNCHANGED <<busy, cnum>>
      /\ seq_num \in [BlockIds -> Nat] /\ puts \in Nat
  BY DEF AddTransientDone, Scanning, IndInv, LockInv, SlotInv, TypeOK, busyVars
<1>2. /\ pc'[c] # "marking" /\ pc'[c] # "finished"
      /\ \A d \in Clients : d # c =>
           /\ pc'[d] = pc[d] /\ kind'[d] = kind[d] /\ last_seq'[d] = last_seq[d]
      /\ \A t \in Slots : t # s => next_block_out'[t] = next_block_out[t]
      /\ pc'[c] # "out" =>
           /\ first_block # -1 /\ kind'[c] = "transient" /\ pc'[c] = "ready"
           /\ next_block_out'[s] = first_block
           /\ last_seq'[c] = seq_num[first_block] - 1
  <2>1. first_block < 0 <=> first_block = -1
    BY <1>1, SizesAssumption DEF BlockIds
  <2>2. /\ next_block_out \in [Slots -> BlockIds]
        /\ pc \in [Clients -> ClientSteps]
        /\ kind \in [Clients -> {"slow", "fast", "transient"}]
        /\ last_seq \in [Clients -> Int]
    BY DEF IndInv, TypeOK
  <2>3. CASE first_block = -1
    <3>1. pc' = [pc EXCEPT ![c] = "out"] /\ UNCHANGED <<next_block_out, kind, last_seq>>
      BY <2>1, <2>3 DEF AddTransientDone
    <3> QED BY <2>2, <3>1
  <2>4. CASE first_block # -1
    <3>1. /\ next_block_out' = [next_block_out EXCEPT ![s] = first_block]
          /\ pc' = [pc EXCEPT ![c] = "ready"]
          /\ kind' = [kind EXCEPT ![c] = "transient"]
          /\ last_seq' = [last_seq EXCEPT ![c] = seq_num[first_block] - 1]
      BY <2>1, <2>4 DEF AddTransientDone
    <3> HIDE DEF s
    <3> QED BY <1>1, <2>2, <2>4, <3>1
  <2> QED BY <2>3, <2>4
<1>3. \A d \in Clients : pc'[d] # "marking"
  BY <1>1, <1>2
<1>4. FillInv' /\ DataInv' /\ SeqInv'
  BY <1>0, <1>1, <1>3, BlocksKept, FillKept DEF OrderInv
<1>5. ASSUME Registered(c)'
      PROVE  Queue(c)' /\ Follows(c)'
  <2> DEFINE f == first_block
  <2>1. /\ pc'[c] = "ready" /\ f # -1 /\ f \in BlockIds
        /\ kind'[c] = "transient" /\ next_block_out'[s] = f
        /\ last_seq'[c] = seq_num[f] - 1
    BY <1>1, <1>2, <1>5 DEF Registered
  <2>2. At(c)' = f
    BY <1>1, <2>1 DEF At
  <2>3. PICK m \in 1..Dist(f, next_block_in) : Run(s, f, m)
    BY <1>1, <2>1 DEF OrderInv, MarkInv
  <2>4. /\ Dist(f, next_block_in) \in 0..(Blocks - 1)
        /\ (Dist(f, next_block_in) = 0) = (f = next_block_in)
    BY <1>1, <2>1, DistFacts
  <2>5. UNCHANGED <<next_block_in, seq_num, dropped>>
    BY <1>0 DEF SameBlocks, inVars, fillVars, countVars
  <2>6. m \in 0..Room(At(c))'
    <3>1. Room(At(c))' = Dist(f, next_block_in)
      BY <2>2, <2>3, <2>4, <2>5, SizesAssumption DEF Room
    <3> QED BY <2>3, <2>4, <3>1, SizesAssumption
  <2>7. Queue(c)'
    BY <1>1, <2>1, <2>2, <2>3, <2>6 DEF Queue, Run
  <2>8. s \in busy'[f]
    <3>1. Dist(f, f) = 0 /\ 0 < m
      BY <2>1, <2>3, <2>4, DistFacts, SizesAssumption
    <3> QED BY <1>1, <2>1, <2>3, <3>1 DEF Run
  <2>9. seq_num[f] - 1 < seq_num[f] /\ (seq_num[f] - 1 + 1)..(seq_num[f] - 1) = {}
    BY <1>1, <2>1
  <2>10. Follows(c)'
    BY <1>1, <2>1, <2>2, <2>5, <2>8, <2>9 DEF Follows, Gap
  <2> QED BY <2>7, <2>10
<1>6. QueueInv'
  <2>1. \A d \in Clients : Registered(d) => cnum[d] # s
    BY <1>1 DEF IndInv, SlotInv
  <2> HIDE DEF s
  <2> QED BY <1>0, <1>1, <1>2, <1>5, <2>1, OthersKeepQueues
<1>7. MarkInv'
  BY <1>1, <1>3 DEF MarkInv
<1> QED BY <1>4, <1>6, <1>7 DEF OrderInv

\* delete_consumer and its loop only take bits of the slot that is given up.
LEMMA DeleteKeepsOrder ==
    ASSUME IndInv, OrderInv, NEW c \in Clients, DeleteConsumer(c) \/ ClearBlock(c)
    PROVE  OrderInv'
<1> DEFINE s == cnum[c]
<1>0. SameBlocks
  BY ClientSameBlocks DEF SignOnOff
<1>1. /\ pc'[c] \in {"clearing", "out"} /\ s \in Slots
      /\ \A d \in Clients : d # c => pc'[d] = pc[d]
      /\ UNCHANGED <<kind, cnum, last_seq, window, first_block, next_block_out>>
  <2>1. CASE DeleteConsumer(c)
    BY <2>1 DEF DeleteConsumer, IndInv, TypeOK, outVars
  <2>2. CASE ClearBlock(c)
    BY <2>2 DEF ClearBlock, IndInv, TypeOK, outVars
  <2> QED BY <2>1, <2>2
<1>2. /\ \A b \in BlockIds : busy'[b] = busy[b] \/ busy'[b] = busy[b] \ {s}
      /\ \A d \in Clients : pc[d] # "marking"
  <2>1. CASE DeleteConsumer(c)
    BY <2>1 DEF DeleteConsumer, busyVars, BufferLocked
  <2>2. CASE ClearBlock(c)
    BY <2>2 DEF ClearBlock, IndInv, TypeOK, LockInv, Scanning
  <2> QED BY <2>1, <2>2
<1>3. \A d \in Clients : d # c /\ Registered(d) => cnum[d] # s
  <2>1. CASE DeleteConsumer(c)
    BY <2>1 DEF DeleteConsumer, IndInv, SlotInv, Registered
  <2>2. CASE ClearBlock(c)
    BY <2>2 DEF ClearBlock, IndInv, SlotInv, Scanning
  <2> QED BY <2>1, <2>2
<1>4. FillInv' /\ DataInv' /\ SeqInv'
  <2>1. \A b \in BlockIds : busy'[b] # {} => busy[b] # {}
    BY <1>2
  <2>2. next_block_in \in BlockIds
    BY DEF IndInv, TypeOK
  <2>3. \A d \in Clients : pc'[d] # "marking"
    BY <1>1, <1>2
  <2> QED BY <1>0, <2>1, <2>2, <2>3, BlocksKept, FillKept DEF OrderInv
<1>5. QueueInv'
  <2>1. \A t \in Slots : t # s =>
          \A b \in BlockIds : t \in busy'[b] <=> t \in busy[b]
    BY <1>2
  <2>2. ~Registered(c)' /\ pc'[c] # "finished"
    BY <1>1 DEF Registered
  <2> HIDE DEF s
  <2> QED BY <1>0, <1>1, <1>3, <2>1, <2>2, OthersKeepQueues
<1>6. MarkInv'
  BY <1>1, <1>2 DEF OrderInv, MarkInv
<1> QED BY <1>4, <1>5, <1>6 DEF OrderInv

-----------------------------------------------------------------------------
(* The producer *)

\* While blocks are marked for a transient consumer, MarkInv only depends on
\* bits, stamps behind the block filled next, and indices.
LEMMA MarksKept ==
    ASSUME IndInv, MarkInv, next_block_in' = next_block_in,
           UNCHANGED <<busy, cnum, scanVars>>,
           \A b \in BlockIds : b # next_block_in => gps'[b] = gps[b],
           \A d \in Clients : pc'[d] = "marking" <=> pc[d] = "marking"
    PROVE  MarkInv'
<1>1. UNCHANGED <<cursor, window, first_block>> /\ cursor \in BlockIds
      /\ first_block \in BlockIds \cup {-1} /\ next_block_in \in BlockIds
  BY DEF scanVars, IndInv, TypeOK
<1>2. ASSUME NEW d \in Clients, pc[d] = "marking", first_block # -1
      PROVE  gps'[Pred(cursor)] = gps[Pred(cursor)]
  <2> DEFINE f == first_block
             p == Pred(cursor)
  <2>1. /\ f \in BlockIds /\ Dist(f, cursor) <= Dist(f, next_block_in)
        /\ \E m \in 1..Dist(f, cursor) : TRUE
    BY <1>1, <1>2 DEF MarkInv
  <2>2. p \in BlockIds /\ Succ(p) = cursor
    BY <1>1, PredIs
  <2> HIDE DEF f, p
  <2>3. /\ Dist(f, cursor) \in 0..(Blocks - 1)
        /\ Dist(f, next_block_in) \in 0..(Blocks - 1)
        /\ Dist(f, p) \in 0..(Blocks - 1)
        /\ (Dist(f, cursor) = 0) = (f = cursor)
    BY <1>1, <2>1, <2>2, DistFacts
  <2>4. f # cursor
    BY <2>1, <2>3, SizesAssumption
  <2>5. Dist(f, cursor) = Dist(f, p) + 1
    BY <2>1, <2>2, <2>4, DistSteps
  <2>6. p # next_block_in
    BY <2>1, <2>3, <2>5, SizesAssumption
  <2> QED BY <2>2, <2>6 DEF p
<1>3. \A s, h, m : Run(s, h, m)' = Run(s, h, m)
  BY DEF Run
<1>4. Pred(cursor)' = Pred(cursor) /\ Dist(first_block, cursor)' = Dist(first_block, cursor)
      /\ Dist(first_block, next_block_in)' = Dist(first_block, next_block_in)
  BY <1>1 DEF Pred, Dist
<1> QED BY <1>1, <1>2, <1>3, <1>4 DEF MarkInv, Run

\* Entering put, waiting for the block and the broadcasts change no block.
LEMMA PutWaitKeepsOrder ==
    ASSUME IndInv, OrderInv,
           \/ \E o \in PutOps : PutCall(o)
           \/ PutTest \/ PutSleep \/ PutSpuriousWakeup \/ PutSignal
    PROVE  OrderInv'
<1>1. /\ UNCHANGED <<countVars, inVars, fillVars, busy, cnum, kind, last_seq,
                     scanVars, next_block_out>>
      /\ \A d \in Clients :
           pc'[d] = pc[d] \/ (pc[d] = "asleep" /\ pc'[d] = "test")
  BY DEF PutCall, PutTest, PutSleep, PutSpuriousWakeup, PutSignal, AsleepNotEmpty,
     Asleep16th, clientVars, busyVars, outVars
<1>2. ASSUME NEW d \in Clients
      PROVE  /\ Registered(d)' = Registered(d)
             /\ Registered(d) => At(d)' = At(d)
             /\ pc'[d] = "marking" <=> pc[d] = "marking"
             /\ pc'[d] = "finished" =>
                  /\ kind[d] = "transient"
                  /\ cnum[d] \notin busy[next_block_out'[cnum[d]]]
  <2>1. pc[d] = "finished" => /\ kind[d] = "transient"
                              /\ cnum[d] \notin busy[next_block_out[cnum[d]]]
    BY DEF OrderInv, QueueInv
  <2> QED BY <1>1, <2>1 DEF Registered, At
<1>3. CASE SameBlocks
  BY <1>1, <1>2, <1>3, QuietStep
<1>4. CASE ~SameBlocks
  <2>1. /\ PutTest /\ ppc = "test" /\ ppc' = "drop" /\ busy[nbi] # {}
        /\ pop = "put_nowait" /\ UNCHANGED <<pop, nbi, nbi16th>>
    BY <1>1, <1>4 DEF SameBlocks, PutCall, PutTest, PutSleep, PutSpuriousWakeup,
       PutSignal
  <2>2. nbi = next_block_in /\ nbi \in BlockIds
    BY <2>1 DEF IndInv, ProducerInv, InCall, TypeOK
  <2>3. UNCHANGED <<puts, drops, dropped, next_block_in, next_block_in_16th, seq_num,
                    gps, data, cursor, window, first_block>>
    BY <1>1 DEF countVars, inVars, fillVars, scanVars
  <2>4. Filling' = Filling /\ Stored' = Stored
    BY <2>1, <2>3 DEF Filling, Stored
  <2>5. \A b \in BlockIds : gps[b] # 0
    <3>1. SUFFICES ASSUME \E b \in BlockIds : gps[b] = 0 PROVE FALSE
      OBVIOUS
    <3>2. /\ gps[nbi] # 0 /\ ~Filling
      BY <2>1, <2>2 DEF OrderInv, FillInv
    <3> QED BY <2>2, <3>1, <3>2 DEF OrderInv, FillInv
  <2>6. FillInv'
    BY <1>1, <1>2, <2>1, <2>3, <2>4, <2>5 DEF OrderInv, FillInv
  <2>7. \A b \in BlockIds : Settled(b)' = Settled(b)
    BY <2>3, <2>4 DEF Settled
  <2>8. DataInv' /\ SeqInv'
    BY <2>1, <2>3, <2>4, <2>7 DEF OrderInv, DataInv, SeqInv, OfSecond, Gap
  <2>9. QueueInv'
    <3>1. ASSUME NEW d \in Clients, Registered(d)
          PROVE  Queue(d)' /\ Follows(d)'
      <4>1. At(d) \in BlockIds /\ Queue(d) /\ Follows(d)
        BY <3>1, AtType DEF IndInv, OrderInv, QueueInv
      <4> QED BY <1>1, <1>2, <2>3, <3>1, <4>1, QueueKept
    <3> QED BY <1>1, <1>2, <3>1 DEF QueueInv
  <2>10. MarkInv'
    BY <1>1, <1>2, <2>3, MarksKept DEF OrderInv
  <2> QED BY <2>6, <2>8, <2>9, <2>10 DEF OrderInv
<1> QED BY <1>3, <1>4

\* What a put knows about its block before it stores into it.
LEMMA InCallFacts ==
    ASSUME IndInv, InCall
    PROVE  /\ nbi = next_block_in /\ nbi \in BlockIds
           /\ nbi16th = next_block_in_16th /\ nbi16th \in PartIds
           /\ puts \in Nat /\ puts \in 0..MaxPuts /\ puts < MaxPuts
           /\ pop \in PutOps /\ pop \in PutCalls
           /\ pop \in WholePuts => next_block_in_16th = 0
           /\ Stored = nbi16th
<1>1. /\ nbi = next_block_in /\ nbi \in BlockIds
      /\ nbi16th = next_block_in_16th /\ nbi16th \in PartIds
      /\ puts \in Nat /\ puts < MaxPuts /\ pop \in PutOps /\ pop \in PutCalls
      /\ ppc # "publish16th"
  BY DEF IndInv, InCall, ProducerInv, TypeOK
<1>2. pop \in WholePuts => next_block_in_16th = 0
  BY <1>1, OpsAssumption DEF IndInv, ProducerInv, WholePuts, PartPuts
<1>3. puts \in 0..MaxPuts
  BY <1>1, SizesAssumption
<1> QED BY <1>1, <1>2, <1>3 DEF Stored

\* Storing a block or a part stamps it with the put it belongs to; nobody has a
\* bit in it.
LEMMA PutFillKeepsOrder ==
    ASSUME IndInv, OrderInv, PutFill
    PROVE  OrderInv'
<1> DEFINE n == next_block_in
<1>1. /\ nbi = n /\ n \in BlockIds /\ nbi16th = next_block_in_16th
      /\ nbi16th \in PartIds /\ puts \in Nat /\ puts \in 0..MaxPuts
      /\ pop \in PutOps /\ pop \in PutCalls
      /\ pop \in WholePuts => next_block_in_16th = 0
      /\ Stored = nbi16th /\ ppc = "fill" /\ busy[n] = {}
  BY InCallFacts DEF PutFill, InCall, IndInv, ProducerInv
<1>2. /\ UNCHANGED <<countVars, inVars, outVars, maskVars, busyVars, pop, nbi, nbi16th,
                     clientVars, scanVars>>
      /\ ppc' = "publish"
  BY DEF PutFill
<1>3. /\ UNCHANGED <<puts, drops, dropped, next_block_in, next_block_in_16th, busy, pc,
                     cnum, kind, last_seq, next_block_out, window>>
  BY <1>2 DEF countVars, inVars, outVars, busyVars, clientVars, scanVars
<1>4. Filling' /\ Stored' = Stored
  BY <1>1, <1>2, <1>3 DEF Filling, Stored
<1>5. GpsAt(puts) # 0
  BY <1>1, GpsAssumption
<1>6. /\ \A b \in BlockIds : b # n =>
           gps'[b] = gps[b] /\ seq_num'[b] = seq_num[b] /\ data'[b] = data[b]
      /\ seq_num'[n] = puts /\ gps'[n] = GpsAt(puts)
      /\ Stored > 0 => seq_num'[n] = seq_num[n] /\ gps'[n] = gps[n]
  <2>1. /\ gps \in [BlockIds -> Nat] /\ seq_num \in [BlockIds -> Nat]
        /\ data \in [BlockIds -> [PartIds -> Int]]
    BY DEF IndInv, TypeOK
  <2>2. \A b \in BlockIds : b # n => data'[b] = data[b]
    BY <1>1, <2>1 DEF PutFill
  <2>3. CASE pop \in WholePuts \/ nbi16th = 0
    <3>1. /\ seq_num' = [seq_num EXCEPT ![nbi] = puts]
          /\ gps' = [gps EXCEPT ![nbi] = GpsAt(puts)]
      BY <2>3 DEF PutFill
    <3>2. ~(Stored > 0)
      BY <1>1, <2>3
    <3> QED BY <1>1, <2>1, <2>2, <3>1, <3>2
  <2>4. CASE ~(pop \in WholePuts \/ nbi16th = 0)
    <3>1. UNCHANGED <<seq_num, gps>>
      BY <2>4 DEF PutFill
    <3>2. Stored > 0
      BY <1>1, <2>4, SizesAssumption DEF PartIds
    <3>3. Filling
      BY <3>2 DEF Filling
    <3>4. seq_num[n] = puts /\ gps[n] # 0
      BY <3>3 DEF OrderInv, FillInv
    <3>5. gps[n] = GpsAt(puts)
      BY <1>1, <3>4 DEF OrderInv, FillInv
    <3> QED BY <2>2, <3>1, <3>4, <3>5
  <2> QED BY <2>3, <2>4
<1>7. FillInv'
  <2>1. Filling' => /\ busy[n] = {} /\ seq_num'[n] = puts /\ gps'[n] # 0
    BY <1>1, <1>5, <1>6
  <2>2. \A b \in BlockIds : gps'[b] # 0 =>
          seq_num'[b] \in 0..MaxPuts /\ gps'[b] = GpsAt(seq_num'[b])
    BY <1>1, <1>6 DEF OrderInv, FillInv
  <2>3. \A b \in BlockIds : busy[b] # {} => gps'[b] # 0
    BY <1>1, <1>6 DEF OrderInv, FillInv
  <2>4. ASSUME \E b \in BlockIds : gps'[b] = 0
        PROVE  /\ n = puts
               /\ \A b \in BlockIds : gps'[b] = 0 <=> b > puts
    <3>1. \E b \in BlockIds : gps[b] = 0
      BY <1>5, <1>6, <2>4
    <3>2. /\ n = puts
          /\ \A b \in BlockIds : gps[b] = 0 <=> b > puts \/ (b = puts /\ ~Filling)
      BY <3>1 DEF OrderInv, FillInv
    <3>3. \A b \in BlockIds : gps'[b] = 0 <=> b > puts
      BY <1>1, <1>5, <1>6, <3>2
    <3> QED BY <3>2, <3>3
  <2>5. \A d \in Clients : pc[d] = "marking" => window[1] > 0 \/ window[2] <= window[1]
    BY DEF OrderInv, FillInv
  <2> HIDE DEF n
  <2>6. ppc' # "drop"
    BY <1>2
  <2> QED BY <1>3, <1>4, <2>1, <2>2, <2>3, <2>4, <2>5, <2>6 DEF FillInv, n
<1>8. \A b \in BlockIds : Settled(b)' => b # n /\ Settled(b) /\ gps'[b] = gps[b]
  <2>1. TAKE b \in BlockIds
  <2>2. CASE b = n
    BY <1>3, <1>4, <2>2 DEF Settled
  <2>3. CASE b # n
    BY <1>3, <1>6, <2>3 DEF Settled
  <2> QED BY <2>2, <2>3
<1>9. DataInv'
  <2>1. \A b \in BlockIds, p \in PartIds : Settled(b)' => OfSecond(b, p)'
    BY <1>6, <1>8 DEF OrderInv, DataInv, OfSecond
  <2>2. data \in [BlockIds -> [PartIds -> Int]]
    BY DEF IndInv, TypeOK
  <2>3. CASE pop \in WholePuts
    <3>1. \A p \in PartIds : data'[n][p] = puts
      BY <1>1, <2>2, <2>3 DEF PutFill
    <3>2. \A p \in PartIds : OfSecond(n, p)'
      BY <1>3, <1>6, <3>1 DEF OfSecond
    <3> QED BY <1>1, <1>2, <1>3, <2>1, <3>2 DEF DataInv, OfSecond
  <2>4. CASE pop \notin WholePuts
    <3> DEFINE v == IF pop = "put16th_lost" THEN -1 ELSE puts
    <3>1. data' = [data EXCEPT ![nbi][nbi16th] = v]
      BY <2>4 DEF PutFill
    <3>2. v = puts \/ (v = -1 /\ "put16th_lost" \in PutOps)
      BY <1>1
    <3> HIDE DEF v
    <3>3. /\ data'[n][nbi16th] = v
          /\ \A p \in PartIds : p # nbi16th => data'[n][p] = data[n][p]
      BY <1>1, <2>2, <3>1
    <3>4. OfSecond(n, nbi16th)'
      BY <1>2, <1>3, <1>6, <3>2, <3>3 DEF OfSecond
    <3>5. ASSUME NEW p \in PartIds, p < Stored
          PROVE  OfSecond(n, p)'
      <4>1. p # nbi16th /\ Stored > 0
        BY <1>1, <3>5, SizesAssumption DEF PartIds
      <4>2. OfSecond(n, p)
        BY <3>5 DEF OrderInv, DataInv
      <4> QED BY <1>3, <1>6, <3>3, <4>1, <4>2 DEF OfSecond
    <3>6. Stored' = Stored
      BY <1>4
    <3>7. nbi' = nbi /\ nbi16th' = nbi16th /\ pop' = pop
      BY <1>2
    <3> QED BY <1>1, <1>3, <2>1, <2>4, <3>4, <3>5, <3>6, <3>7 DEF DataInv, OfSecond
  <2> QED BY <2>3, <2>4
<1>10. SeqInv'
  <2>1. ASSUME NEW b \in BlockIds, Settled(b)'
        PROVE  Gap(seq_num'[b], IF Succ(b) = n THEN puts ELSE seq_num'[Succ(b)])
    <3>1. b # n /\ Settled(b) /\ Succ(b) \in BlockIds
      BY <1>8, <2>1, SuccIs
    <3> QED BY <1>6, <3>1 DEF OrderInv, SeqInv
  <2> QED BY <1>3, <2>1 DEF OrderInv, SeqInv, Gap
<1>11. QueueInv'
  <2>1. ASSUME NEW d \in Clients, Registered(d)
        PROVE  Queue(d)' /\ Follows(d)'
    <3>1. At(d) \in BlockIds /\ Queue(d) /\ Follows(d) /\ At(d)' = At(d)
      BY <1>3, <2>1, AtType DEF IndInv, OrderInv, QueueInv, At
    <3>2. cnum[d] \in busy[At(d)] => seq_num'[At(d)] = seq_num[At(d)]
      BY <1>1, <1>6, <3>1
    <3> QED BY <1>3, <2>1, <3>1, <3>2, QueueKept
  <2> QED BY <1>3, <2>1 DEF OrderInv, QueueInv, Registered
<1>12. MarkInv'
  BY <1>2, <1>3, <1>6, MarksKept DEF OrderInv
<1> QED BY <1>7, <1>9, <1>10, <1>11, <1>12 DEF OrderInv

\* Handing a part to the fast consumers changes what is stored by one part, or
\* starts the next block.
LEMMA PutPublish16thKeepsOrder ==
    ASSUME IndInv, OrderInv, PutPublish16th
    PROVE  OrderInv'
<1>1. /\ UNCHANGED <<countVars, next_block_in, outVars, maskVars, busy, fillVars,
                     pop, nbi, nbi16th, clientVars, scanVars>>
      /\ ppc' = "signal"
      /\ next_block_in_16th' = (next_block_in_16th + 1) % Parts
  BY DEF PutPublish16th
<1>2. UNCHANGED <<puts, drops, dropped, pc, cnum, kind, last_seq, next_block_out, window,
                  seq_num, gps, data>>
  BY <1>1 DEF countVars, outVars, fillVars, clientVars, scanVars
<1>3. /\ Filling' = Filling
      /\ \A p \in PartIds : p < Stored' => p < Stored \/ (ppc = "publish" /\ p = nbi16th)
  <2>1. CASE ppc = "publish16th"
    <3>1. next_block_in_16th = Parts - 1
      BY <2>1 DEF IndInv, ProducerInv
    <3>2. next_block_in_16th' = 0
      BY <1>1, <3>1, SizesAssumption
    <3> QED BY <1>1, <2>1, <3>2, SizesAssumption DEF Filling, Stored, PartIds
  <2>2. CASE ppc # "publish16th"
    <3>1. ppc = "publish" /\ nbi16th # Parts - 1
      BY <2>2 DEF PutPublish16th
    <3>2. nbi16th = next_block_in_16th /\ nbi16th \in PartIds
      BY <3>1, InCallFacts DEF InCall
    <3>3. next_block_in_16th' = nbi16th + 1 /\ nbi16th \in Nat
      BY <1>1, <3>1, <3>2, SizesAssumption DEF PartIds
    <3>4. Filling' /\ Filling
      BY <1>1, <3>1, <3>3 DEF Filling, Stored
    <3>5. Stored' = nbi16th + 1 /\ Stored = nbi16th
      BY <1>1, <3>1, <3>2, <3>3 DEF Stored
    <3>6. \A p \in PartIds : p < nbi16th + 1 => p < nbi16th \/ p = nbi16th
      BY <3>2, SizesAssumption DEF PartIds
    <3> QED BY <3>1, <3>4, <3>5, <3>6
  <2> QED BY <2>1, <2>2
<1>4. FillInv'
  BY <1>1, <1>2, <1>3 DEF OrderInv, FillInv
<1>5. \A b \in BlockIds : Settled(b)' = Settled(b)
  BY <1>1, <1>2, <1>3 DEF Settled
<1>6. SeqInv'
  BY <1>1, <1>2, <1>5 DEF OrderInv, SeqInv, Gap
<1>7. DataInv'
  <2>1. ppc = "publish" => nbi = next_block_in
    BY DEF IndInv, ProducerInv, InCall
  <2>2. \A p \in PartIds : p < Stored' => OfSecond(next_block_in, p)
    BY <1>3, <2>1 DEF OrderInv, DataInv
  <2> QED BY <1>1, <1>2, <1>5, <2>2 DEF OrderInv, DataInv, OfSecond
<1>8. QueueInv'
  <2>1. ASSUME NEW d \in Clients, Registered(d)
        PROVE  Queue(d)' /\ Follows(d)'
    <3>1. At(d) \in BlockIds /\ Queue(d) /\ Follows(d) /\ At(d)' = At(d)
      BY <1>2, <2>1, AtType DEF IndInv, OrderInv, QueueInv, At
    <3> QED BY <1>1, <1>2, <2>1, <3>1, QueueKept
  <2> QED BY <1>1, <1>2, <2>1 DEF OrderInv, QueueInv, Registered
<1>9. MarkInv'
  BY <1>1, <1>2, MarksKept DEF OrderInv
<1> QED BY <1>4, <1>6, <1>7, <1>8, <1>9 DEF OrderInv

\* A gap stays one when more is dropped, and grows by what is dropped last.
LEMMA GapGrows ==
    ASSUME NEW m \in Int, NEW n \in Int, Gap(m, n),
           NEW x \in Int, dropped' = dropped \cup {x}
    PROVE  /\ m < n /\ (m + 1)..(n - 1) \subseteq dropped'
           /\ n = x => m < n + 1 /\ (m + 1)..n \subseteq dropped'
  BY DEF Gap

\* put_nowait drops only when every block has been written, and counts the drop.
LEMMA PutDropKeepsOrder ==
    ASSUME IndInv, OrderInv, PutDrop
    PROVE  OrderInv'
<1>1. /\ UNCHANGED <<inVars, outVars, maskVars, busyVars, fillVars, pop, nbi, nbi16th,
                     clientVars, scanVars>>
      /\ ppc = "drop" /\ ppc' = "signal"
      /\ drops' = drops + 1 /\ puts' = puts + 1 /\ dropped' = dropped \cup {puts}
      /\ puts \in Nat /\ puts \in Int /\ dropped \subseteq Nat
  BY DEF PutDrop, IndInv, TypeOK
<1>2. UNCHANGED <<next_block_in, next_block_in_16th, busy, pc, cnum, kind, last_seq,
                  next_block_out, window, seq_num, gps, data>>
  BY <1>1 DEF inVars, outVars, fillVars, busyVars, clientVars, scanVars
<1>3. \A b \in BlockIds : gps[b] # 0
  BY <1>1 DEF OrderInv, FillInv
<1>4. ~Filling /\ ~Filling' /\ Stored' = Stored
  <2>1. pop = "put_nowait"
    BY <1>1 DEF OrderInv, FillInv
  <2>2. Stored = 0
    BY <1>1, <2>1, InCallFacts DEF InCall, WholePuts
  <2>3. Stored' = Stored
    BY <1>1, <1>2 DEF Stored
  <2> QED BY <1>1, <2>2, <2>3 DEF Filling
<1>5. FillInv'
  BY <1>1, <1>2, <1>3, <1>4 DEF OrderInv, FillInv
<1>6. \A b \in BlockIds : Settled(b)' = Settled(b)
  BY <1>2, <1>4 DEF Settled
<1>7. DataInv'
  BY <1>1, <1>2, <1>4, <1>6 DEF OrderInv, DataInv, OfSecond
<1>8. SeqInv'
  <2>1. /\ IsFiniteSet(dropped) /\ drops = Cardinality(dropped) /\ puts \notin dropped
    BY <1>1 DEF OrderInv, SeqInv
  <2>2. IsFiniteSet(dropped') /\ drops' = Cardinality(dropped')
    BY <1>1, <2>1, FS_AddElement
  <2>3. \A n \in dropped' : n < puts'
    BY <1>1 DEF OrderInv, SeqInv
  <2>4. ASSUME NEW b \in BlockIds, Settled(b)'
        PROVE  Gap(seq_num[b], IF Succ(b) = next_block_in THEN puts
                               ELSE seq_num[Succ(b)])'
    <3> DEFINE n == IF Succ(b) = next_block_in THEN puts ELSE seq_num[Succ(b)]
    <3>1. Gap(seq_num[b], n)
      BY <1>6, <2>4 DEF OrderInv, SeqInv
    <3>2. seq_num[b] \in Int /\ n \in Int
      BY <1>1, SuccIs DEF IndInv, TypeOK
    <3>3. CASE Succ(b) = next_block_in
      <4>1. n = puts
        BY <3>3
      <4> HIDE DEF n
      <4>2. seq_num[b] < puts + 1 /\ (seq_num[b] + 1)..puts \subseteq dropped'
        BY <1>1, <3>1, <3>2, <4>1, GapGrows
      <4>3. (puts + 1) - 1 = puts
        BY <1>1
      <4> QED BY <1>1, <1>2, <3>3, <4>2, <4>3 DEF Gap
    <3>4. CASE Succ(b) # next_block_in
      <4>1. n = seq_num[Succ(b)]
        BY <3>4
      <4> HIDE DEF n
      <4>2. seq_num[b] < n /\ (seq_num[b] + 1)..(n - 1) \subseteq dropped'
        BY <1>1, <3>1, <3>2, GapGrows
      <4> QED BY <1>1, <1>2, <3>4, <4>1, <4>2 DEF Gap
    <3> QED BY <3>3, <3>4
  <2> QED BY <1>2, <2>2, <2>3, <2>4 DEF SeqInv, Gap
<1>9. QueueInv'
  <2>1. ASSUME NEW d \in Clients, Registered(d)
        PROVE  Queue(d)' /\ Follows(d)'
    <3>1. At(d) \in BlockIds /\ Queue(d) /\ Follows(d) /\ At(d)' = At(d)
      BY <1>2, <2>1, AtType DEF IndInv, OrderInv, QueueInv, At
    <3>2. Queue(d)'
      BY <1>2, <3>1 DEF Queue, Run, Room
    <3>3. last_seq[d] \in Int /\ seq_num[At(d)] \in Int
      BY <3>1 DEF IndInv, TypeOK
    <3>4. CASE cnum[d] \in busy[At(d)]
      <4>1. Gap(last_seq[d], seq_num[At(d)])
        BY <3>1, <3>4 DEF Follows
      <4>2. /\ last_seq[d] < seq_num[At(d)]
            /\ (last_seq[d] + 1)..(seq_num[At(d)] - 1) \subseteq dropped'
        BY <1>1, <3>3, <4>1, GapGrows
      <4> QED BY <1>2, <3>1, <3>2, <3>4, <4>2 DEF Follows, Gap
    <3>5. CASE cnum[d] \notin busy[At(d)]
      <4>1. ASSUME kind[d] # "transient"
            PROVE  last_seq[d] < puts + 1 /\ (last_seq[d] + 1)..puts \subseteq dropped'
        <5>1. Gap(last_seq[d], puts)
          BY <3>1, <3>5, <4>1 DEF Follows
        <5> QED BY <1>1, <3>3, <5>1, GapGrows
      <4>2. (puts + 1) - 1 = puts
        BY <1>1
      <4> QED BY <1>1, <1>2, <3>1, <3>2, <3>5, <4>1, <4>2 DEF Follows, Gap
    <3> QED BY <3>4, <3>5
  <2> QED BY <1>2, <2>1 DEF OrderInv, QueueInv, Registered
<1>10. MarkInv'
  BY <1>1, <1>2, MarksKept DEF OrderInv
<1> QED BY <1>5, <1>7, <1>8, <1>9, <1>10 DEF OrderInv

\* Publishing puts the block at the end of the queue of every consumer in cmask.
LEMMA PutPublishKeepsOrder ==
    ASSUME IndInv, RosterInv, OrderInv, PutPublish
    PROVE  OrderInv'
<1> DEFINE n == next_block_in
<1>1. /\ nbi = n /\ n \in BlockIds /\ nbi16th = next_block_in_16th
      /\ nbi16th \in PartIds /\ puts \in Nat /\ puts \in 0..MaxPuts /\ puts < MaxPuts
      /\ pop \in PutOps /\ pop \in PutCalls
      /\ pop \in WholePuts => next_block_in_16th = 0
      /\ Stored = nbi16th /\ ppc = "publish" /\ busy[n] = {}
      /\ \A d \in Clients : ~Scanning(d)
  BY InCallFacts DEF PutPublish, InCall, IndInv, ProducerInv, BufferLocked, Scanning
<1>2. /\ UNCHANGED <<drops, dropped, next_block_in_16th, seq_num, gps, data, pc, cnum,
                     kind, last_seq, next_block_out, window, first_block, cursor>>
      /\ next_block_in' = Succ(n) /\ Succ(n) \in BlockIds /\ puts' = puts + 1
      /\ ppc' = (IF pop \in WholePuts THEN "signal" ELSE "publish16th")
  BY <1>1, SuccIs DEF PutPublish, outVars, fillVars, clientVars, scanVars, Succ
<1>3. /\ busy'[n] = cmask
      /\ \A b \in BlockIds : b # n => busy'[b] = busy[b]
  BY <1>1 DEF PutPublish, IndInv, TypeOK
<1>4. Filling /\ ~Filling' /\ Stored' = 0
  BY <1>1, <1>2 DEF Filling, Stored
<1>5. gps[n] # 0 /\ seq_num[n] = puts
  BY <1>4 DEF OrderInv, FillInv
<1>6. \A b \in BlockIds : Settled(b)' <=> gps[b] # 0
  BY <1>2, <1>4 DEF Settled
<1> HIDE DEF n
<1>7. FillInv'
  <2>1. \A b \in BlockIds : gps[b] # 0 =>
          seq_num[b] \in 0..MaxPuts /\ gps[b] = GpsAt(seq_num[b])
    BY DEF OrderInv, FillInv
  <2>2. \A b \in BlockIds : busy'[b] # {} => gps[b] # 0
    BY <1>3, <1>5 DEF OrderInv, FillInv
  <2>3. ASSUME \E b \in BlockIds : gps[b] = 0
        PROVE  /\ Succ(n) = puts + 1
               /\ \A b \in BlockIds : gps[b] = 0 <=> b > puts + 1 \/ b = puts + 1
    <3>1. n = puts /\ \A b \in BlockIds : gps[b] = 0 <=> b > puts
      BY <1>4, <2>3 DEF OrderInv, FillInv, n
    <3>2. PICK e \in BlockIds : e > puts
      BY <2>3, <3>1
    <3>3. Succ(n) = puts + 1
      BY <1>1, <3>1, <3>2, SuccIs, SizesAssumption DEF BlockIds
    <3>4. \A b \in BlockIds : b > puts <=> b > puts + 1 \/ b = puts + 1
      BY <1>1, SizesAssumption DEF BlockIds
    <3> QED BY <3>1, <3>3, <3>4
  <2>4. \A d \in Clients : pc[d] # "marking"
    BY <1>1 DEF Scanning
  <2>5. ppc' # "drop"
    BY <1>2
  <2> QED BY <1>2, <1>4, <2>1, <2>2, <2>3, <2>4, <2>5 DEF FillInv
<1>8. DataInv'
  <2>1. ASSUME NEW b \in BlockIds, gps[b] # 0, NEW p \in PartIds
        PROVE  OfSecond(b, p)
    <3>1. CASE b # n
      BY <2>1, <3>1 DEF OrderInv, DataInv, Settled, n
    <3>2. CASE b = n /\ pop \in WholePuts
      BY <1>1, <3>2 DEF OrderInv, DataInv
    <3>3. CASE b = n /\ pop \notin WholePuts
      <4>1. nbi16th = Parts - 1
        BY <3>3 DEF PutPublish
      <4>2. p < Stored \/ p = nbi16th
        BY <1>1, <4>1, SizesAssumption DEF PartIds
      <4> QED BY <1>1, <3>3, <4>2 DEF OrderInv, DataInv, n
    <3> QED BY <3>1, <3>2, <3>3
  <2>2. \A p \in PartIds : ~(p < Stored')
    BY <1>4, SizesAssumption DEF PartIds
  <2>3. ppc' # "publish"
    BY <1>2
  <2> QED BY <1>2, <1>6, <2>1, <2>2, <2>3 DEF DataInv, OfSecond
<1>9. SeqInv'
  <2>1. \A k \in dropped : k < puts'
    <3>1. \A k \in dropped : k < puts /\ k \in Nat
      BY DEF OrderInv, SeqInv, IndInv, TypeOK
    <3> QED BY <1>1, <1>2, <3>1
  <2>2. ASSUME NEW b \in BlockIds, gps[b] # 0
        PROVE  Gap(seq_num[b], IF Succ(b) = Succ(n) THEN puts + 1
                               ELSE seq_num[Succ(b)])
    <3>1. CASE b = n
      <4>1. puts < puts + 1 /\ \A x \in (puts + 1)..((puts + 1) - 1) : FALSE
        BY <1>1
      <4>2. Gap(puts, puts + 1)
        BY <4>1, Zenon DEF Gap
      <4> QED BY <1>5, <3>1, <4>2
    <3>2. CASE b # n
      <4>1. Succ(b) # Succ(n)
        BY <1>1, <3>2, SuccFacts
      <4>2. Settled(b)
        BY <2>2, <3>2 DEF Settled, n
      <4>3. Gap(seq_num[b], IF Succ(b) = n THEN puts ELSE seq_num[Succ(b)])
        BY <4>2 DEF OrderInv, SeqInv, n
      <4>4. (IF Succ(b) = n THEN puts ELSE seq_num[Succ(b)]) = seq_num[Succ(b)]
        BY <1>5
      <4> QED BY <4>1, <4>3, <4>4
    <3> QED BY <3>1, <3>2
  <2> QED BY <1>2, <1>6, <2>1, <2>2 DEF OrderInv, SeqInv, Gap
<1>10. ASSUME NEW d \in Clients, Registered(d)
       PROVE  /\ Queue(d)' /\ Follows(d)'
              /\ kind[d] = "transient" =>
                   \A b \in BlockIds : cnum[d] \in busy'[b] <=> cnum[d] \in busy[b]
  <2> DEFINE h == At(d)
             s == cnum[d]
  <2>1. /\ h \in BlockIds /\ Queue(d) /\ Follows(d) /\ At(d)' = h
        /\ (kind[d] = "transient") = (s \notin cmask)
    BY <1>2, <1>10, AtType DEF IndInv, OrderInv, QueueInv, At, RosterInv
  <2>2. PICK m \in 0..Room(h) :
          /\ Run(s, h, m)
          /\ kind[d] # "transient" => m = Room(h) \/ (m = 0 /\ h = n)
    BY <2>1 DEF Queue, n
  <2> HIDE DEF h
  <2>3. /\ Dist(h, n) \in 0..(Blocks - 1) /\ (Dist(h, n) = 0) = (h = n)
        /\ Dist(h, Succ(n)) = IF Succ(n) = h THEN 0 ELSE Dist(h, n) + 1
        /\ Succ(n) = h => Dist(h, n) = Blocks - 1
    BY <1>1, <2>1, DistFacts, DistSteps
  <2>4. Room(h) = IF h = n THEN Blocks ELSE Dist(h, n)
    BY DEF Room, n
  <2>5. /\ Room(At(d))' = IF h = Succ(n) THEN Blocks ELSE Dist(h, Succ(n))
    BY <1>2, <2>1 DEF Room
  <2>6. /\ m \in Int /\ 0 <= m /\ m <= Room(h)
    BY <2>2, <2>3, <2>4, SizesAssumption
  <2>7. s \notin busy[n] /\ ~(Dist(h, n) < m)
    BY <1>1, <2>2 DEF Run, n
  <2>8. CASE s \notin cmask
    <3>1. \A b \in BlockIds : s \in busy'[b] <=> s \in busy[b]
      BY <1>3, <2>7, <2>8
    <3>2. m <= Room(At(d))' /\ Room(At(d))' \in Int
      BY <2>3, <2>4, <2>5, <2>6, <2>7, SizesAssumption
    <3>3. m \in 0..Room(At(d))'
      BY <2>6, <3>2
    <3>4. Queue(d)'
      BY <1>2, <2>1, <2>2, <2>8, <3>1, <3>3 DEF Queue, Run
    <3>5. Follows(d)'
      BY <1>2, <2>1, <2>8, <3>1 DEF Follows, Gap, h
    <3> QED BY <3>1, <3>4, <3>5
  <2>9. CASE s \in cmask
    <3>1. kind[d] # "transient" /\ m = Dist(h, n)
      BY <2>1, <2>2, <2>3, <2>4, <2>7, <2>9, SizesAssumption
    <3>2. \A b \in BlockIds : s \in busy'[b] <=> Dist(h, b) < m + 1
      <4>1. TAKE b \in BlockIds
      <4>2. Dist(h, b) \in 0..(Blocks - 1) /\ (Dist(h, b) = m => b = n)
        BY <1>1, <2>1, <3>1, DistFacts
      <4>3. s \in busy[b] <=> Dist(h, b) < m
        BY <2>2 DEF Run
      <4>4. s \in busy'[b] <=> b = n \/ s \in busy[b]
        BY <1>3, <2>9
      <4>5. Dist(h, b) < m + 1 <=> Dist(h, b) < m \/ Dist(h, b) = m
        BY <2>6, <4>2, SizesAssumption
      <4> QED BY <3>1, <4>2, <4>3, <4>4, <4>5
    <3>3. m + 1 = Room(At(d))' /\ m + 1 \in 0..Room(At(d))'
      BY <2>3, <2>5, <2>6, <3>1, SizesAssumption
    <3>4. Queue(d)'
      BY <1>2, <2>1, <3>1, <3>2, <3>3 DEF Queue, Run
    <3>5. s \in busy'[h]
      <4>1. Dist(h, h) = 0 /\ 0 < m + 1
        BY <2>1, <2>6, DistFacts
      <4> QED BY <2>1, <3>2, <4>1
    <3>6. Gap(last_seq[d], seq_num[h])
      <4>1. CASE h = n
        BY <1>5, <2>1, <2>7, <3>1, <4>1 DEF Follows, h
      <4>2. CASE h # n
        <5>1. s \in busy[h]
          BY <1>3, <2>1, <3>5, <4>2
        <5> QED BY <2>1, <5>1 DEF Follows, h
      <4> QED BY <4>1, <4>2
    <3>7. Follows(d)'
      BY <1>2, <2>1, <3>5, <3>6 DEF Follows, Gap
    <3> QED BY <3>1, <3>4, <3>7
  <2> QED BY <2>8, <2>9
<1>11. QueueInv'
  <2>1. ASSUME NEW d \in Clients, pc[d] = "finished"
        PROVE  kind[d] = "transient" /\ cnum[d] \notin busy'[next_block_out[cnum[d]]]
    <3>1. kind[d] = "transient" /\ cnum[d] \notin busy[next_block_out[cnum[d]]]
      BY <2>1 DEF OrderInv, QueueInv
    <3>2. next_block_out[cnum[d]] \in BlockIds /\ Registered(d)
      BY <2>1, AtType DEF IndInv, Registered
    <3> QED BY <1>10, <3>1, <3>2
  <2> QED BY <1>2, <1>10, <2>1 DEF QueueInv, Registered
<1>12. MarkInv'
  BY <1>1, <1>2 DEF OrderInv, MarkInv, Scanning
<1> QED BY <1>7, <1>8, <1>9, <1>11, <1>12 DEF OrderInv

-----------------------------------------------------------------------------
(* The theorems *)

\* A new buffer satisfies OrderInv.
LEMMA InitOrder == Init => OrderInv
<1> SUFFICES ASSUME Init PROVE OrderInv
  OBVIOUS
<1>1. IndInv
  BY InitEstablishes
<1>2. /\ puts = 0 /\ next_block_in = 0 /\ next_block_in_16th = 0 /\ ppc = "idle"
      /\ first_block = -1 /\ dropped = {} /\ drops = 0
      /\ \A b \in BlockIds : gps[b] = 0 /\ busy[b] = {}
      /\ \A c \in Clients : /\ kind[c] = "slow" /\ last_seq[c] = -1
                            /\ pc[c] = "ready" \/ pc[c] = "out"
  BY DEF Init
<1>3. Stored = 0 /\ ~Filling
  BY <1>2 DEF Stored, Filling
<1>4. \A b \in BlockIds : ~Settled(b)
  BY <1>2 DEF Settled
<1>5. FillInv
  <2>1. \A b \in BlockIds : b > 0 \/ b = 0
    BY SizesAssumption DEF BlockIds
  <2> QED BY <1>2, <1>3, <2>1 DEF FillInv
<1>6. DataInv
  BY <1>2, <1>3, <1>4, SizesAssumption DEF DataInv, PartIds
<1>7. SeqInv
  BY <1>2, <1>4, FS_EmptySet DEF SeqInv
<1>8. QueueInv
  <2>1. ASSUME NEW c \in Clients, Registered(c)
        PROVE  Queue(c) /\ Follows(c)
    <3>1. At(c) = 0 /\ 0 \in BlockIds
      <4>1. cnum[c] \in Slots /\ next_block_out = [t \in Slots |-> 0]
        BY <1>1 DEF IndInv, TypeOK, Init
      <4> QED BY <1>2, <4>1, SizesAssumption DEF At, BlockIds
    <3>2. \A b \in BlockIds : ~(Dist(0, b) < 0)
      <4>1. \A b \in BlockIds : Dist(0, b) \in 0..(Blocks - 1)
        BY <3>1, DistFacts
      <4> QED BY <4>1, SizesAssumption
    <3>3. 0 \in 0..Room(At(c))
      BY <1>2, <3>1, SizesAssumption DEF Room
    <3>4. Queue(c)
      BY <1>2, <3>1, <3>2, <3>3 DEF Queue, Run
    <3>5. -1 < 0 /\ (-1 + 1)..(0 - 1) = {}
      OBVIOUS
    <3> QED BY <1>2, <3>1, <3>4, <3>5 DEF Follows, Gap
  <2> QED BY <1>2, <2>1 DEF QueueInv
<1>9. MarkInv
  BY <1>2 DEF MarkInv
<1> QED BY <1>5, <1>6, <1>7, <1>8, <1>9 DEF OrderInv

\* A step that changes nothing keeps OrderInv.
LEMMA StutterKeepsOrder ==
    ASSUME IndInv, OrderInv, UNCHANGED vars
    PROVE  OrderInv'
<1>1. SameBlocks
  BY DEF vars, SameBlocks
<1>2. UNCHANGED <<busy, cnum, kind, last_seq, scanVars, pc, next_block_out>>
  BY DEF vars, busyVars, clientVars, outVars
<1> QED BY <1>1, <1>2, QuietStep DEF Registered, At, OrderInv, QueueInv

\* Every step of every thread keeps OrderInv.
LEMMA NextKeepsOrder ==
    ASSUME StampedRequests, IndInv, RosterInv, OrderInv, [Next]_vars
    PROVE  OrderInv'
<1>1. CASE Put
  BY <1>1, PutWaitKeepsOrder, PutFillKeepsOrder, PutPublishKeepsOrder,
     PutPublish16thKeepsOrder, PutDropKeepsOrder DEF Put
<1>2. ASSUME NEW c \in Clients, SignOnOff(c)
      PROVE  OrderInv'
  BY <1>2, AddConsumerKeepsOrder, AddTransientKeepsOrder, MarkBlockKeepsOrder,
     AddTransientDoneKeepsOrder, DeleteKeepsOrder DEF SignOnOff
<1>3. ASSUME NEW c \in Clients, Consume(c)
      PROVE  OrderInv'
  BY <1>3, GetKeepsOrder, UnlockKeepsOrder, UnlockDoneKeepsOrder DEF Consume
<1>4. CASE UNCHANGED vars
  BY <1>4, StutterKeepsOrder
<1> QED BY <1>1, <1>2, <1>3, <1>4 DEF Next

\* The order of blocks, marks and stamps is kept by any number of consumers and
\* the producer, in a ring of any size.
THEOREM OrderInvariance ==
    StampedRequests => (Spec => [](IndInv /\ RosterInv /\ OrderInv))
<1>1. ASSUME StampedRequests
      PROVE  Spec => [](IndInv /\ RosterInv /\ OrderInv)
  <2>1. Init => OrderInv
    BY InitOrder
  <2>2. IndInv /\ RosterInv /\ OrderInv /\ [Next]_vars => OrderInv'
    BY <1>1, NextKeepsOrder
  <2> QED BY <2>1, <2>2, RosterInvariance, PTL DEF Spec
<1> QED BY <1>1

\* What a consumer holds.
LEMMA HeldFacts ==
    ASSUME IndInv, OrderInv, NEW c \in Clients, pc[c] = "held"
    PROVE  LET b == next_block_out[cnum[c]] IN
           /\ Gap(last_seq[c], seq_num[b])
           /\ \A p \in PartIds : Reads(c, b, p) => OfSecond(b, p)
<1> DEFINE b == next_block_out[cnum[c]]
           s == cnum[c]
<1>1. b \in BlockIds /\ At(c) = b /\ Registered(c) /\ s \in Slots
  BY AtType DEF IndInv, TypeOK, At, Registered
<1>2. Follows(c) /\ Queue(c)
  BY <1>1 DEF OrderInv, QueueInv
<1>3. CASE s \in busy[b]
  <2>1. Settled(b)
    BY <1>1, <1>3 DEF OrderInv, FillInv, Settled
  <2> QED BY <1>1, <1>2, <1>3, <2>1 DEF Follows, OrderInv, DataInv
<1>4. CASE s \notin busy[b]
  <2>1. kind[c] = "fast"
    BY <1>4 DEF IndInv, HeldInv
  <2> DEFINE p == next_block_out_16th[s] - 1
  <2>2. s \in busy16th[b][p] /\ p \in PartIds
    <3>1. /\ s \in busy16th[b][p] /\ next_block_out_16th[s] > 0
          /\ next_block_out_16th[s] \in 0..Parts
      BY <1>1, <2>1 DEF IndInv, HeldInv, TypeOK
    <3>2. p \in PartIds
      BY <3>1, SizesAssumption DEF PartIds
    <3> QED BY <3>1, <3>2
  <2> HIDE DEF p
  <2>3. /\ ppc # "publish16th" /\ b = next_block_in /\ p < next_block_in_16th
    BY <1>1, <1>4, <2>2 DEF IndInv, Busy16thInv
  <2>4. Stored = next_block_in_16th
    BY <2>3 DEF Stored
  <2>5. Filling
    <3>1. next_block_in_16th > 0
      BY <2>2, <2>3, SizesAssumption DEF PartIds, IndInv, TypeOK
    <3> QED BY <2>4, <3>1 DEF Filling
  <2>6. seq_num[b] = puts
    BY <2>3, <2>5 DEF OrderInv, FillInv
  <2>7. Gap(last_seq[c], puts)
    BY <1>1, <1>2, <1>4, <2>1 DEF Follows
  <2>8. OfSecond(b, p)
    BY <2>2, <2>3, <2>4 DEF OrderInv, DataInv
  <2>9. \A q \in PartIds : Reads(c, b, q) => q = p
    BY <2>1 DEF Reads, p
  <2> QED BY <2>6, <2>7, <2>8, <2>9
<1> QED BY <1>3, <1>4

\* A reader never sees parts of two seconds in one block: neither a slow one nor
\* one that reads the parts as they come.
THEOREM OneSecondIsRead ==
    StampedRequests => (Spec => []HeldDataIsOneSecond)
<1>1. IndInv /\ OrderInv => HeldDataIsOneSecond
  <2>1. SUFFICES ASSUME IndInv, OrderInv, NEW c \in Clients, NEW b \in BlockIds,
                        NEW p \in PartIds, Reads(c, b, p)
                 PROVE  OfSecond(b, p)
    BY DEF HeldDataIsOneSecond, OfSecond
  <2>2. pc[c] = "held" /\ b = next_block_out[cnum[c]]
    BY <2>1 DEF Reads
  <2> QED BY <2>1, <2>2, HeldFacts
<1>2. ASSUME StampedRequests PROVE Spec => []HeldDataIsOneSecond
  BY <1>1, <1>2, OrderInvariance, PTL
<1> QED BY <1>2

\* Every consumer reads the blocks in the order of the puts and misses none but
\* the ones put_nowait dropped and counted.
THEOREM BlocksInOrder ==
    StampedRequests => (Spec => []InOrderNoGap)
<1>1. IndInv /\ OrderInv => InOrderNoGap
  <2>1. SUFFICES ASSUME IndInv, OrderInv PROVE InOrderNoGap
    OBVIOUS
  <2>2. drops = Cardinality(dropped)
    BY <2>1 DEF OrderInv, SeqInv
  <2>3. ASSUME NEW c \in Clients, pc[c] = "held"
        PROVE  Gap(last_seq[c], seq_num[next_block_out[cnum[c]]])
    BY <2>1, <2>3, HeldFacts
  <2> QED BY <2>2, <2>3 DEF InOrderNoGap, Gap
<1>2. ASSUME StampedRequests PROVE Spec => []InOrderNoGap
  BY <1>1, <1>2, OrderInvariance, PTL
<1> QED BY <1>2

\* get_nowait fails only when nothing that was marked for the transient consumer
\* is left.
THEOREM TransientGetsAll ==
    StampedRequests => (Spec => []TransientComplete)
<1>1. IndInv /\ OrderInv => TransientComplete
  <2>1. SUFFICES ASSUME IndInv, OrderInv, NEW c \in Clients, pc[c] = "finished",
                        NEW b \in BlockIds
                 PROVE  cnum[c] \notin busy[b]
    BY DEF TransientComplete
  <2> DEFINE h == next_block_out[cnum[c]]
  <2>2. /\ h \in BlockIds /\ At(c) = h /\ Queue(c) /\ cnum[c] \notin busy[h]
    BY <2>1, AtType DEF IndInv, At, OrderInv, QueueInv, Registered
  <2> HIDE DEF h
  <2>3. PICK m \in 0..Room(h) : Run(cnum[c], h, m)
    BY <2>2 DEF Queue
  <2>4. Dist(h, h) = 0 /\ Dist(h, b) \in 0..(Blocks - 1)
    BY <2>2, DistFacts
  <2>5. ~(0 < m)
    BY <2>2, <2>3, <2>4 DEF Run
  <2>6. Room(h) \in 1..Blocks
    BY <2>1, <2>2, RoomFacts DEF IndInv, TypeOK
  <2>7. ~(Dist(h, b) < m)
    BY <2>3, <2>4, <2>5, <2>6, SizesAssumption
  <2> QED BY <2>3, <2>7 DEF Run
<1>2. ASSUME StampedRequests PROVE Spec => []TransientComplete
  BY <1>1, <1>2, OrderInvariance, PTL
<1> QED BY <1>2

-----------------------------------------------------------------------------
(* Playing back the last seconds *)

\* Without drops the sequence numbers count back from puts.
LEMMA SeqFromEnd ==
    ASSUME IndInv, FillInv, SeqInv, dropped = {}, NEW b \in BlockIds,
           b # next_block_in, gps[b] # 0
    PROVE  seq_num[b] = puts - Dist(b, next_block_in)
<1> DEFINE n == next_block_in
           Bad(e) == e # n /\ gps[e] # 0 /\ seq_num[e] # puts - Dist(e, n)
           S == {Dist(e, n) : e \in {x \in BlockIds : Bad(x)}}
<1>1. n \in BlockIds /\ puts \in Nat /\ seq_num \in [BlockIds -> Nat]
  BY DEF IndInv, TypeOK
<1>2. SUFFICES ASSUME Bad(b) PROVE FALSE
  OBVIOUS
<1>3. S \in SUBSET Nat /\ S # {}
  BY <1>1, <1>2, DistFacts, SizesAssumption
<1>4. PICK e \in BlockIds : Bad(e) /\ \A t \in S : Dist(e, n) <= t
  BY <1>3, LeastElement
<1>5. /\ Succ(e) \in BlockIds /\ Dist(e, n) \in Int
      /\ Dist(Succ(e), n) = Dist(e, n) - 1
      /\ (Dist(Succ(e), n) = 0) = (Succ(e) = n)
  BY <1>1, <1>4, SuccIs, DistSteps, DistFacts, SizesAssumption
<1>6. \A i, j \in Int : Gap(i, j) => j = i + 1
  <2>1. \A i, j \in Int : (i + 1)..(j - 1) \subseteq {} => j <= i + 1
    <3>1. TAKE i, j \in Int
    <3>2. i + 1 <= j - 1 => i + 1 \in (i + 1)..(j - 1)
      OBVIOUS
    <3> QED BY <3>2
  <2> QED BY <2>1 DEF Gap
<1>7. Settled(e)
  BY <1>4 DEF Settled
<1>8. seq_num[e] \in Int /\ seq_num[Succ(e)] \in Int
  BY <1>1, <1>4, <1>5
<1>9. CASE Succ(e) = n
  <2>1. Gap(seq_num[e], puts)
    BY <1>7, <1>9 DEF SeqInv
  <2>2. puts = seq_num[e] + 1
    BY <1>1, <1>6, <1>8, <2>1
  <2>3. Dist(e, n) = 1
    BY <1>5, <1>9
  <2> QED BY <1>1, <1>4, <1>8, <2>2, <2>3
<1>10. CASE Succ(e) # n
  <2>1. Gap(seq_num[e], seq_num[Succ(e)])
    BY <1>7, <1>10 DEF SeqInv
  <2>2. seq_num[Succ(e)] = seq_num[e] + 1
    BY <1>6, <1>8, <2>1
  <2>3. gps[Succ(e)] # 0
    BY <1>4, <1>10, StampsGrow
  <2>4. ~Bad(Succ(e))
    <3>1. SUFFICES ASSUME Bad(Succ(e)) PROVE FALSE
      OBVIOUS
    <3>2. Dist(Succ(e), n) \in S
      BY <1>5, <3>1
    <3> QED BY <1>4, <1>5, <3>2
  <2>5. seq_num[Succ(e)] = puts - Dist(Succ(e), n)
    BY <1>10, <2>3, <2>4
  <2> QED BY <1>1, <1>4, <1>5, <1>8, <2>2, <2>5
<1> QED BY <1>9, <1>10

\* How much there is to play back: all blocks but one, or what has been put.
LEMMA WrittenBlocks ==
    ASSUME IndInv, FillInv, SeqInv, dropped = {}
    PROVE  \/ (\A b \in BlockIds : gps[b] # 0) /\ puts >= Blocks - 1
           \/ /\ next_block_in = puts /\ puts <= Blocks - 1
              /\ \A b \in BlockIds : b # puts => (gps[b] # 0 <=> b < puts)
<1>1. next_block_in \in BlockIds /\ puts \in Nat /\ seq_num \in [BlockIds -> Nat]
      /\ Blocks \in Nat \ {0}
  BY SizesAssumption DEF IndInv, TypeOK
<1>2. CASE \E b \in BlockIds : gps[b] = 0
  <2>1. /\ next_block_in = puts
        /\ \A b \in BlockIds : b # puts => (gps[b] = 0 <=> b > puts)
    BY <1>2 DEF FillInv
  <2>2. puts <= Blocks - 1
    BY <1>1, <2>1 DEF BlockIds
  <2>3. \A b \in BlockIds : b # puts => (b > puts <=> ~(b < puts))
    BY <1>1, SizesAssumption DEF BlockIds
  <2> QED BY <2>1, <2>2, <2>3
<1>3. CASE \A b \in BlockIds : gps[b] # 0
  <2> DEFINE b == Succ(next_block_in)
  <2>1. b \in BlockIds
    BY <1>1, SuccIs
  <2>2. CASE b = next_block_in
    <3>1. Blocks = 1
      BY <1>1, <2>2, SuccFacts
    <3> QED BY <1>1, <1>3, <3>1
  <2>3. CASE b # next_block_in
    <3>1. Dist(b, next_block_in) = Blocks - 1
      BY <1>1, DistSteps
    <3> HIDE DEF b
    <3>2. seq_num[b] = puts - (Blocks - 1)
      BY <1>3, <2>1, <2>3, <3>1, SeqFromEnd
    <3>3. seq_num[b] \in Nat
      BY <1>1, <2>1
    <3> QED BY <1>1, <1>3, <3>2, <3>3
  <2> QED BY <2>2, <2>3
<1> QED BY <1>2, <1>3

\* Seconds and the whole blocks they make.
LEMMA WholeBlocks ==
    \A q, a \in Int, r \in 0..(BlockPeriod - 1) :
        a = BlockPeriod * q + r => a \div BlockPeriod = q
<1>1. BlockPeriod \in Nat \ {0}
  BY SizesAssumption
<1> QED BY <1>1, DivModUnique

\* The seconds asked for, cut to what the ring can hold, in whole blocks.
LEMMA PlaybackLength ==
    ASSUME NEW n \in Nat
    PROVE  LET span == Blocks * BlockPeriod - 1
               want == IF n * BlockPeriod > span THEN span ELSE n * BlockPeriod
               k    == IF n < Blocks THEN n ELSE Blocks - 1
           IN  /\ k \in 0..(Blocks - 1) /\ want \in Nat /\ k * BlockPeriod <= want
               /\ want \div BlockPeriod = k /\ (n = 0 => want = 0)
<1> DEFINE span == Blocks * BlockPeriod - 1
           want == IF n * BlockPeriod > span THEN span ELSE n * BlockPeriod
           k    == IF n < Blocks THEN n ELSE Blocks - 1
<1> HIDE DEF span, want, k
<1> DEFINE P == BlockPeriod
<1>1. P \in Nat \ {0} /\ Blocks \in Nat \ {0} /\ k \in 0..(Blocks - 1)
  BY SizesAssumption DEF k
<1> HIDE DEF P
<1>2. k + 1 <= Blocks /\ k \in Int /\ k + 1 \in Int /\ 0 \in Int
  BY <1>1
<1>3. (k + 1) * P = k * P + P /\ 0 * P = 0 /\ Blocks * P = (Blocks - 1) * P + P
  BY <1>1, <1>2
<1>4. k * P \in Int /\ 0 * P <= k * P /\ (k + 1) * P <= Blocks * P
      /\ Blocks * P \in Int
  BY <1>1, <1>2, ProductOrder
<1>5. CASE n < Blocks
  <2>1. k = n /\ n * P <= span
    BY <1>1, <1>3, <1>4, <1>5 DEF P, k, span
  <2>2. want = P * k + 0 /\ want \in Nat
    BY <1>1, <1>3, <1>4, <2>1 DEF P, want, span
  <2>3. want \div P = k
    <3>1. 0 \in 0..(P - 1) /\ want \in Int
      BY <1>1, <2>2
    <3> QED BY <1>1, <1>2, <2>2, <3>1, WholeBlocks DEF P
  <2> QED BY <1>1, <1>3, <1>4, <2>1, <2>2, <2>3 DEF P
<1>6. CASE ~(n < Blocks)
  <2>1. k = Blocks - 1 /\ Blocks * P <= n * P /\ n * P \in Int
    BY <1>1, <1>6, ProductOrder DEF k
  <2>2. want = Blocks * P - 1
    BY <1>1, <1>4, <2>1 DEF P, want, span
  <2>3. want = P * k + (P - 1) /\ P - 1 \in 0..(P - 1) /\ want \in Int
    BY <1>1, <1>3, <1>4, <2>1, <2>2
  <2>4. want \div P = k
    BY <1>1, <1>2, <2>3, WholeBlocks DEF P
  <2>5. want = k * P + (P - 1)
    BY <1>1, <2>3
  <2> HIDE DEF P
  <2>6. want \in Nat /\ k * P <= want
    BY <1>1, <1>3, <1>4, <2>5
  <2> QED BY <1>1, <1>6, <2>4, <2>6 DEF P
<1> QED BY <1>5, <1>6 DEF k, want, span

\* The block k blocks before the one filled next.
LEMMA PlaybackStart ==
    ASSUME NEW b \in BlockIds, NEW k \in 0..(Blocks - 1)
    PROVE  LET i == (b + Blocks - k) % Blocks
           IN  i \in BlockIds /\ Dist(i, b) = k /\ (k <= b => i = b - k)
<1> DEFINE x == b + Blocks - k
           r == IF k <= b THEN b - k ELSE b - k + Blocks
<1>1. x \in Int /\ r \in BlockIds /\ (x = r + Blocks \/ x = r)
  BY SizesAssumption DEF BlockIds
<1>2. x % Blocks = r
  <2>1. x = r => x % Blocks = r
    BY <1>1, SizesAssumption DEF BlockIds
  <2> QED BY <1>1, <2>1, OneTurn
<1>3. Dist(r, b) = k
  <2>1. Dist(r, b) = IF r <= b THEN b - r ELSE b - r + Blocks
    BY <1>1, DistIs
  <2> QED BY <2>1, SizesAssumption DEF BlockIds
<1> QED BY <1>1, <1>2, <1>3

\* The stamp of a block says how many blocks ago it was put.
LEMMA StampFromEnd ==
    ASSUME RegularStamps, IndInv, FillInv, SeqInv, dropped = {},
           NEW b \in BlockIds, b # next_block_in, gps[b] # 0
    PROVE  LET d == Dist(b, next_block_in)
           IN  /\ d \in 1..(Blocks - 1) /\ d <= puts /\ puts - seq_num[b] = d
               /\ gps[b] = GpsAt(0) + (puts - d) * BlockPeriod
<1> DEFINE d == Dist(b, next_block_in)
<1>1. next_block_in \in BlockIds /\ puts \in Nat /\ seq_num[b] \in Nat
      /\ Blocks \in Nat \ {0}
  BY SizesAssumption DEF IndInv, TypeOK
<1>2. seq_num[b] = puts - d
  BY SeqFromEnd
<1>3. d \in 0..(Blocks - 1) /\ d # 0
  BY <1>1, DistFacts
<1>4. seq_num[b] \in 0..MaxPuts /\ gps[b] = GpsAt(seq_num[b])
  BY DEF FillInv
<1>5. GpsAt(seq_num[b]) = GpsAt(0) + seq_num[b] * BlockPeriod
  BY <1>4 DEF RegularStamps
<1> HIDE DEF d
<1>6. d \in 1..(Blocks - 1) /\ d <= puts /\ puts - seq_num[b] = d
  BY <1>1, <1>2, <1>3
<1> QED BY <1>2, <1>4, <1>5, <1>6 DEF d

\* A window from the stamp of one block on, as long as the blocks since then.
LEMMA SelectFromBlock ==
    ASSUME RegularStamps, IndInv, FillInv, SeqInv, dropped = {},
           NEW b \in BlockIds, b # next_block_in,
           NEW i \in BlockIds, i # next_block_in, gps[i] # 0,
           NEW want \in Nat, Dist(i, next_block_in) * BlockPeriod <= want
    PROVE  gps[i] <= gps[b] /\ gps[b] < gps[i] + want
           <=> gps[b] # 0 /\ puts - seq_num[b] <= Dist(i, next_block_in)
<1> DEFINE k == Dist(i, next_block_in)
           d == Dist(b, next_block_in)
           P == BlockPeriod
           G == GpsAt(0)
           K == (puts - k) * P
           D == (puts - d) * P
<1>1. puts \in Nat /\ P \in Nat \ {0} /\ G \in Int /\ gps[b] \in Nat /\ gps[i] \in Nat
  BY SizesAssumption, GpsAssumption DEF IndInv, TypeOK
<1>2. k \in 1..(Blocks - 1) /\ k <= puts /\ gps[i] = G + K /\ Blocks \in Nat
  BY StampFromEnd, SizesAssumption
<1>3. CASE gps[b] = 0
  BY <1>1, <1>3
<1>4. CASE gps[b] # 0
  <2>1. d \in 1..(Blocks - 1) /\ d <= puts /\ puts - seq_num[b] = d /\ gps[b] = G + D
    BY <1>4, StampFromEnd
  <2>2. k * P \in Int /\ k * P <= want
    <3>1. k \in Int
      BY <1>2
    <3> QED BY <1>1, <3>1
  <2> HIDE DEF k, d, P, G
  <2>3. k \in Int /\ d \in Int /\ d >= 1
    BY <1>2, <2>1
  <2>4. K \in Int /\ D \in Int /\ (d <= k => K <= D)
    <3>1. puts - k \in Int /\ puts - d \in Int /\ (d <= k => puts - k <= puts - d)
      BY <1>1, <2>3
    <3>2. P \in Nat
      BY <1>1
    <3>3. (puts - k) * P \in Int /\ (puts - d) * P \in Int
      BY <3>1, <3>2
    <3>4. d <= k => (puts - k) * P <= (puts - d) * P
      BY <3>1, <3>2, ProductOrder
    <3> QED BY <3>3, <3>4
  <2>5. d > k => D + P <= K
    <3>1. ASSUME d > k PROVE D + P <= K
      <4>1. puts - d + 1 \in Int /\ puts - k \in Int /\ puts - d + 1 <= puts - k
            /\ P \in Nat
        BY <1>1, <2>3, <3>1
      <4>2. (puts - d + 1) * P <= (puts - k) * P
        BY <4>1, ProductOrder
      <4>3. (puts - d + 1) * P = (puts - d) * P + P
        BY <1>1, <2>3
      <4> QED BY <4>2, <4>3
    <3> QED BY <3>1
  <2>6. D + P <= K + k * P
    <3>1. puts - d + 1 \in Int /\ puts \in Int /\ puts - d + 1 <= puts /\ P \in Nat
      BY <1>1, <2>3
    <3>2. (puts - d + 1) * P <= puts * P
      BY <3>1, ProductOrder
    <3>3. (puts - d + 1) * P = (puts - d) * P + P
          /\ puts * P = (puts - k) * P + k * P
      BY <1>1, <2>3
    <3> QED BY <3>2, <3>3
  <2> HIDE DEF K, D
  <2>7. gps[i] <= gps[b] <=> d <= k
    BY <1>1, <1>2, <2>1, <2>3, <2>4, <2>5
  <2>8. gps[b] < gps[i] + want
    <3> DEFINE X == k * P
    <3>1. X \in Int /\ X <= want /\ D + P <= K + X
      BY <2>2, <2>6
    <3> HIDE DEF X
    <3> QED BY <1>1, <1>2, <2>1, <2>4, <3>1
  <2> QED BY <1>4, <2>1, <2>7, <2>8 DEF k
<1> QED BY <1>3, <1>4

\* A window from the first stamp on, while the ring has not been filled once.
LEMMA SelectAll ==
    ASSUME RegularStamps, IndInv, FillInv, SeqInv, dropped = {},
           NEW b \in BlockIds, b # next_block_in,
           puts > 0, next_block_in = puts,
           \A e \in BlockIds : e # puts => (gps[e] # 0 <=> e < puts)
    PROVE  /\ gps[0] <= gps[b] /\ gps[b] < gps[0] + puts * BlockPeriod <=> gps[b] # 0
           /\ gps[b] # 0 => puts - seq_num[b] <= puts
<1> DEFINE P == BlockPeriod
<1>1. puts \in Nat /\ P \in Nat \ {0} /\ gps[b] \in Nat /\ 0 \in BlockIds
      /\ seq_num[b] \in Nat /\ puts \in BlockIds
  <2>1. puts \in Nat /\ gps \in [BlockIds -> Nat] /\ seq_num \in [BlockIds -> Nat]
        /\ next_block_in \in BlockIds
    BY DEF IndInv, TypeOK
  <2>2. P \in Nat \ {0} /\ 0 \in BlockIds
    BY SizesAssumption DEF BlockIds
  <2> QED BY <2>1, <2>2
<1>2. 0 # next_block_in /\ gps[0] # 0
  BY <1>1
<1>3. Dist(0, next_block_in) = puts
  BY <1>1, DistIs
<1>4. puts * P \in Nat
  BY <1>1
<1>5. gps[0] <= gps[b] /\ gps[b] < gps[0] + puts * P
      <=> gps[b] # 0 /\ puts - seq_num[b] <= puts
  <2>1. Dist(0, next_block_in) * P <= puts * P
    BY <1>3, <1>4
  <2> HIDE DEF P
  <2>2. P = BlockPeriod
    BY DEF P
  <2> QED BY <1>1, <1>2, <1>3, <1>4, <2>1, <2>2, SelectFromBlock
<1>6. puts - seq_num[b] <= puts
  BY <1>1
<1> QED BY <1>5, <1>6

\* One request for the last n seconds.
LEMMA PlaybackOne ==
    ASSUME RegularStamps, IndInv, FillInv, SeqInv, dropped = {}, puts > 0,
           NEW n \in Nat, NEW b \in BlockIds, b # next_block_in,
           NEW w, w = PlaybackWindow(n * BlockPeriod),
           NEW k, k = IF n < Blocks THEN n ELSE Blocks - 1
    PROVE  w[1] <= gps[b] /\ gps[b] < w[2]
           <=> gps[b] # 0 /\ puts - seq_num[b] <= IF k < puts THEN k ELSE puts
<1> DEFINE span == Blocks * BlockPeriod - 1
           want == IF n * BlockPeriod > span THEN span ELSE n * BlockPeriod
           i == (next_block_in + Blocks - k) % Blocks
           last == IF k < puts THEN k ELSE puts
<1>1. /\ next_block_in \in BlockIds /\ puts \in Nat /\ gps \in [BlockIds -> Nat]
      /\ seq_num \in [BlockIds -> Nat] /\ Blocks \in Nat \ {0}
  BY SizesAssumption DEF IndInv, TypeOK
<1>2. /\ k \in 0..(Blocks - 1) /\ want \in Nat /\ k * BlockPeriod <= want
      /\ want \div BlockPeriod = k /\ (n = 0 => want = 0)
  BY PlaybackLength
<1>3. i \in BlockIds /\ Dist(i, next_block_in) = k
      /\ (k <= next_block_in => i = next_block_in - k)
  BY <1>1, <1>2, PlaybackStart
<1>4. w = IF i > puts THEN <<gps[0], gps[0] + puts * BlockPeriod>>
          ELSE <<gps[i], gps[i] + want>>
  BY <1>2 DEF PlaybackWindow
<1> HIDE DEF i, want
<1>5. \/ (\A e \in BlockIds : gps[e] # 0) /\ puts >= Blocks - 1
      \/ /\ next_block_in = puts /\ puts <= Blocks - 1
         /\ \A e \in BlockIds : e # puts => (gps[e] # 0 <=> e < puts)
  BY WrittenBlocks
<1>6. CASE i > puts
  <2>1. /\ next_block_in = puts /\ puts <= Blocks - 1
        /\ \A e \in BlockIds : e # puts => (gps[e] # 0 <=> e < puts)
    BY <1>1, <1>3, <1>5, <1>6 DEF BlockIds
  <2>2. w[1] = gps[0] /\ w[2] = gps[0] + puts * BlockPeriod
    BY <1>4, <1>6
  <2>3. last = puts
    BY <1>1, <1>2, <1>3, <1>6, <2>1 DEF BlockIds
  <2>4. /\ gps[0] <= gps[b] /\ gps[b] < gps[0] + puts * BlockPeriod <=> gps[b] # 0
        /\ gps[b] # 0 => puts - seq_num[b] <= puts
    BY <2>1, SelectAll
  <2> QED BY <2>2, <2>3, <2>4
<1>7. CASE i <= puts /\ k # 0
  <2>1. i # next_block_in
    BY <1>1, <1>3, <1>7, DistFacts
  <2>2. gps[i] # 0
    <3>1. CASE \A e \in BlockIds : gps[e] # 0
      BY <1>3, <3>1
    <3>2. CASE next_block_in = puts
               /\ \A e \in BlockIds : e # puts => (gps[e] # 0 <=> e < puts)
      <4>1. i # puts /\ i < puts
        BY <1>1, <1>3, <1>7, <2>1, <3>2 DEF BlockIds
      <4> QED BY <1>3, <3>2, <4>1
    <3> QED BY <1>5, <3>1, <3>2
  <2>3. k <= puts
    BY <1>3, <2>1, <2>2, StampFromEnd
  <2>4. last = k
    BY <1>1, <1>2, <2>3
  <2>5. Dist(i, next_block_in) * BlockPeriod <= want
    BY <1>2, <1>3
  <2>6. gps[i] <= gps[b] /\ gps[b] < gps[i] + want
        <=> gps[b] # 0 /\ puts - seq_num[b] <= Dist(i, next_block_in)
    BY <1>2, <1>3, <2>1, <2>2, <2>5, SelectFromBlock
  <2>7. w[1] = gps[i] /\ w[2] = gps[i] + want
    <3>1. ~(i > puts)
      BY <1>1, <1>3, <1>7 DEF BlockIds
    <3> QED BY <1>4, <3>1
  <2> QED BY <1>3, <2>4, <2>6, <2>7
<1>8. CASE i <= puts /\ k = 0
  <2>1. n = 0
    <3>1. CASE Blocks = 1
      <4>1. b = next_block_in
        BY <1>1, <3>1 DEF BlockIds
      <4> QED BY <4>1
    <3>2. CASE Blocks # 1
      BY <1>1, <1>8, <3>2
    <3> QED BY <3>1, <3>2
  <2>2. w[1] = gps[i] /\ w[2] = gps[i] + 0
    <3>1. ~(i > puts)
      BY <1>1, <1>3, <1>8 DEF BlockIds
    <3> QED BY <1>2, <1>4, <2>1, <3>1
  <2>3. ~(w[1] <= gps[b] /\ gps[b] < w[2])
    <3>1. gps[i] \in Nat /\ gps[b] \in Nat
      BY <1>1, <1>3
    <3> QED BY <2>2, <3>1
  <2>4. gps[b] # 0 => ~(puts - seq_num[b] <= 0)
    <3>1. ASSUME gps[b] # 0 PROVE ~(puts - seq_num[b] <= 0)
      <4>1. /\ Dist(b, next_block_in) \in 1..(Blocks - 1)
            /\ puts - seq_num[b] = Dist(b, next_block_in)
        BY <3>1, StampFromEnd
      <4> QED BY <1>1, <4>1
    <3> QED BY <3>1
  <2>5. last = 0
    BY <1>1, <1>8
  <2> QED BY <2>3, <2>4, <2>5
<1> QED
  <2>1. i > puts \/ i <= puts
    BY <1>1, <1>3 DEF BlockIds
  <2> QED BY <1>6, <1>7, <1>8, <2>1

\* With a block each BlockPeriod, none dropped, and requests for stamps a block
\* can have, add_transient_consumer asked for the last n seconds selects exactly
\* the last n blocks, or as many as the buffer has been given or can give away:
\* its index into the ring and its test for a buffer not filled that far are
\* right for every buffer size, wrapped or not.
THEOREM PlaybackIsExact ==
    RegularStamps /\ StampedRequests => (Spec => []PlaybackSelectsLast)
<1>1. RegularStamps /\ IndInv /\ OrderInv => PlaybackSelectsLast
  <2>1. SUFFICES ASSUME RegularStamps, IndInv, OrderInv, puts > 0, drops = 0
                 PROVE  PlaybackSelectsLast
    BY DEF PlaybackSelectsLast
  <2>2. FillInv /\ SeqInv
    BY <2>1 DEF OrderInv
  <2>3. dropped = {}
    BY <2>1, <2>2, FS_EmptySet DEF SeqInv
  <2>4. ASSUME NEW n \in 0..(Blocks + 1)
        PROVE  LET w    == PlaybackWindow(n * BlockPeriod)
                   hits == {b \in BlockIds \ {next_block_in} :
                               w[1] <= gps[b] /\ gps[b] < w[2]}
                   want == IF n < Blocks THEN n ELSE Blocks - 1
                   want1 == IF want < puts THEN want ELSE puts
               IN  hits = {b \in BlockIds \ {next_block_in} :
                              gps[b] # 0 /\ puts - seq_num[b] <= want1}
    <3> DEFINE w == PlaybackWindow(n * BlockPeriod)
               want == IF n < Blocks THEN n ELSE Blocks - 1
               want1 == IF want < puts THEN want ELSE puts
    <3>1. n \in Nat
      BY SizesAssumption
    <3>2. ASSUME NEW b \in BlockIds \ {next_block_in}
          PROVE  w[1] <= gps[b] /\ gps[b] < w[2]
                 <=> gps[b] # 0 /\ puts - seq_num[b] <= want1
      BY <2>1, <2>2, <2>3, <3>1, <3>2, PlaybackOne
    <3> HIDE DEF w, want, want1
    <3>3. {b \in BlockIds \ {next_block_in} : w[1] <= gps[b] /\ gps[b] < w[2]}
          = {b \in BlockIds \ {next_block_in} :
                 gps[b] # 0 /\ puts - seq_num[b] <= want1}
      BY <3>2
    <3> QED BY <3>3 DEF w, want, want1
  <2> QED BY <2>4 DEF PlaybackSelectsLast
<1>2. ASSUME RegularStamps, StampedRequests PROVE Spec => []PlaybackSelectsLast
  BY <1>1, <1>2, OrderInvariance, PTL
<1> QED BY <1>2
=============================================================================
