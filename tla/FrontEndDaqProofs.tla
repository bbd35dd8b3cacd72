------------------------- MODULE FrontEndDaqProofs --------------------------
(***************************************************************************)
(* Proofs about FrontEndDaq, for any number of models, blocks in a second  *)
(* and test points, and any selections of them.                            *)
(***************************************************************************)
EXTENDS FrontEndDaq, FiniteSetTheorems, NumberLemmas

-----------------------------------------------------------------------------
(* Places of blocks *)

\* A block has a place, and blocks less than a second apart have different ones.
LEMMA BlockPlace ==
    /\ NB \in Nat \ {0} /\ NB >= 3
    /\ \A t \in Int : Block(t) \in Places /\ Block(t) \in Int
    /\ \A t, u \in Int : Block(t) = Block(u) /\ t - u < NB /\ u - t < NB => t = u
<1>1. NB \in Nat \ {0} /\ NB >= 3
  BY DaqAssumption
<1>2. ASSUME NEW t \in Int PROVE Block(t) \in Places /\ Block(t) \in Int
  BY <1>1, DivMod DEF Block, Places
<1>3. ASSUME NEW t \in Int, NEW u \in Int, Block(t) = Block(u), t - u < NB, u - t < NB
      PROVE  t = u
  BY <1>1, <1>3, ModUnique DEF Block
<1> QED BY <1>1, <1>2, <1>3

\* The place of the next block.
LEMMA NextPlace ==
    ASSUME NEW t \in Int
    PROVE  (Block(t) + 1) % NB = Block(t + 1)
<1> DEFINE q == t \div NB
           r == t % NB
<1>1. NB \in Nat \ {0} /\ q \in Int /\ r \in Int /\ t = NB * q + r
  BY BlockPlace, DivMod
<1> HIDE DEF q, r
<1>2. t + 1 = NB * q + (r + 1) /\ r + 1 \in Int
  BY <1>1
<1>3. (NB * q + (r + 1)) % NB = (r + 1) % NB
  BY <1>1, <1>2, ModShift
<1> QED BY <1>2, <1>3 DEF Block, r

\* Place 0 comes after place NB - 1 only.
LEMMA PlaceZero ==
    ASSUME NEW t \in Int
    PROVE  /\ Block(t) = NB - 1 <=> Block(t + 1) = 0
           /\ Block(t) = 0 => Block(t + 1) # 0
<1>1. NB \in Nat \ {0} /\ NB >= 3 /\ Block(t) \in 0..(NB - 1)
      /\ (Block(t) + 1) % NB = Block(t + 1)
  BY BlockPlace, NextPlace DEF Places
<1> DEFINE b == Block(t)
<1>2. b \in 0..(NB - 1) /\ (b + 1) % NB = Block(t + 1)
  BY <1>1
<1> HIDE DEF b
<1>3. CASE b = NB - 1
  <2>1. (b + 1) % NB = 0
    BY <1>1, <1>2, <1>3
  <2> QED BY <1>1, <1>2, <1>3, <2>1 DEF b
<1>4. CASE b # NB - 1
  <2>1. (b + 1) % NB = b + 1
    BY <1>1, <1>2, <1>4
  <2> QED BY <1>1, <1>2, <1>4, <2>1 DEF b
<1> QED BY <1>3, <1>4

-----------------------------------------------------------------------------
(* Slots in their order *)

\* Slots are finite sets of numbers.
LEMMA SlotsFinite ==
    /\ MaxTp \in Nat \ {0} /\ IsFiniteSet(Slots) /\ Slots \subseteq Nat
    /\ \A S \in SUBSET Slots : IsFiniteSet(S) /\ Cardinality(S) \in Nat
<1>1. MaxTp \in Nat \ {0} /\ 1 \in Int
  BY DaqAssumption
<1>2. IsFiniteSet(Slots) /\ Slots \subseteq Nat
  BY <1>1, FS_Interval DEF Slots
<1>3. ASSUME NEW S \in SUBSET Slots PROVE IsFiniteSet(S) /\ Cardinality(S) \in Nat
  BY <1>2, FS_Subset, FS_CardinalityType
<1> QED BY <1>1, <1>2, <1>3

\* The members of a set of slots are numbered from 1 on.
LEMMA SlotRank ==
    ASSUME NEW S \in SUBSET Slots
    PROVE  /\ \A i \in S : Rank(S, i) \in 1..Cardinality(S)
           /\ \A i, j \in S : Rank(S, i) = Rank(S, j) => i = j
<1>1. S \in SUBSET Nat /\ IsFiniteSet(S)
  BY SlotsFinite
<1> QED BY <1>1, RankFacts

\* Each number has its member.
LEMMA SlotNth ==
    ASSUME NEW S \in SUBSET Slots, NEW k \in 1..Cardinality(S)
    PROVE  Nth(S, k) \in S /\ Rank(S, Nth(S, k)) = k
<1>1. S \in SUBSET Nat /\ IsFiniteSet(S)
  BY SlotsFinite
<1> QED BY <1>1, NthFacts

-----------------------------------------------------------------------------
(* The check for new test points *)

\* What the check puts into the table, and into the slots of the waveform
\* generators.
FreeRank(s, g, i) == Rank(Slots \ Kept(s, g), i)
TpCount(s, g) == Cardinality(New(s, g, g.tp))
GetsTp(s, g, i) == i \notin Kept(s, g) /\ FreeRank(s, g, i) <= TpCount(s, g)
GetsExc(s, g, i) ==
    /\ i \notin Kept(s, g)
    /\ FreeRank(s, g, i) \in
         (TpCount(s, g) + 1)..(TpCount(s, g) + Cardinality(New(s, g, g.exc)))
TpPlace(s, g, i) == Nth(New(s, g, g.tp), FreeRank(s, g, i))
ExcPlace(s, g, i) == Nth(New(s, g, g.exc), FreeRank(s, g, i) - TpCount(s, g))
Number(s, g, i) ==
    IF i \in Kept(s, g) THEN s.tpNum[i]
    ELSE IF GetsTp(s, g, i) THEN g.tp[TpPlace(s, g, i)]
    ELSE IF GetsExc(s, g, i) THEN g.exc[ExcPlace(s, g, i)]
    ELSE 0
Numbers(s, g) == [i \in Slots |-> Number(s, g, i)]
LastUsed(s, g) == Max({0} \cup {i \in Slots : Numbers(s, g)[i] # 0})

\* The places of new numbers are places of the lists.
LEMMA NewPlaces ==
    ASSUME NEW s, NEW g, NEW i \in Slots
    PROVE  /\ Kept(s, g) \in SUBSET Slots
           /\ New(s, g, g.tp) \in SUBSET Slots /\ New(s, g, g.exc) \in SUBSET Slots
           /\ TpCount(s, g) \in Nat /\ Cardinality(New(s, g, g.exc)) \in Nat
           /\ i \notin Kept(s, g) =>
                FreeRank(s, g, i) \in 1..Cardinality(Slots \ Kept(s, g))
           /\ GetsTp(s, g, i) =>
                /\ TpPlace(s, g, i) \in New(s, g, g.tp)
                /\ Rank(New(s, g, g.tp), TpPlace(s, g, i)) = FreeRank(s, g, i)
           /\ GetsExc(s, g, i) =>
                /\ ExcPlace(s, g, i) \in New(s, g, g.exc)
                /\ Rank(New(s, g, g.exc), ExcPlace(s, g, i))
                     = FreeRank(s, g, i) - TpCount(s, g)
<1> DEFINE K == Slots \ Kept(s, g)
           T == New(s, g, g.tp)
           X == New(s, g, g.exc)
           f == FreeRank(s, g, i)
<1>1. /\ K \in SUBSET Slots /\ T \in SUBSET Slots /\ X \in SUBSET Slots
      /\ Kept(s, g) \in SUBSET Slots
  BY DEF New, Kept
<1>2. Cardinality(K) \in Nat /\ Cardinality(T) \in Nat /\ Cardinality(X) \in Nat
  BY <1>1, SlotsFinite
<1>3. i \notin Kept(s, g) => f \in 1..Cardinality(K)
  BY <1>1, SlotRank DEF FreeRank
<1> HIDE DEF f
<1>4. GetsTp(s, g, i) => f \in 1..Cardinality(T)
  BY <1>2, <1>3 DEF GetsTp, f, TpCount
<1>5. GetsExc(s, g, i) => f - TpCount(s, g) \in 1..Cardinality(X)
  BY <1>2, <1>3 DEF GetsExc, f, TpCount
<1>6. GetsTp(s, g, i) => Nth(T, f) \in T /\ Rank(T, Nth(T, f)) = f
  BY <1>1, <1>4, SlotNth
<1>7. GetsExc(s, g, i) =>
        /\ Nth(X, f - TpCount(s, g)) \in X
        /\ Rank(X, Nth(X, f - TpCount(s, g))) = f - TpCount(s, g)
  BY <1>1, <1>5, SlotNth
<1> QED BY <1>1, <1>2, <1>3, <1>6, <1>7 DEF f, TpCount, TpPlace, ExcPlace

\* The largest of finitely many slots, 0 if there is none.
LEMMA LargestSlot ==
    ASSUME NEW S \in SUBSET Slots
    PROVE  /\ Max({0} \cup S) \in 0..MaxTp
           /\ \A i \in S : i <= Max({0} \cup S)
<1> DEFINE T == {0} \cup S
<1>1. T \in SUBSET Int /\ T # {} /\ MaxTp \in Int /\ \A i \in T : i <= MaxTp /\ 0 <= i
  BY SlotsFinite DEF Slots
<1>2. \E i \in T : \A j \in T : j <= i
  BY <1>1, GreatestElement
<1>3. \E i \in T : \A j \in T : i >= j
  BY <1>1, <1>2
<1>4. Max(T) \in T /\ \A j \in T : Max(T) >= j
  BY <1>3 DEF Max
<1> DEFINE x == Max(T)
<1>5. x \in T /\ \A j \in T : x >= j
  BY <1>4
<1> HIDE DEF T, x
<1>6. x \in Int /\ x <= MaxTp /\ 0 <= x
  BY <1>1, <1>5
<1>7. \A j \in T : j <= x
  <2>1. TAKE j \in T
  <2>2. j \in Int /\ x >= j
    BY <1>1, <1>5
  <2> QED BY <1>6, <2>2
<1>8. x \in 0..MaxTp
  BY <1>1, <1>6
<1> QED BY <1>7, <1>8 DEF T, x

\* The numbers are those of the lists.
LEMMA NumbersType ==
    ASSUME NEW s \in FeStates, NEW g \in Selections
    PROVE  /\ g.tp \in [Slots -> Nat] /\ g.exc \in [Slots -> Nat]
           /\ Numbers(s, g) \in [Slots -> Nat] /\ LastUsed(s, g) \in 0..MaxTp
           /\ \A i \in Slots : GetsExc(s, g, i) => ExcPlace(s, g, i) \in Slots
<1>1. g.tp \in [Slots -> Nat] /\ g.exc \in [Slots -> Nat]
  BY DaqAssumption
<1>2. s.tpNum \in [Slots -> Nat]
  BY DEF FeStates
<1>3. ASSUME NEW i \in Slots
      PROVE  /\ Number(s, g, i) \in Nat
             /\ GetsExc(s, g, i) => ExcPlace(s, g, i) \in Slots
  <2>1. /\ GetsTp(s, g, i) => TpPlace(s, g, i) \in Slots
        /\ GetsExc(s, g, i) => ExcPlace(s, g, i) \in Slots
    BY NewPlaces
  <2> QED BY <1>1, <1>2, <2>1 DEF Number
<1>4. Numbers(s, g) \in [Slots -> Nat]
  BY <1>3 DEF Numbers
<1>5. LastUsed(s, g) \in 0..MaxTp
  BY LargestSlot DEF LastUsed
<1> QED BY <1>1, <1>3, <1>4, <1>5

\* The check field by field.
LEMMA CheckIs ==
    ASSUME NEW s \in FeStates, NEW g \in Selections
    PROVE  CheckSelection(s, g) =
             [s EXCEPT !.tpNum = Numbers(s, g),
                       !.offset = [i \in Slots |->
                           IF GetsExc(s, g, i) THEN ExcPlace(s, g, i) ELSE s.offset[i]],
                       !.localTable = [i \in Slots |->
                           IF i \in Kept(s, g) THEN s.localTable[i]
                           ELSE Numbers(s, g)[i]],
                       !.validTp = LastUsed(s, g), !.totalChans = LastUsed(s, g),
                       !.checked = g]
  BY DEF CheckSelection, Numbers, Number, LastUsed, GetsTp, GetsExc, TpPlace,
         ExcPlace, TpCount, FreeRank, FeStates

\* The check keeps the types and changes nothing else.
LEMMA CheckKeeps ==
    ASSUME NEW s \in FeStates, NEW g \in Selections
    PROVE  LET n == CheckSelection(s, g)
           IN  /\ n \in FeStates
               /\ n.pc = s.pc /\ n.t = s.t /\ n.reconfig = s.reconfig
               /\ n.tpNumNet = s.tpNumNet /\ n.validTpNet = s.validTpNet
               /\ n.tpNum = Numbers(s, g) /\ n.validTp = LastUsed(s, g)
               /\ n.totalChans = n.validTp /\ n.checked = g
               /\ s.localTable = s.tpNum => n.localTable = n.tpNum
               /\ n.offset = [i \in Slots |->
                    IF GetsExc(s, g, i) THEN ExcPlace(s, g, i) ELSE s.offset[i]]
<1> DEFINE n == CheckSelection(s, g)
           N == Numbers(s, g)
           L == LastUsed(s, g)
           O == [i \in Slots |-> IF GetsExc(s, g, i) THEN ExcPlace(s, g, i)
                                 ELSE s.offset[i]]
           T == [i \in Slots |-> IF i \in Kept(s, g) THEN s.localTable[i] ELSE N[i]]
<1>1. n = [s EXCEPT !.tpNum = N, !.offset = O, !.localTable = T,
                    !.validTp = L, !.totalChans = L, !.checked = g]
  BY CheckIs
<1>2. N \in [Slots -> Nat] /\ L \in 0..MaxTp
  BY NumbersType
<1>3. O \in [Slots -> Slots]
  <2>1. s.offset \in [Slots -> Slots]
    BY DEF FeStates
  <2>2. \A i \in Slots : GetsExc(s, g, i) => ExcPlace(s, g, i) \in Slots
    BY NumbersType
  <2> QED BY <2>1, <2>2
<1>4. T \in [Slots -> Nat]
  <2>1. s.localTable \in [Slots -> Nat]
    BY DEF FeStates
  <2> HIDE DEF N
  <2> QED BY <1>2, <2>1
<1>5. s.localTable = s.tpNum => T = N
  <2>1. \A i \in Kept(s, g) : i \in Slots => N[i] = s.tpNum[i]
    BY DEF Numbers, Number
  <2>2. N \in [Slots -> Nat] /\ T \in [Slots -> Nat]
    BY <1>2, <1>4
  <2>3. ASSUME s.localTable = s.tpNum, NEW i \in Slots PROVE T[i] = N[i]
    BY <2>1, <2>3
  <2> HIDE DEF T, N
  <2> QED BY <2>2, <2>3
<1> HIDE DEF n, N, L, O, T
<1>6. n \in FeStates
  BY <1>1, <1>2, <1>3, <1>4 DEF FeStates
<1>7. /\ n.pc = s.pc /\ n.t = s.t /\ n.reconfig = s.reconfig
      /\ n.tpNumNet = s.tpNumNet /\ n.validTpNet = s.validTpNet
      /\ n.tpNum = N /\ n.validTp = L /\ n.totalChans = L /\ n.checked = g
      /\ n.localTable = T /\ n.offset = O
  BY <1>1 DEF FeStates
<1> QED BY <1>5, <1>6, <1>7 DEF n, N, L, O

\* What the end of a block does to the tables of a model.
LEMMA EndOfBlockIs ==
    ASSUME NEW s \in FeStates, NEW g \in Selections, NEW x \in Places
    PROVE  LET n == EndOfBlock(s, x, g)
           IN  /\ n \in FeStates /\ n.pc = s.pc /\ n.t = s.t
               /\ x = 0 => /\ n.validTpNet = n.validTp
                           /\ \A i \in 1..n.validTp : n.tpNumNet[i] = n.tpNum[i]
               /\ x # 0 => n.tpNumNet = s.tpNumNet /\ n.validTpNet = s.validTpNet
               /\ x # NB - 1 => /\ n.tpNum = s.tpNum /\ n.validTp = s.validTp
                                /\ n.checked = s.checked /\ n.offset = s.offset
               /\ x = NB - 1 => /\ n.tpNum = Numbers(s, g) /\ n.checked = g
                                /\ n.offset = [i \in Slots |->
                                     IF GetsExc(s, g, i) THEN ExcPlace(s, g, i)
                                     ELSE s.offset[i]]
               /\ s.reconfig = "no" /\ s.totalChans = s.validTp
                    /\ s.localTable = s.tpNum
                  => /\ n.reconfig = "no" /\ n.totalChans = n.validTp
                     /\ n.localTable = n.tpNum
<1> DEFINE n == EndOfBlock(s, x, g)
<1>1. NB >= 3 /\ NB \in Nat /\ x \in 0..(NB - 1) /\ MaxTp \in Nat /\ Slots = 1..MaxTp
  BY BlockPlace, SlotsFinite DEF Places, Slots
<1>2. CASE x = NB - 1
  <2>1. x # 0
    BY <1>1, <1>2
  <2>2. n = CheckSelection(s, g)
    BY <1>2, <2>1 DEF EndOfBlock
  <2> HIDE DEF n
  <2> QED BY <1>2, <2>1, <2>2, CheckKeeps DEF n
<1>3. CASE x # 0 /\ x # NB - 1
  <2>1. n = s
    BY <1>3 DEF EndOfBlock
  <2> HIDE DEF n
  <2> QED BY <1>3, <2>1 DEF n
<1>4. CASE x = 0
  <2> DEFINE r == IF s.reconfig # "no" THEN Reconfigure(s) ELSE s
  <2>1. x # NB - 1 /\ n = UpdateNet(r)
    BY <1>1, <1>4 DEF EndOfBlock
  <2>2. /\ r \in FeStates /\ r.pc = s.pc /\ r.t = s.t /\ r.tpNum = s.tpNum
        /\ r.validTp = s.validTp /\ r.checked = s.checked /\ r.offset = s.offset
        /\ s.reconfig = "no" => r = s
    <3>1. Nothing \in [Slots -> Nat] /\ 0 \in 0..MaxTp
      BY <1>1 DEF Nothing
    <3> QED BY <3>1 DEF Reconfigure, FeStates
  <2> HIDE DEF r
  <2> DEFINE T == [i \in Slots |-> IF i <= r.validTp THEN r.tpNum[i] ELSE r.tpNumNet[i]]
  <2>3. n = [r EXCEPT !.tpNumNet = T, !.validTpNet = r.validTp]
    BY <2>1 DEF UpdateNet
  <2>4. T \in [Slots -> Nat]
    BY <2>2 DEF FeStates
  <2>5. \A i \in 1..r.validTp : T[i] = r.tpNum[i]
    <3>1. r.validTp \in 0..MaxTp
      BY <2>2 DEF FeStates
    <3> QED BY <1>1, <3>1
  <2> HIDE DEF T, n
  <2>6. /\ n \in FeStates /\ n.tpNumNet = T /\ n.validTpNet = r.validTp
        /\ n.pc = r.pc /\ n.t = r.t /\ n.tpNum = r.tpNum /\ n.validTp = r.validTp
        /\ n.checked = r.checked /\ n.offset = r.offset /\ n.reconfig = r.reconfig
        /\ n.totalChans = r.totalChans /\ n.localTable = r.localTable
    BY <2>2, <2>3, <2>4 DEF FeStates
  <2> QED BY <1>4, <2>1, <2>2, <2>5, <2>6 DEF n
<1> QED BY <1>2, <1>3, <1>4

-----------------------------------------------------------------------------
(* What the steps of a model do *)

\* Shorthand for what is not in question.
SameDc == UNCHANGED <<dpc, nextCycle, dataRdy, todo, header, seen, slice, sent>>

\* The numbers of blocks are numbers.
LEMMA ClockType ==
    ASSUME TypeOK, NEW m \in Models
    PROVE  /\ fe[m] \in FeStates /\ shm[m] \in Memories /\ gds[m] \in Selections
           /\ Clock(m) \in 0..LastBlock /\ Clock(m) \in Int /\ Written(m) \in Int
           /\ Written(m) \in {Clock(m), Clock(m) + 1} /\ LastBlock \in Nat
           /\ fe[m].pc \in {"fill", "announce"}
<1>1. fe[m] \in FeStates /\ shm[m] \in Memories /\ gds[m] \in Selections
  BY DEF TypeOK
<1>2. fe[m].t \in 0..LastBlock /\ LastBlock \in Nat /\ fe[m].pc \in {"fill", "announce"}
  BY <1>1, DaqAssumption DEF FeStates
<1> QED BY <1>1, <1>2 DEF Clock, Written

\* A block's header and the table are stored.
LEMMA PublishEffect ==
    ASSUME TypeOK, NEW m \in Models, Publish(m)
    PROVE  /\ TypeOK' /\ SameDc /\ UNCHANGED <<running, gds, reconfigs>>
           /\ Clock(m) < LastBlock /\ OnTime(m) /\ m \in running
           /\ fe[m].pc = "fill" /\ fe'[m] = [fe[m] EXCEPT !.pc = "announce"]
           /\ \A n \in Models : n # m => fe'[n] = fe[n] /\ shm'[n] = shm[n]
           /\ shm'[m].cycle = shm[m].cycle /\ shm'[m].data = shm[m].data
           /\ shm'[m].time = [shm[m].time EXCEPT ![Block(Clock(m))] = Clock(m)]
           /\ shm'[m].count = fe[m].validTpNet
           /\ \A i \in Slots : shm'[m].tpNum[i] =
                IF i <= fe[m].validTp THEN fe[m].tpNumNet[i] ELSE shm[m].tpNum[i]
<1> DEFINE x == Block(Clock(m))
           T == [i \in Slots |-> IF i <= fe[m].validTp THEN fe[m].tpNumNet[i]
                                 ELSE shm[m].tpNum[i]]
<1>1. /\ fe[m] \in FeStates /\ shm[m] \in Memories /\ Clock(m) \in Int /\ x \in Places
  BY ClockType, BlockPlace
<1>2. T \in [Slots -> Nat]
  BY <1>1 DEF FeStates, Memories
<1>3. /\ shm' = [shm EXCEPT ![m].time[x] = Clock(m), ![m].count = fe[m].validTpNet,
                            ![m].tpNum = T]
      /\ fe' = [fe EXCEPT ![m].pc = "announce"]
  BY DEF Publish
<1>4. UNCHANGED <<running, gds, dpc, nextCycle, dataRdy, todo, header, seen, slice,
                  sent, selects, reconfigs>>
  BY DEF Publish, dcVars
<1>5. Clock(m) < LastBlock /\ OnTime(m) /\ m \in running /\ fe[m].pc = "fill"
  BY DEF Publish
<1> HIDE DEF x, T
<1>6. /\ shm'[m] = [shm[m] EXCEPT !.time = [shm[m].time EXCEPT ![x] = Clock(m)],
                                  !.count = fe[m].validTpNet, !.tpNum = T]
      /\ fe'[m] = [fe[m] EXCEPT !.pc = "announce"]
      /\ \A n \in Models : n # m => fe'[n] = fe[n] /\ shm'[n] = shm[n]
  BY <1>1, <1>3 DEF TypeOK, Memories
<1>7. fe'[m] \in FeStates /\ shm'[m] \in Memories
  <2>1. fe'[m] \in FeStates
    BY <1>1, <1>6 DEF FeStates
  <2> DEFINE U == [shm[m].time EXCEPT ![x] = Clock(m)]
  <2>2. U \in [Places -> Int]
    BY <1>1 DEF Memories
  <2>3. fe[m].validTpNet \in 0..MaxTp
    BY <1>1 DEF FeStates
  <2> HIDE DEF U
  <2>4. shm'[m] = [shm[m] EXCEPT !.time = U, !.count = fe[m].validTpNet, !.tpNum = T]
    BY <1>6 DEF U
  <2> QED BY <1>1, <1>2, <2>1, <2>2, <2>3, <2>4 DEF Memories
<1>8. fe' \in [Models -> FeStates] /\ shm' \in [Models -> Memories]
  <2>1. \A n \in Models : fe'[n] \in FeStates /\ shm'[n] \in Memories
    BY <1>6, <1>7, ClockType
  <2>2. /\ fe' = [n \in Models |-> fe'[n]] /\ shm' = [n \in Models |-> shm'[n]]
    BY <1>3 DEF TypeOK
  <2> QED BY <2>1, <2>2
<1>9. TypeOK'
  BY <1>4, <1>8 DEF TypeOK
<1>10. /\ shm'[m].cycle = shm[m].cycle /\ shm'[m].data = shm[m].data
       /\ shm'[m].time = [shm[m].time EXCEPT ![x] = Clock(m)]
       /\ shm'[m].count = fe[m].validTpNet /\ shm'[m].tpNum = T
  BY <1>1, <1>6 DEF Memories
<1> QED BY <1>4, <1>5, <1>6, <1>9, <1>10 DEF x, T, SameDc

\* The block is announced, the tables are brought up to date, the next block is
\* begun.
LEMMA AnnounceEffect ==
    ASSUME TypeOK, ClockInv, NEW m \in Models, Announce(m)
    PROVE  LET s == EndOfBlock(fe[m], Block(Clock(m)), gds[m])
               d == [time |-> Clock(m) + 1,
                     cols |-> [i \in Slots |-> IF i <= s.totalChans
                                               THEN s.localTable[i] ELSE Unwritten]]
           IN  /\ TypeOK' /\ SameDc /\ UNCHANGED <<running, gds, reconfigs>>
               /\ m \in running /\ fe[m].pc = "announce" /\ s \in FeStates
               /\ fe'[m] = [s EXCEPT !.pc = "fill", !.t = Clock(m) + 1]
               /\ \A n \in Models : n # m => fe'[n] = fe[n] /\ shm'[n] = shm[n]
               /\ shm'[m].cycle = Block(Clock(m)) /\ shm'[m].time = shm[m].time
               /\ shm'[m].count = shm[m].count /\ shm'[m].tpNum = shm[m].tpNum
               /\ shm'[m].data = [shm[m].data EXCEPT ![Block(Clock(m) + 1)] = d]
<1> DEFINE x == Block(Clock(m))
           y == Block(Clock(m) + 1)
           s == EndOfBlock(fe[m], x, gds[m])
           C == [i \in Slots |-> IF i <= s.totalChans THEN s.localTable[i]
                                 ELSE Unwritten]
           d == [time |-> Clock(m) + 1, cols |-> C]
<1>1. /\ fe[m] \in FeStates /\ shm[m] \in Memories /\ Clock(m) \in Int
      /\ gds[m] \in Selections /\ x \in Places /\ y \in Places
  BY ClockType, BlockPlace
<1>2. s \in FeStates /\ s.t = Clock(m)
  BY <1>1, EndOfBlockIs DEF Clock
<1>3. m \in running /\ fe[m].pc = "announce"
  BY DEF Announce
<1>4. Clock(m) + 1 \in 0..LastBlock
  <2>1. Clock(m) + 1 <= LastBlock
    BY <1>3 DEF ClockInv, Written
  <2> QED BY <2>1, ClockType
<1>5. /\ fe' = [fe EXCEPT ![m] = [s EXCEPT !.pc = "fill", !.t = @ + 1]]
      /\ shm' = [shm EXCEPT ![m].cycle = x, ![m].data[y] = d]
  BY DEF Announce
<1>6. UNCHANGED <<running, gds, dpc, nextCycle, dataRdy, todo, header, seen, slice,
                  sent, selects, reconfigs>>
  BY DEF Announce, dcVars
<1> HIDE DEF x, y, s
<1>7. d \in BlockData
  <2>1. C \in [Slots -> Int]
    <3>1. Unwritten \in Int
      BY DEF Unwritten
    <3>2. \A i \in Slots : s.localTable[i] \in Int
      BY <1>2 DEF FeStates
    <3> QED BY <3>1, <3>2
  <2> HIDE DEF C
  <2> QED BY <1>1, <2>1 DEF BlockData
<1> HIDE DEF d
<1>8. /\ shm'[m] = [shm[m] EXCEPT !.cycle = x, !.data = [shm[m].data EXCEPT ![y] = d]]
      /\ fe'[m] = [s EXCEPT !.pc = "fill", !.t = Clock(m) + 1]
      /\ \A n \in Models : n # m => fe'[n] = fe[n] /\ shm'[n] = shm[n]
  BY <1>1, <1>2, <1>5 DEF TypeOK, Memories, FeStates
<1>9. fe'[m] \in FeStates /\ shm'[m] \in Memories
  <2>1. fe'[m] \in FeStates
    BY <1>2, <1>4, <1>8 DEF FeStates
  <2> DEFINE U == [shm[m].data EXCEPT ![y] = d]
  <2>2. U \in [Places -> BlockData]
    BY <1>1, <1>7 DEF Memories
  <2>3. x \in Cycles
    BY <1>1 DEF Cycles
  <2> HIDE DEF U
  <2>4. shm'[m] = [shm[m] EXCEPT !.cycle = x, !.data = U]
    BY <1>8 DEF U
  <2> QED BY <1>1, <2>1, <2>2, <2>3, <2>4 DEF Memories
<1>10. fe' \in [Models -> FeStates] /\ shm' \in [Models -> Memories]
  <2>1. \A n \in Models : fe'[n] \in FeStates /\ shm'[n] \in Memories
    BY <1>8, <1>9, ClockType
  <2>2. /\ fe' = [n \in Models |-> fe'[n]] /\ shm' = [n \in Models |-> shm'[n]]
    BY <1>5 DEF TypeOK
  <2> QED BY <2>1, <2>2
<1>11. TypeOK'
  BY <1>6, <1>10 DEF TypeOK
<1>12. /\ shm'[m].cycle = x /\ shm'[m].time = shm[m].time
       /\ shm'[m].count = shm[m].count /\ shm'[m].tpNum = shm[m].tpNum
       /\ shm'[m].data = [shm[m].data EXCEPT ![y] = d]
  BY <1>1, <1>8 DEF Memories
<1> QED BY <1>2, <1>3, <1>6, <1>8, <1>11, <1>12 DEF x, y, s, d, SameDc

-----------------------------------------------------------------------------
(* Types *)

\* The model collected first is the one with the least number.
LEMMA LeastModel ==
    ASSUME NEW S \in SUBSET Models, S # {}
    PROVE  Min(S) \in S /\ (0 \in S => Min(S) = 0)
<1>1. S \in SUBSET Nat
  BY DaqAssumption DEF Models
<1>2. PICK s \in S : \A t \in S : s <= t
  BY <1>1, LeastElement
<1>3. Min(S) \in S /\ \A t \in S : Min(S) <= t
  BY <1>2 DEF Min
<1> DEFINE x == Min(S)
<1>4. x \in S /\ \A t \in S : x <= t
  BY <1>3
<1> HIDE DEF x
<1>5. x \in Nat /\ (0 \in S => x = 0)
  BY <1>1, <1>4
<1> QED BY <1>4, <1>5 DEF x

\* What the other steps leave alone.
SameModels ==
    \A m \in Models : /\ Clock(m)' = Clock(m) /\ Written(m)' = Written(m)
                      /\ shm'[m].time = shm[m].time /\ shm'[m].data = shm[m].data

\* The test point manager, the sequencer and the death of a model.
LEMMA RequestEffect ==
    ASSUME TypeOK, NEW m \in Models, NEW how \in {"same", "moved"},
           RequestReconfig(m, how)
    PROVE  TypeOK' /\ SameDc /\ SameModels /\ UNCHANGED <<running, shm>>
<1>1. fe[m] \in FeStates
  BY ClockType
<1>2. fe' = [fe EXCEPT ![m].reconfig = how] /\ reconfigs' = reconfigs + 1
  BY DEF RequestReconfig
<1>3. UNCHANGED <<running, shm, gds, dpc, nextCycle, dataRdy, todo, header, seen,
                  slice, sent, selects>>
  BY DEF RequestReconfig, dcVars
<1>4. /\ fe'[m] = [fe[m] EXCEPT !.reconfig = how]
      /\ \A n \in Models : n # m => fe'[n] = fe[n]
  BY <1>2 DEF TypeOK
<1>5. fe'[m] \in FeStates /\ fe'[m].t = fe[m].t /\ fe'[m].pc = fe[m].pc
  BY <1>1, <1>4 DEF FeStates
<1>6. fe' \in [Models -> FeStates]
  <2>1. \A n \in Models : fe'[n] \in FeStates
    BY <1>4, <1>5, ClockType
  <2>2. fe' = [n \in Models |-> fe'[n]]
    BY <1>2 DEF TypeOK
  <2> QED BY <2>1, <2>2
<1>7. TypeOK'
  <2>1. reconfigs' \in Nat
    BY <1>2 DEF TypeOK
  <2> QED BY <1>3, <1>6, <2>1 DEF TypeOK
<1>8. SameModels
  BY <1>3, <1>4, <1>5 DEF SameModels, Clock, Written
<1> QED BY <1>3, <1>7, <1>8 DEF SameDc

\* The rest of the steps of others leave the models alone.
LEMMA OtherTypes ==
    ASSUME TypeOK,
           \/ \E m \in Models, g \in Selections : Select(m, g)
           \/ \E m \in Models : Stop(m)
    PROVE  TypeOK' /\ SameDc /\ SameModels /\ UNCHANGED <<fe, shm, reconfigs>>
           /\ running' \subseteq running
<1>1. CASE \E m \in Models, g \in Selections : Select(m, g)
  <2>1. PICK m \in Models, g \in Selections : Select(m, g)
    BY <1>1
  <2>2. /\ gds' = [gds EXCEPT ![m] = g] /\ selects' = selects + 1
        /\ UNCHANGED <<running, fe, shm, dpc, nextCycle, dataRdy, todo, header, seen,
                       slice, sent, reconfigs>>
    BY <2>1 DEF Select, dcVars
  <2>3. gds' \in [Models -> Selections] /\ selects' \in Nat
    BY <2>2 DEF TypeOK
  <2> QED BY <2>2, <2>3 DEF TypeOK, SameDc, SameModels, Clock, Written
<1>2. CASE \E m \in Models : Stop(m)
  <2>1. /\ running' \subseteq running
        /\ UNCHANGED <<fe, shm, gds, dpc, nextCycle, dataRdy, todo, header, seen,
                       slice, sent, selects, reconfigs>>
    BY <1>2 DEF Stop, dcVars
  <2>2. running' \subseteq Models
    BY <2>1 DEF TypeOK
  <2> QED BY <2>1, <2>2 DEF TypeOK, SameDc, SameModels, Clock, Written
<1> QED BY <1>1, <1>2

\* The steps of local_dc that do not collect.
LEMMA DcTypes ==
    ASSUME TypeOK,
           \/ DcStart \/ DcSeeIop \/ DcGiveUp \/ DcPolled
           \/ \E m \in Models : DcSeeModel(m)
    PROVE  TypeOK' /\ SameModels /\ UNCHANGED feVars
<1>1. CASE DcStart
  <2>1. /\ shm' = [m \in Models |-> [shm[m] EXCEPT !.cycle = NoCycle]] /\ dpc' = "wait"
        /\ UNCHANGED <<running, fe, gds, selects, reconfigs, nextCycle, dataRdy, todo,
                       header, seen, slice, sent>>
    BY <1>1 DEF DcStart, feVars
  <2>2. ASSUME NEW m \in Models
        PROVE  /\ shm'[m] \in Memories
               /\ shm'[m].time = shm[m].time /\ shm'[m].data = shm[m].data
    <3>1. shm[m] \in Memories /\ shm'[m] = [shm[m] EXCEPT !.cycle = NoCycle]
          /\ NoCycle \in Cycles
      BY <2>1, ClockType DEF Cycles
    <3> QED BY <3>1 DEF Memories
  <2>3. shm' \in [Models -> Memories]
    BY <2>1, <2>2
  <2>4. TypeOK'
    BY <2>1, <2>3 DEF TypeOK
  <2>5. SameModels
    BY <2>1, <2>2 DEF SameModels, Clock, Written
  <2> QED BY <2>1, <2>4, <2>5 DEF feVars
<1>2. CASE \/ DcSeeIop \/ DcGiveUp \/ DcPolled \/ \E m \in Models : DcSeeModel(m)
  <2>1. /\ UNCHANGED <<running, fe, gds, selects, reconfigs, shm, header, nextCycle, sent>>
        /\ dpc' \in {"poll", "exit", "load"} /\ slice' \in Seq(Entries)
        /\ dataRdy' \subseteq Models /\ todo' \subseteq Models
        /\ seen' \in 0..LastBlock
    <3>1. 0 \in Models /\ Clock(0) \in 0..LastBlock
      <4>1. 0 \in Models
        BY DaqAssumption DEF Models
      <4> QED BY <4>1, ClockType
    <3>2. CASE DcSeeIop
      BY <3>1, <3>2 DEF DcSeeIop, feVars, TypeOK
    <3>3. CASE DcGiveUp
      BY <3>3 DEF DcGiveUp, feVars, TypeOK
    <3>4. CASE DcPolled
      BY <3>4 DEF DcPolled, feVars, TypeOK
    <3>5. CASE \E m \in Models : DcSeeModel(m)
      BY <3>5 DEF DcSeeModel, feVars, TypeOK
    <3> QED BY <1>2, <3>2, <3>3, <3>4, <3>5
  <2>2. TypeOK'
    BY <2>1 DEF TypeOK
  <2>3. SameModels
    BY <2>1 DEF SameModels, Clock, Written
  <2> QED BY <2>1, <2>2, <2>3 DEF feVars
<1> QED BY <1>1, <1>2

\* loadMessageBuffer takes the header of the next model.
LEMMA HeaderEffect ==
    ASSUME TypeOK, DcHeader
    PROVE  /\ TypeOK' /\ SameModels /\ header' # NoHeader /\ header' \in Headers
           /\ UNCHANGED <<running, fe, gds, selects, reconfigs, shm, dpc, nextCycle,
                          dataRdy, todo, seen, slice, sent>>
           /\ dpc = "load"
           /\ header'.dcu \in todo /\ (0 \in todo => header'.dcu = 0)
           /\ header'.cycle = shm[header'.dcu].cycle
           /\ header'.time = shm[header'.dcu].time[nextCycle]
           /\ header'.tpNum = [i \in 1..shm[header'.dcu].count |->
                                 shm[header'.dcu].tpNum[i]]
<1> DEFINE m == Min(todo)
           T == [i \in 1..shm[m].count |-> shm[m].tpNum[i]]
<1>1. m \in todo /\ (0 \in todo => m = 0) /\ m \in Models
  BY LeastModel DEF DcHeader, TypeOK
<1>2. header' = [dcu |-> m, cycle |-> shm[m].cycle, time |-> shm[m].time[nextCycle],
                 tpNum |-> T]
      /\ dpc = "load"
  BY DEF DcHeader
<1>3. UNCHANGED <<running, fe, gds, selects, reconfigs, shm, dpc, nextCycle,
                  dataRdy, todo, seen, slice, sent>>
  BY DEF DcHeader, feVars
<1> HIDE DEF m
<1>4. shm[m] \in Memories /\ nextCycle \in Places /\ MaxTp \in Nat /\ Slots = 1..MaxTp
  BY <1>1, ClockType, SlotsFinite DEF TypeOK, Slots
<1>5. shm[m].cycle \in Cycles /\ shm[m].time[nextCycle] \in Int
      /\ shm[m].count \in 0..MaxTp /\ shm[m].tpNum \in [Slots -> Nat]
  BY <1>4 DEF Memories
<1>6. T \in Seq(Nat)
  <2> DEFINE k == shm[m].count
             N == shm[m].tpNum
  <2>1. k \in Nat /\ \A i \in 1..k : N[i] \in Nat
    BY <1>4, <1>5
  <2>2. T = [i \in 1..k |-> N[i]]
    OBVIOUS
  <2> HIDE DEF T, k, N
  <2>3. T \in [1..k -> Nat]
    BY <2>1, <2>2
  <2> QED BY <2>1, <2>3
<1> HIDE DEF T
<1>7. header' \in Headers
  BY <1>1, <1>2, <1>5, <1>6 DEF Headers
<1>8. header' # NoHeader
  <2>1. header'.dcu \in Nat
    BY <1>1, <1>2, DaqAssumption DEF Models
  <2>2. NoHeader.dcu = -1
    BY DEF NoHeader
  <2> QED BY <2>1, <2>2
<1>9. TypeOK'
  BY <1>3, <1>7 DEF TypeOK
<1>10. SameModels
  BY <1>3 DEF SameModels, Clock, Written
<1> QED BY <1>1, <1>2, <1>3, <1>7, <1>8, <1>9, <1>10 DEF T

\* It copies the data of that model.
LEMMA CopyEffect ==
    ASSUME TypeOK, DcCopy
    PROVE  LET e == [header |-> header, data |-> shm[header.dcu].data[nextCycle],
                     fresh |-> header.dcu \in running]
           IN  /\ TypeOK' /\ SameModels /\ header # NoHeader /\ header \in Headers
               /\ header' = NoHeader /\ e \in Entries /\ slice' = Append(slice, e)
               /\ todo' = todo \ {header.dcu}
               /\ UNCHANGED <<running, fe, gds, selects, reconfigs, shm, dpc, nextCycle,
                              dataRdy, seen, sent>>
<1> DEFINE d == shm[header.dcu].data[nextCycle]
           f == header.dcu \in running
           e == [header |-> header, data |-> d, fresh |-> f]
<1>1. header # NoHeader /\ header' = NoHeader /\ todo' = todo \ {header.dcu}
      /\ slice' = Append(slice, e)
  BY DEF DcCopy, SourceBlock
<1>2. UNCHANGED <<running, fe, gds, selects, reconfigs, shm, dpc, nextCycle,
                  dataRdy, seen, sent>>
  BY DEF DcCopy, feVars
<1>3. header \in Headers
  BY <1>1 DEF TypeOK
<1>4. shm[header.dcu] \in Memories /\ nextCycle \in Places
  BY <1>3, ClockType DEF Headers, TypeOK
<1>5. d \in BlockData /\ f \in BOOLEAN
  BY <1>4 DEF Memories
<1> HIDE DEF d, f
<1>6. e \in Entries
  BY <1>3, <1>5 DEF Entries
<1> HIDE DEF e
<1>7. slice' \in Seq(Entries)
  BY <1>1, <1>6 DEF TypeOK
<1>8. TypeOK'
  BY <1>1, <1>2, <1>7 DEF TypeOK
<1>9. SameModels
  BY <1>2 DEF SameModels, Clock, Written
<1> QED BY <1>1, <1>2, <1>3, <1>6, <1>8, <1>9 DEF e, d, f

\* It announces the slice.
LEMMA SendEffect ==
    ASSUME TypeOK, DcSend
    PROVE  /\ TypeOK' /\ SameModels /\ dpc = "load" /\ todo = {} /\ header = NoHeader
           /\ sent'.curCycle = nextCycle /\ sent'.models = slice
           /\ nextCycle' = (nextCycle + 1) % NB /\ dpc' = "wait"
           /\ UNCHANGED <<running, fe, gds, selects, reconfigs, shm, todo, header, seen>>
<1>1. /\ dpc = "load" /\ todo = {} /\ header = NoHeader
      /\ sent' = [curCycle |-> nextCycle, models |-> slice]
      /\ slice' = <<>> /\ dataRdy' = {}
      /\ nextCycle' = (nextCycle + 1) % NB /\ dpc' = "wait"
      /\ UNCHANGED <<running, fe, gds, selects, reconfigs, shm, todo, header, seen>>
  BY DEF DcSend, feVars
<1>2. nextCycle' \in Places /\ nextCycle \in Cycles /\ slice' \in Seq(Entries)
  <2>1. nextCycle \in Places /\ nextCycle + 1 \in Int
    BY BlockPlace DEF TypeOK, Places
  <2>2. Block(nextCycle + 1) \in Places
    BY <2>1, BlockPlace
  <2> QED BY <1>1, <2>1, <2>2 DEF Block, Cycles
<1>3. sent' \in [curCycle : Cycles, models : Seq(Entries)]
  BY <1>1, <1>2 DEF TypeOK
<1>4. TypeOK'
  BY <1>1, <1>2, <1>3 DEF TypeOK
<1>5. SameModels
  BY <1>1 DEF SameModels, Clock, Written
<1> QED BY <1>1, <1>4, <1>5

\* The initial state has its types.
LEMMA InitTypes == Init => TypeOK
<1>1. SUFFICES ASSUME Init PROVE TypeOK
  OBVIOUS
<1>2. /\ NB \in Nat /\ NB >= 3 /\ MaxTp \in Nat \ {0} /\ Unselected \in Selections
      /\ LastBlock \in Nat
  BY DaqAssumption
<1>3. Nothing \in [Slots -> Nat] /\ [i \in Slots |-> 1] \in [Slots -> Slots]
  BY <1>2 DEF Nothing, Slots
<1>4. fe \in [Models -> FeStates]
  BY <1>1, <1>2, <1>3 DEF Init, FeStates
<1>5. shm \in [Models -> Memories]
  <2> DEFINE T == [x \in Places |-> Unwritten]
             C == [i \in Slots |-> Unwritten]
             D == [x \in Places |-> [time |-> IF x = NB - 1 THEN 0 ELSE Unwritten,
                                     cols |-> C]]
  <2>1. T \in [Places -> Int] /\ C \in [Slots -> Int]
    BY DEF Unwritten
  <2>2. D \in [Places -> BlockData]
    <3> HIDE DEF C
    <3> QED BY <2>1 DEF BlockData, Unwritten
  <2>3. NoCycle \in Cycles /\ 0 \in 0..MaxTp
    BY <1>2 DEF Cycles
  <2>4. shm = [m \in Models |-> [cycle |-> NoCycle, time |-> T, count |-> 0,
                                 tpNum |-> Nothing, data |-> D]]
    BY <1>1 DEF Init
  <2> HIDE DEF T, D
  <2> QED BY <1>3, <2>1, <2>2, <2>3, <2>4 DEF Memories
<1>6. gds \in [Models -> Selections] /\ running \subseteq Models
  BY <1>1, <1>2 DEF Init
<1>7. nextCycle \in Places /\ seen \in 0..LastBlock
  BY <1>1, <1>2 DEF Init, Places
<1>8. sent \in [curCycle : Cycles, models : Seq(Entries)] /\ slice \in Seq(Entries)
  BY <1>1 DEF Init, Cycles
<1> QED BY <1>1, <1>4, <1>5, <1>6, <1>7, <1>8 DEF Init, TypeOK

-----------------------------------------------------------------------------
(* Clocks and memory *)

\* Publish counts a block written, Announce one complete.
LEMMA PublishClock ==
    ASSUME TypeOK, NEW m \in Models, Publish(m)
    PROVE  /\ \A n \in Models : Clock(n)' = Clock(n)
           /\ Written(m) = Clock(m) /\ Written(m)' = Clock(m) + 1
           /\ \A n \in Models : n # m => Written(n)' = Written(n)
<1>1. fe[m].pc = "fill" /\ fe'[m] = [fe[m] EXCEPT !.pc = "announce"]
      /\ fe[m] \in FeStates /\ \A n \in Models : n # m => fe'[n] = fe[n]
  BY PublishEffect, ClockType
<1>2. fe'[m].pc = "announce" /\ fe'[m].t = fe[m].t
  BY <1>1 DEF FeStates
<1>3. "fill" # "announce"
  OBVIOUS
<1> QED BY <1>1, <1>2, <1>3 DEF Clock, Written

\* Announce counts a block complete and begins the next one.
LEMMA AnnounceClock ==
    ASSUME TypeOK, ClockInv, NEW m \in Models, Announce(m)
    PROVE  /\ Clock(m)' = Clock(m) + 1
           /\ Written(m) = Clock(m) + 1 /\ Written(m)' = Clock(m) + 1
           /\ \A n \in Models : n # m => Clock(n)' = Clock(n) /\ Written(n)' = Written(n)
<1> DEFINE s == EndOfBlock(fe[m], Block(Clock(m)), gds[m])
<1>1. /\ s \in FeStates /\ fe'[m] = [s EXCEPT !.pc = "fill", !.t = Clock(m) + 1]
      /\ fe[m].pc = "announce" /\ \A n \in Models : n # m => fe'[n] = fe[n]
  BY AnnounceEffect
<1> HIDE DEF s
<1>2. fe'[m].pc = "fill" /\ fe'[m].t = Clock(m) + 1
  BY <1>1 DEF FeStates
<1>3. "fill" # "announce"
  OBVIOUS
<1> QED BY <1>1, <1>2, <1>3 DEF Clock, Written

\* A step that leaves the models alone.
LEMMA QuietClock ==
    ASSUME TypeOK, ClockInv, SameModels, running' \subseteq running
    PROVE  ClockInv'
<1>1. running \subseteq Models
  BY DEF TypeOK
<1> QED BY <1>1 DEF ClockInv, SameModels

\* Memory that keeps its blocks and headers is as it was described.
LEMMA QuietMemory ==
    ASSUME MemoryInv, SameModels,
           \A m \in Models : shm'[m].cycle \in {shm[m].cycle, NoCycle}
    PROVE  MemoryInv'
<1>1. SUFFICES ASSUME NEW m \in Models
               PROVE  /\ \A u \in 0..LastBlock :
                           Written(m)' - NB <= u /\ u < Written(m)' =>
                             shm'[m].time[Block(u)] = u
                      /\ \A u \in 1..LastBlock :
                           Clock(m)' - NB < u /\ u <= Clock(m)' =>
                             shm'[m].data[Block(u)].time = u
                      /\ shm'[m].cycle # NoCycle =>
                           Clock(m)' > 0 /\ shm'[m].cycle = Block(Clock(m)' - 1)
  BY DEF MemoryInv, Block
<1>2. /\ Clock(m)' = Clock(m) /\ Written(m)' = Written(m)
      /\ shm'[m].time = shm[m].time /\ shm'[m].data = shm[m].data
  BY DEF SameModels
<1>3. /\ \A u \in 0..LastBlock :
           Written(m) - NB <= u /\ u < Written(m) => shm[m].time[Block(u)] = u
      /\ \A u \in 1..LastBlock :
           Clock(m) - NB < u /\ u <= Clock(m) => shm[m].data[Block(u)].time = u
      /\ shm[m].cycle # NoCycle =>
           Clock(m) > 0 /\ shm[m].cycle = Block(Clock(m) - 1)
  BY DEF MemoryInv
<1> QED BY <1>2, <1>3

\* The models stay together.
LEMMA PublishKeepsClock ==
    ASSUME TypeOK, ClockInv, NEW m \in Models, Publish(m)
    PROVE  ClockInv'
<1>1. /\ \A n \in Models : Clock(n)' = Clock(n)
      /\ Written(m)' = Clock(m) + 1
      /\ \A n \in Models : n # m => Written(n)' = Written(n)
  BY PublishClock
<1>2. Clock(m) < LastBlock /\ running' = running /\ running \subseteq Models
      /\ \A n \in running : Clock(m) <= Clock(n)
  BY PublishEffect DEF OnTime, TypeOK
<1>3. \A n \in Models : Clock(n) \in Int /\ LastBlock \in Int
  BY ClockType
<1>4. ASSUME NEW n \in Models PROVE Written(n)' <= LastBlock
  BY <1>1, <1>2, <1>3 DEF ClockInv
<1>5. ASSUME NEW n \in Models, NEW k \in running' PROVE Written(n)' <= Clock(k)' + 1
  <2>1. k \in running /\ k \in Models /\ Clock(k)' = Clock(k)
    BY <1>1, <1>2
  <2>2. CASE n = m
    <3>1. Clock(m) <= Clock(k) /\ Clock(m) \in Int /\ Clock(k) \in Int
      BY <1>2, <1>3, <2>1
    <3> QED BY <1>1, <2>1, <2>2, <3>1
  <2>3. CASE n # m
    BY <1>1, <2>1, <2>3 DEF ClockInv
  <2> QED BY <2>2, <2>3
<1> QED BY <1>4, <1>5 DEF ClockInv

\* The models stay within a block of each other when one announces.
LEMMA AnnounceKeepsClock ==
    ASSUME TypeOK, ClockInv, NEW m \in Models, Announce(m)
    PROVE  ClockInv'
<1>1. /\ Clock(m)' = Clock(m) + 1
      /\ Written(m) = Clock(m) + 1 /\ Written(m)' = Clock(m) + 1
      /\ \A n \in Models : n # m => Clock(n)' = Clock(n) /\ Written(n)' = Written(n)
  BY AnnounceClock
<1>2. running' = running /\ running \subseteq Models
  BY AnnounceEffect DEF TypeOK
<1>3. \A n \in Models : Clock(n) \in Int /\ Written(n) \in Int
  BY ClockType
<1>4. \A n \in Models : Written(n)' = Written(n) /\ Clock(n) <= Clock(n)'
      /\ Clock(n)' \in Int
  BY <1>1, <1>3
<1>5. ASSUME NEW n \in Models PROVE Written(n)' <= LastBlock
  BY <1>4 DEF ClockInv
<1>6. ASSUME NEW n \in Models, NEW k \in running' PROVE Written(n)' <= Clock(k)' + 1
  <2>1. k \in running /\ k \in Models
    BY <1>2
  <2>2. Written(n) <= Clock(k) + 1 /\ Clock(k) <= Clock(k)' /\ Written(n) \in Int
        /\ Clock(k) \in Int /\ Clock(k)' \in Int
    BY <1>3, <1>4, <2>1 DEF ClockInv
  <2> QED BY <1>4, <2>2
<1> QED BY <1>5, <1>6 DEF ClockInv

\* The header of the new block goes to a place of its own.
LEMMA PublishKeepsMemory ==
    ASSUME TypeOK, ClockInv, MemoryInv, NEW m \in Models, Publish(m)
    PROVE  MemoryInv'
<1> DEFINE c == Clock(m)
<1>1. /\ \A n \in Models : Clock(n)' = Clock(n)
      /\ Written(m) = c /\ Written(m)' = c + 1 /\ c \in Int
      /\ \A n \in Models : n # m => Written(n)' = Written(n)
  BY PublishClock, ClockType
<1>2. /\ \A n \in Models : n # m => shm'[n] = shm[n]
      /\ shm'[m].cycle = shm[m].cycle /\ shm'[m].data = shm[m].data
      /\ shm'[m].time = [shm[m].time EXCEPT ![Block(c)] = c]
      /\ shm[m].time \in [Places -> Int]
  BY PublishEffect, ClockType DEF Memories
<1>3. SUFFICES ASSUME NEW n \in Models
               PROVE  /\ \A u \in 0..LastBlock :
                           Written(n)' - NB <= u /\ u < Written(n)' =>
                             shm'[n].time[Block(u)] = u
                      /\ \A u \in 1..LastBlock :
                           Clock(n)' - NB < u /\ u <= Clock(n)' =>
                             shm'[n].data[Block(u)].time = u
                      /\ shm'[n].cycle # NoCycle =>
                           Clock(n)' > 0 /\ shm'[n].cycle = Block(Clock(n)' - 1)
  BY DEF MemoryInv, Block
<1>4. /\ \A u \in 0..LastBlock :
           Written(n) - NB <= u /\ u < Written(n) => shm[n].time[Block(u)] = u
      /\ \A u \in 1..LastBlock :
           Clock(n) - NB < u /\ u <= Clock(n) => shm[n].data[Block(u)].time = u
      /\ shm[n].cycle # NoCycle =>
           Clock(n) > 0 /\ shm[n].cycle = Block(Clock(n) - 1)
  BY DEF MemoryInv
<1>5. CASE n # m
  BY <1>1, <1>2, <1>4, <1>5
<1>6. CASE n = m
  <2> HIDE DEF c
  <2>1. ASSUME NEW u \in 0..LastBlock, c + 1 - NB <= u, u < c + 1
        PROVE  shm'[m].time[Block(u)] = u
    <3>1. u \in Int /\ NB \in Int /\ NB >= 3 /\ Block(u) \in Places /\ Block(c) \in Places
      BY <1>1, BlockPlace, ClockType
    <3>2. CASE u = c
      BY <1>2, <3>1, <3>2
    <3>3. CASE u # c
      <4>1. c - NB <= u /\ u < c /\ u - c < NB /\ c - u < NB
        BY <1>1, <2>1, <3>1, <3>3
      <4>2. Block(u) # Block(c)
        BY <1>1, <3>1, <3>3, <4>1, BlockPlace
      <4>3. shm[m].time[Block(u)] = u
        BY <1>1, <1>4, <1>6, <4>1
      <4> QED BY <1>2, <3>1, <4>2, <4>3
    <3> QED BY <3>2, <3>3
  <2>2. ASSUME NEW u \in 0..LastBlock, Written(m)' - NB <= u, u < Written(m)'
        PROVE  shm'[m].time[Block(u)] = u
    <3>1. c + 1 - NB <= u /\ u < c + 1
      BY <1>1, <2>2, BlockPlace
    <3> QED BY <2>1, <3>1
  <2>3. /\ \A u \in 1..LastBlock : Clock(m)' - NB < u /\ u <= Clock(m)' =>
                                     shm'[m].data[Block(u)].time = u
        /\ shm'[m].cycle # NoCycle =>
             Clock(m)' > 0 /\ shm'[m].cycle = Block(Clock(m)' - 1)
    BY <1>1, <1>2, <1>4, <1>6
  <2> QED BY <1>6, <2>2, <2>3
<1> QED BY <1>5, <1>6

\* So do the data of the next one, and the cycle word names the last.
LEMMA AnnounceKeepsMemory ==
    ASSUME TypeOK, ClockInv, MemoryInv, NEW m \in Models, Announce(m)
    PROVE  MemoryInv'
<1> DEFINE c == Clock(m)
           s == EndOfBlock(fe[m], Block(Clock(m)), gds[m])
           d == [time |-> Clock(m) + 1,
                 cols |-> [i \in Slots |-> IF i <= s.totalChans
                                           THEN s.localTable[i] ELSE Unwritten]]
<1>1. /\ Clock(m)' = c + 1 /\ Written(m) = c + 1 /\ Written(m)' = c + 1
      /\ c \in Int /\ c >= 0
      /\ \A n \in Models : n # m => Clock(n)' = Clock(n) /\ Written(n)' = Written(n)
  BY AnnounceClock, ClockType
<1>2. /\ \A n \in Models : n # m => shm'[n] = shm[n]
      /\ shm'[m].cycle = Block(c) /\ shm'[m].time = shm[m].time
      /\ shm'[m].data = [shm[m].data EXCEPT ![Block(c + 1)] = d]
      /\ d.time = c + 1
  BY AnnounceEffect
<1> HIDE DEF d, s
<1>3. shm[m].data \in [Places -> BlockData]
  BY ClockType DEF Memories
<1>4. SUFFICES ASSUME NEW n \in Models
               PROVE  /\ \A u \in 0..LastBlock :
                           Written(n)' - NB <= u /\ u < Written(n)' =>
                             shm'[n].time[Block(u)] = u
                      /\ \A u \in 1..LastBlock :
                           Clock(n)' - NB < u /\ u <= Clock(n)' =>
                             shm'[n].data[Block(u)].time = u
                      /\ shm'[n].cycle # NoCycle =>
                           Clock(n)' > 0 /\ shm'[n].cycle = Block(Clock(n)' - 1)
  BY DEF MemoryInv, Block
<1>5. /\ \A u \in 0..LastBlock :
           Written(n) - NB <= u /\ u < Written(n) => shm[n].time[Block(u)] = u
      /\ \A u \in 1..LastBlock :
           Clock(n) - NB < u /\ u <= Clock(n) => shm[n].data[Block(u)].time = u
      /\ shm[n].cycle # NoCycle =>
           Clock(n) > 0 /\ shm[n].cycle = Block(Clock(n) - 1)
  BY DEF MemoryInv
<1>6. CASE n # m
  BY <1>1, <1>2, <1>5, <1>6
<1>7. CASE n = m
  <2>1. \A u \in 1..LastBlock :
          c - NB < u /\ u <= c => shm[m].data[Block(u)].time = u
    BY <1>5, <1>7
  <2> HIDE DEF c
  <2>2. ASSUME NEW u \in 1..LastBlock, c + 1 - NB < u, u <= c + 1
        PROVE  shm'[m].data[Block(u)].time = u
    <3>1. u \in Int /\ NB \in Int /\ NB >= 3 /\ Block(u) \in Places
          /\ Block(c + 1) \in Places /\ c + 1 \in Int
      BY <1>1, BlockPlace, ClockType
    <3>2. CASE u = c + 1
      BY <1>2, <1>3, <3>1, <3>2
    <3>3. CASE u # c + 1
      <4>1. c - NB < u /\ u <= c /\ u - (c + 1) < NB /\ (c + 1) - u < NB
        BY <1>1, <2>2, <3>1, <3>3
      <4>2. Block(u) # Block(c + 1)
        BY <3>1, <3>3, <4>1, BlockPlace
      <4>3. shm[m].data[Block(u)].time = u
        BY <2>1, <4>1
      <4> QED BY <1>2, <1>3, <3>1, <4>2, <4>3
    <3> QED BY <3>2, <3>3
  <2>3. Clock(m)' > 0 /\ Clock(m)' - 1 = c
    BY <1>1
  <2>4. shm'[m].cycle = Block(Clock(m)' - 1)
    BY <1>2, <2>3
  <2>5. \A u \in 0..LastBlock : Written(m)' - NB <= u /\ u < Written(m)' =>
                                  shm'[m].time[Block(u)] = u
    BY <1>1, <1>2, <1>5, <1>7
  <2>6. ASSUME NEW u \in 1..LastBlock, Clock(m)' - NB < u, u <= Clock(m)'
        PROVE  shm'[m].data[Block(u)].time = u
    <3>1. c + 1 - NB < u /\ u <= c + 1
      BY <1>1, <2>6, BlockPlace
    <3> QED BY <2>2, <3>1
  <2> QED BY <1>7, <2>3, <2>4, <2>5, <2>6
<1> QED BY <1>6, <1>7

-----------------------------------------------------------------------------
(* The block that is due *)

\* A model has one such block at most.
LEMMA DueUnique ==
    ASSUME TypeOK, NEW m \in Models, NEW r \in Int, NEW u \in Int, Due(m, r), Due(m, u)
    PROVE  r = u
<1>1. Clock(m) \in Int /\ Written(m) \in Int /\ Clock(m) <= Written(m)
  BY ClockType
<1>2. Block(r) = Block(u) /\ r < Clock(m) /\ Written(m) < r + NB
      /\ u < Clock(m) /\ Written(m) < u + NB
  BY DEF Due
<1>3. r - u < NB /\ u - r < NB
  BY <1>1, <1>2, BlockPlace
<1> QED BY <1>2, <1>3, BlockPlace

\* The same of the next state.
LEMMA DueUniqueNext ==
    ASSUME TypeOK', NEW m \in Models
    PROVE  \A r, u \in Int : Due(m, r)' /\ Due(m, u)' => r = u
<1>1. SUFFICES ASSUME NEW r \in Int, NEW u \in Int, Due(m, r)', Due(m, u)'
               PROVE  r = u
  OBVIOUS
<1>2. fe'[m] \in FeStates
  BY DEF TypeOK
<1>3. fe'[m].t \in Int
  BY <1>2, DaqAssumption DEF FeStates
<1>4. Clock(m)' \in Int /\ Written(m)' \in Int /\ Clock(m)' <= Written(m)'
  BY <1>3 DEF Clock, Written
<1>5. Block(r) = Block(u) /\ r < Clock(m)' /\ Written(m)' < r + NB
      /\ u < Clock(m)' /\ Written(m)' < u + NB
  BY <1>1 DEF Due, Block
<1>6. r - u < NB /\ u - r < NB
  BY <1>1, <1>4, <1>5, BlockPlace
<1> QED BY <1>1, <1>5, <1>6, BlockPlace

\* A step of a model, or one that touches neither the models nor what is due.
ModelStep == \E m \in Models : Publish(m) \/ Announce(m)
QuietStep == SameModels /\ running' \subseteq running

\* While local_dc collects, the block stays due: time runs out for nobody.
LEMMA DueStable ==
    ASSUME TypeOK, ClockInv, Collecting, ModelStep \/ QuietStep,
           UNCHANGED <<nextCycle, seen>>,
           NEW m \in Models, NEW r \in Int, Due(m, r)
    PROVE  Due(m, r)'
<1>1. Clock(m) \in Int /\ Written(m) \in Int /\ Clock(m) <= Written(m)
  BY ClockType
<1>2. Block(r) = nextCycle /\ r < Clock(m) /\ Written(m) < r + NB
      /\ (m \in running => seen <= r + 1)
  BY DEF Due
<1>3. SUFFICES /\ r < Clock(m)' /\ Written(m)' < r + NB
               /\ (m \in running' => m \in running)
  BY <1>2 DEF Due, Block
<1>4. CASE QuietStep
  BY <1>2, <1>4 DEF QuietStep, SameModels
<1>5. ASSUME NEW k \in Models, Publish(k)
      PROVE  /\ r < Clock(m)' /\ Written(m)' < r + NB
             /\ (m \in running' => m \in running)
  <2>1. /\ \A n \in Models : Clock(n)' = Clock(n)
        /\ Written(k)' = Clock(k) + 1
        /\ \A n \in Models : n # k => Written(n)' = Written(n)
    BY <1>5, PublishClock
  <2>2. running' = running /\ OnTime(k) /\ k \in running
    BY <1>5, PublishEffect
  <2>3. CASE k # m
    BY <1>2, <2>1, <2>2, <2>3
  <2>4. CASE k = m
    <3>1. Clock(m) < seen + MaxLag + 1 /\ seen <= r + 1
      BY <1>2, <2>2, <2>4 DEF OnTime, Collecting
    <3>2. MaxLag \in Int /\ MaxLag <= NB - 3 /\ NB \in Int /\ seen \in Int
      BY DaqAssumption DEF TypeOK
    <3>3. Clock(m) + 1 < r + NB
      BY <1>1, <3>1, <3>2
    <3> QED BY <1>2, <2>1, <2>2, <2>4, <3>3
  <2> QED BY <2>3, <2>4
<1>6. ASSUME NEW k \in Models, Announce(k)
      PROVE  /\ r < Clock(m)' /\ Written(m)' < r + NB
             /\ (m \in running' => m \in running)
  <2>1. /\ Clock(k)' = Clock(k) + 1
        /\ Written(k) = Clock(k) + 1 /\ Written(k)' = Clock(k) + 1
        /\ \A n \in Models : n # k => Clock(n)' = Clock(n) /\ Written(n)' = Written(n)
        /\ running' = running
    BY <1>6, AnnounceClock, AnnounceEffect
  <2>2. CASE k # m
    BY <1>2, <2>1, <2>2
  <2>3. CASE k = m
    BY <1>1, <1>2, <2>1, <2>3
  <2> QED BY <2>2, <2>3
<1> QED BY <1>4, <1>5, <1>6 DEF ModelStep

\* Clocks do not go back.
LEMMA ClockGrows ==
    ASSUME TypeOK, ClockInv, ModelStep \/ QuietStep, NEW m \in Models
    PROVE  Clock(m)' \in Int /\ Clock(m) <= Clock(m)'
<1>1. Clock(m) \in Int
  BY ClockType
<1>2. CASE QuietStep
  BY <1>1, <1>2 DEF QuietStep, SameModels
<1>3. ASSUME NEW k \in Models, Publish(k)
      PROVE  Clock(m)' \in Int /\ Clock(m) <= Clock(m)'
  BY <1>1, <1>3, PublishClock
<1>4. ASSUME NEW k \in Models, Announce(k)
      PROVE  Clock(m)' \in Int /\ Clock(m) <= Clock(m)'
  BY <1>1, <1>4, AnnounceClock
<1> QED BY <1>2, <1>3, <1>4 DEF ModelStep

\* The time of the IOP's block is a number.
LEMMA IopType ==
    ASSUME TypeOK
    PROVE  /\ Iop(sent) \in Int
           /\ \A i \in DOMAIN slice : slice[i] \in Entries
           /\ \A i \in DOMAIN sent.models : sent.models[i] \in Entries
           /\ \A e \in SentModels : e \in Entries
<1>1. slice \in Seq(Entries) /\ sent.models \in Seq(Entries)
  BY DEF TypeOK
<1>2. \A i \in DOMAIN slice : slice[i] \in Entries
  BY <1>1
<1>3. \A i \in DOMAIN sent.models : sent.models[i] \in Entries
  BY <1>1
<1>4. CASE sent.models = <<>>
  BY <1>2, <1>3, <1>4 DEF Iop, SentModels
<1>5. CASE sent.models # <<>>
  <2>1. 1 \in DOMAIN sent.models
    BY <1>1, <1>5
  <2>2. sent.models[1].header.time \in Int
    BY <1>3, <2>1 DEF Entries, Headers
  <2> QED BY <1>2, <1>3, <1>5, <2>2 DEF Iop, SentModels
<1> QED BY <1>4, <1>5

\* So what is collected is not disturbed.
LEMMA SameCollect ==
    ASSUME IndInv, TypeOK', ModelStep \/ QuietStep, SameDc
    PROVE  CollectInv' /\ SliceInv' /\ SentInv'
<1>1. TypeOK /\ ClockInv /\ CollectInv /\ SliceInv /\ SentInv
  BY DEF IndInv
<1>2. UNCHANGED <<dpc, nextCycle, dataRdy, todo, header, seen, slice, sent>>
  BY DEF SameDc
<1>3. ASSUME Collecting, NEW m \in Models, NEW r \in 0..LastBlock, Due(m, r)
      PROVE  Due(m, r)'
  <2>1. r \in Int
    BY DaqAssumption
  <2> QED BY <1>1, <1>2, <1>3, <2>1, DueStable
<1>4. dataRdy \subseteq Models /\ 0 \in Models
  BY <1>1, DaqAssumption DEF TypeOK, Models
<1>5. CollectInv'
  <2>1. ASSUME Collecting'
        PROVE  /\ 0 \in dataRdy' /\ seen' > 0 /\ Due(0, seen - 1)'
               /\ \A m \in dataRdy' : \E r \in 0..LastBlock : Due(m, r)'
    <3>1. Collecting
      BY <1>2, <2>1 DEF Collecting
    <3>2. /\ 0 \in dataRdy /\ seen > 0 /\ Due(0, seen - 1)
          /\ \A m \in dataRdy : \E r \in 0..LastBlock : Due(m, r)
      BY <1>1, <3>1 DEF CollectInv
    <3>3. seen - 1 \in 0..LastBlock /\ seen - 1 \in Int
      BY <1>1, <3>2, DaqAssumption DEF TypeOK
    <3>4. Due(0, seen - 1)'
      <4>1. \A r \in Int : r = seen - 1 => Due(0, r)'
        BY <1>1, <1>2, <1>4, <3>1, <3>2, DueStable
      <4>2. PICK r \in Int : r = seen - 1
        BY <3>3
      <4>3. Due(0, r)' /\ r = seen' - 1
        BY <1>2, <4>1, <4>2
      <4> QED BY <4>3 DEF Due, Block
    <3>5. ASSUME NEW m \in dataRdy' PROVE \E r \in 0..LastBlock : Due(m, r)'
      <4>1. m \in dataRdy /\ m \in Models
        BY <1>2, <1>4
      <4>2. PICK r \in 0..LastBlock : Due(m, r)
        BY <3>2, <4>1
      <4> QED BY <1>3, <3>1, <4>1, <4>2
    <3> QED BY <1>2, <3>2, <3>4, <3>5
  <2>2. ASSUME header' # NoHeader
        PROVE  /\ dpc' = "load" /\ header'.dcu \in todo'
               /\ header'.time \in 0..LastBlock
               /\ Due(header.dcu, header.time)'
               /\ 0 \in todo' => header'.dcu = 0
    <3>1. header # NoHeader /\ header \in Headers
      BY <1>1, <1>2, <2>2 DEF TypeOK
    <3>2. /\ dpc = "load" /\ header.dcu \in todo
          /\ header.time \in 0..LastBlock
          /\ Due(header.dcu, header.time)
          /\ 0 \in todo => header.dcu = 0
      BY <1>1, <3>1 DEF CollectInv
    <3>3. PICK m \in Models, r \in 0..LastBlock : m = header.dcu /\ r = header.time
      BY <3>1, <3>2 DEF Headers
    <3>4. Due(m, r)'
      BY <1>3, <3>2, <3>3 DEF Collecting
    <3>5. Due(header.dcu, header.time)'
      BY <1>2, <3>3, <3>4 DEF Due, Clock, Written
    <3> QED BY <1>2, <3>2, <3>5
  <2>3. dpc' = "load" => todo' \subseteq dataRdy' /\ (0 \in todo' <=> slice' = <<>>)
    BY <1>1, <1>2 DEF CollectInv
  <2> QED BY <2>1, <2>2, <2>3 DEF CollectInv
<1>6. SliceInv'
  <2>1. SUFFICES ASSUME dpc' = "load"
                 PROVE  /\ \A i \in DOMAIN slice' : EntryInv(slice[i])'
                        /\ slice' # <<>> => slice'[1].header.dcu = 0
    BY DEF SliceInv
  <2>2. Collecting /\ dpc = "load"
    BY <1>2, <2>1 DEF Collecting
  <2>3. ASSUME NEW i \in DOMAIN slice' PROVE EntryInv(slice[i])'
    <3>1. i \in DOMAIN slice /\ slice[i] \in Entries
      BY <1>1, <1>2 DEF TypeOK
    <3>2. PICK e \in Entries : e = slice[i]
      BY <3>1
    <3>3. EntryInv(e)
      BY <1>1, <2>2, <3>1, <3>2 DEF SliceInv
    <3>4. e.header.dcu \in Models
      BY DEF Entries, Headers
    <3>5. Due(e.header.dcu, e.header.time)'
      BY <1>3, <2>2, <3>3, <3>4 DEF EntryInv
    <3>6. ASSUME e.fresh, NEW n \in dataRdy', NEW r \in 0..LastBlock, Due(n, r)'
          PROVE  r <= e.header.time
      <4>1. n \in dataRdy /\ n \in Models
        BY <1>2, <1>4
      <4>2. PICK u \in 0..LastBlock : Due(n, u)
        BY <1>1, <2>2, <4>1 DEF CollectInv
      <4>3. Due(n, u)'
        BY <1>3, <2>2, <4>1, <4>2
      <4>4. r = u
        <5>1. r \in Int /\ u \in Int
          BY DaqAssumption
        <5>2. \A x, y \in Int : Due(n, x)' /\ Due(n, y)' => x = y
          BY <4>1, DueUniqueNext
        <5> QED BY <3>6, <4>3, <5>1, <5>2
      <4> QED BY <3>3, <3>6, <4>1, <4>2, <4>4 DEF EntryInv
    <3>7. EntryInv(e)'
      BY <1>2, <3>3, <3>5, <3>6 DEF EntryInv
    <3>8. e = slice'[i]
      BY <1>2, <3>2
    <3> QED BY <3>7, <3>8 DEF EntryInv, Due, Clock, Written
  <2>4. slice' # <<>> => slice'[1].header.dcu = 0
    BY <1>1, <1>2, <2>2 DEF SliceInv
  <2> QED BY <2>3, <2>4
<1>7. SentInv'
  <2>1. (BlockIntact /\ RunningTogether)'
    BY <1>1, <1>2 DEF SentInv, BlockIntact, RunningTogether, SentModels, Block
  <2>2. Iop(sent)' = Iop(sent)
    BY <1>2 DEF Iop
  <2>3. Iop(sent)' < Clock(0)'
    <3>1. Clock(0)' \in Int /\ Clock(0) <= Clock(0)' /\ Clock(0) \in Int
      BY <1>1, <1>4, ClockGrows, ClockType
    <3>2. Iop(sent) \in Int
      BY <1>1, IopType
    <3> QED BY <1>1, <2>2, <3>1, <3>2 DEF SentInv
  <2>4. sent'.models # <<>> => Iop(sent)' >= 0 /\ Block(Iop(sent)' + 1) = nextCycle'
    BY <1>1, <1>2, <2>2 DEF SentInv
  <2>5. Collecting' => Iop(sent)' < seen' - 1
    BY <1>1, <1>2, <2>2 DEF SentInv, Collecting
  <2> QED BY <2>1, <2>3, <2>4, <2>5 DEF SentInv, Block
<1> QED BY <1>5, <1>6, <1>7

-----------------------------------------------------------------------------
(* The steps of local_dc *)

\* A model whose cycle word is the one that is due has that block in memory.
LEMMA CycleSeen ==
    ASSUME IndInv, NEW m \in Models, CycleIs(m)
    PROVE  /\ Clock(m) > 0 /\ Block(Clock(m) - 1) = nextCycle
           /\ Clock(m) - 1 < Clock(m) /\ Written(m) < Clock(m) - 1 + NB
           /\ Clock(m) - 1 \in 0..LastBlock
<1>1. TypeOK /\ MemoryInv
  BY DEF IndInv
<1>2. shm[m].cycle = nextCycle /\ nextCycle # NoCycle
  <2>1. NB \in 3..49
    BY DaqAssumption
  <2>2. nextCycle \in 0..(NB - 1)
    BY <1>1 DEF TypeOK, Places
  <2>3. nextCycle # 50
    BY <2>1, <2>2
  <2> QED BY <2>3 DEF CycleIs, NoCycle
<1>3. Clock(m) > 0 /\ shm[m].cycle = Block(Clock(m) - 1)
  BY <1>1, <1>2 DEF MemoryInv
<1>4. Clock(m) \in 0..LastBlock /\ LastBlock \in Nat
      /\ Written(m) \in {Clock(m), Clock(m) + 1}
  BY <1>1, ClockType
<1> QED BY <1>2, <1>3, <1>4, BlockPlace

\* The steps that begin or end a round.
LEMMA StartKeeps ==
    ASSUME IndInv, TypeOK', SameModels, DcStart \/ DcGiveUp
    PROVE  CollectInv' /\ SliceInv' /\ SentInv'
<1>1. /\ dpc' \in {"wait", "exit"} /\ header = NoHeader
      /\ UNCHANGED <<nextCycle, header, sent>>
  <2>1. dpc # "load" => header = NoHeader
    BY DEF IndInv, CollectInv
  <2> QED BY <2>1 DEF DcStart, DcGiveUp
<1>2. ~Collecting' /\ dpc' # "load"
  BY <1>1 DEF Collecting
<1>3. CollectInv' /\ SliceInv'
  BY <1>1, <1>2 DEF CollectInv, SliceInv
<1>4. Clock(0)' = Clock(0)
  BY DaqAssumption DEF SameModels, Models
<1>5. SentInv
  BY DEF IndInv
<1>6. (BlockIntact /\ RunningTogether)'
  BY <1>1, <1>5 DEF SentInv, BlockIntact, RunningTogether, SentModels, Block
<1>7. SentInv'
  BY <1>1, <1>2, <1>4, <1>5, <1>6 DEF SentInv, Iop, Block
<1> QED BY <1>3, <1>7

\* The IOP is seen with a block that was not sent yet.
LEMMA SeeIopKeeps ==
    ASSUME IndInv, TypeOK', SameModels, DcSeeIop
    PROVE  CollectInv' /\ SliceInv' /\ SentInv'
<1> DEFINE c == Clock(0)
<1>1. TypeOK /\ SentInv /\ CollectInv
  BY DEF IndInv
<1>2. /\ dpc = "wait" /\ CycleIs(0) /\ dataRdy' = {0} /\ seen' = c /\ dpc' = "poll"
      /\ UNCHANGED <<running, nextCycle, header, sent>>
  BY DEF DcSeeIop, feVars
<1>3. 0 \in Models
  BY DaqAssumption DEF Models
<1>4. /\ c > 0 /\ Block(c - 1) = nextCycle /\ c - 1 < c /\ Written(0) < c - 1 + NB
      /\ c - 1 \in 0..LastBlock /\ c \in Int
  BY <1>1, <1>2, <1>3, CycleSeen, ClockType
<1>5. Clock(0)' = c /\ Written(0)' = Written(0)
  BY <1>3 DEF SameModels
<1> HIDE DEF c
<1>6. header' = NoHeader
  BY <1>1, <1>2 DEF CollectInv
<1>7. ASSUME NEW r \in Int, r = c - 1 PROVE Due(0, r)'
  <2>1. c <= r + 1
    BY <1>4, <1>7
  <2> QED BY <1>2, <1>4, <1>5, <1>7, <2>1 DEF Due, Block
<1>8. CollectInv'
  <2>1. Due(0, seen - 1)'
    <3>1. c - 1 \in Int
      BY <1>4
    <3>2. Due(0, c - 1)'
      <4>1. PICK r \in Int : r = c - 1
        BY <3>1
      <4> QED BY <1>5, <1>7, <4>1 DEF Due, Block, c
    <3> QED BY <1>2, <1>5, <3>2 DEF Due, Block, c
  <2>2. \A m \in dataRdy' : \E r \in 0..LastBlock : Due(m, r)'
    <3>1. PICK r \in 0..LastBlock : r = c - 1
      BY <1>4
    <3>2. r \in Int
      BY DaqAssumption
    <3> QED BY <1>2, <1>7, <3>1, <3>2
  <2>3. dpc' # "load"
    BY <1>2
  <2> QED BY <1>2, <1>4, <1>6, <2>1, <2>2, <2>3 DEF CollectInv
<1>9. SliceInv'
  BY <1>2 DEF SliceInv
<1>10. Iop(sent) < c - 1
  <2>1. Iop(sent) \in Int /\ Iop(sent) < c
    BY <1>1, IopType DEF SentInv, c
  <2>2. CASE sent.models = <<>>
    <3>1. Iop(sent) = -1
      BY <2>2 DEF Iop
    <3> QED BY <1>4, <3>1
  <2>3. CASE sent.models # <<>>
    <3> DEFINE i == Iop(sent)
    <3>1. Block(i + 1) = nextCycle /\ i \in Int /\ i < c
      BY <1>1, <2>1, <2>3 DEF SentInv
    <3> HIDE DEF i
    <3>2. i # c - 1
      <4>1. SUFFICES ASSUME i = c - 1 PROVE FALSE
        OBVIOUS
      <4>2. Block(c) = Block(c - 1) /\ c \in Int /\ c - 1 \in Int
        BY <1>4, <3>1, <4>1
      <4>3. c - (c - 1) < NB /\ (c - 1) - c < NB /\ c # c - 1
        BY <1>4, BlockPlace
      <4> QED BY <4>2, <4>3, BlockPlace
    <3> QED BY <1>4, <3>1, <3>2 DEF i
  <2> QED BY <2>2, <2>3
<1>11. SentInv'
  <2>1. (BlockIntact /\ RunningTogether)'
    BY <1>1, <1>2 DEF SentInv, BlockIntact, RunningTogether, SentModels, Block
  <2>2. Iop(sent') = Iop(sent) /\ seen' - 1 = c - 1
    BY <1>2
  <2> QED BY <1>1, <1>2, <1>5, <1>10, <2>1, <2>2 DEF SentInv, Block, c
<1> QED BY <1>8, <1>9, <1>11

\* Another model that shows the cycle that is due.
LEMMA SeeModelKeeps ==
    ASSUME IndInv, TypeOK', SameModels, NEW m \in Models, DcSeeModel(m)
    PROVE  CollectInv' /\ SliceInv' /\ SentInv'
<1> DEFINE c == Clock(m)
<1>1. TypeOK /\ ClockInv /\ SentInv /\ CollectInv
  BY DEF IndInv
<1>2. /\ dpc = "poll" /\ CycleIs(m) /\ dataRdy' = dataRdy \cup {m}
      /\ UNCHANGED <<running, fe, shm, dpc, nextCycle, todo, header, seen, slice, sent>>
  BY DEF DcSeeModel, feVars
<1>3. 0 \in Models /\ dataRdy \subseteq Models
  BY <1>1, DaqAssumption DEF Models, TypeOK
<1>4. /\ c > 0 /\ Block(c - 1) = nextCycle /\ c - 1 < c /\ Written(m) < c - 1 + NB
      /\ c - 1 \in 0..LastBlock /\ c \in Int /\ seen \in Int
  BY <1>1, <1>2, CycleSeen, ClockType DEF TypeOK
<1>5. /\ 0 \in dataRdy /\ seen > 0 /\ Due(0, seen - 1)
      /\ \A n \in dataRdy : \E r \in 0..LastBlock : Due(n, r)
  BY <1>1, <1>2 DEF CollectInv, Collecting
<1>6. m \in running => seen <= c
  <2>1. SUFFICES ASSUME m \in running PROVE seen <= c
    OBVIOUS
  <2>2. Block(seen - 1) = nextCycle /\ seen - 1 < Clock(0)
    BY <1>5 DEF Due
  <2>3. Written(0) <= c + 1 /\ Clock(0) <= Written(0) /\ Clock(0) \in Int
        /\ Written(0) \in Int
    BY <1>1, <1>3, <2>1, ClockType DEF ClockInv
  <2> HIDE DEF c
  <2>4. seen - 1 <= c
    BY <1>4, <2>2, <2>3
  <2>5. seen - 1 # c
    <3>1. SUFFICES ASSUME seen - 1 = c PROVE FALSE
      OBVIOUS
    <3>2. Block(c) = Block(c - 1) /\ c \in Int /\ c - 1 \in Int
      BY <1>4, <2>2, <3>1
    <3>3. c - (c - 1) < NB /\ (c - 1) - c < NB /\ c # c - 1
      BY <1>4, BlockPlace
    <3> QED BY <3>2, <3>3, BlockPlace
  <2> QED BY <1>4, <2>4, <2>5
<1>7. PICK r \in 0..LastBlock : r = c - 1
  BY <1>4
<1>8. Due(m, r)
  BY <1>4, <1>6, <1>7 DEF Due
<1>9. ASSUME NEW n \in Models, NEW u \in Int, Due(n, u) PROVE Due(n, u)'
  BY <1>2, <1>9 DEF Due, Clock, Written, Block
<1>10. CollectInv'
  <2>1. Due(0, seen - 1)'
    BY <1>2, <1>5 DEF Due, Clock, Written, Block
  <2>2. ASSUME NEW n \in dataRdy' PROVE \E u \in 0..LastBlock : Due(n, u)'
    <3>1. PICK u \in 0..LastBlock : Due(n, u)
      BY <1>2, <1>5, <1>8, <2>2
    <3>2. u \in Int /\ n \in Models
      BY <1>2, <1>3, <2>2, DaqAssumption
    <3> QED BY <1>9, <3>1, <3>2
  <2>3. header' = NoHeader
    BY <1>1, <1>2 DEF CollectInv
  <2> QED BY <1>2, <1>5, <2>1, <2>2, <2>3 DEF CollectInv
<1>11. SliceInv'
  BY <1>2 DEF SliceInv
<1>12. SentInv'
  <2>1. (BlockIntact /\ RunningTogether)'
    BY <1>1, <1>2 DEF SentInv, BlockIntact, RunningTogether, SentModels, Block
  <2> QED BY <1>1, <1>2, <2>1 DEF SentInv, Iop, Clock, Collecting, Block
<1> QED BY <1>10, <1>11, <1>12

\* The polls end and collecting begins.
LEMMA PolledKeeps ==
    ASSUME IndInv, DcPolled
    PROVE  CollectInv' /\ SliceInv' /\ SentInv'
<1>1. TypeOK /\ SentInv /\ CollectInv
  BY DEF IndInv
<1>2. /\ dpc = "poll" /\ todo' = dataRdy /\ slice' = <<>> /\ dpc' = "load"
      /\ UNCHANGED <<running, fe, shm, nextCycle, dataRdy, header, seen, sent>>
  BY DEF DcPolled, feVars
<1>3. /\ 0 \in dataRdy /\ seen > 0 /\ Due(0, seen - 1)
      /\ \A n \in dataRdy : \E r \in 0..LastBlock : Due(n, r)
  BY <1>1, <1>2 DEF CollectInv, Collecting
<1>4. CollectInv'
  <2>1. Due(0, seen - 1)'
    BY <1>2, <1>3 DEF Due, Clock, Written, Block
  <2>2. ASSUME NEW n \in dataRdy' PROVE \E u \in 0..LastBlock : Due(n, u)'
    <3>1. PICK u \in 0..LastBlock : Due(n, u)
      BY <1>2, <1>3, <2>2
    <3>2. Due(n, u)'
      BY <1>2, <3>1 DEF Due, Clock, Written, Block
    <3> QED BY <3>2
  <2>3. header' = NoHeader
    BY <1>1, <1>2 DEF CollectInv
  <2> QED BY <1>2, <1>3, <2>1, <2>2, <2>3 DEF CollectInv
<1>5. SliceInv'
  BY <1>2 DEF SliceInv
<1>6. SentInv'
  <2>1. (BlockIntact /\ RunningTogether)'
    BY <1>1, <1>2 DEF SentInv, BlockIntact, RunningTogether, SentModels, Block
  <2> QED BY <1>1, <1>2, <2>1 DEF SentInv, Iop, Clock, Collecting, Block
<1> QED BY <1>4, <1>5, <1>6

\* loadMessageBuffer finds the header of the block that is due.
LEMMA HeaderKeeps ==
    ASSUME IndInv, DcHeader
    PROVE  CollectInv' /\ SliceInv' /\ SentInv'
<1>1. TypeOK /\ MemoryInv /\ SliceInv /\ SentInv /\ CollectInv
  BY DEF IndInv
<1>2. /\ dpc = "load" /\ header'.dcu \in todo /\ (0 \in todo => header'.dcu = 0)
      /\ header'.time = shm[header'.dcu].time[nextCycle]
      /\ UNCHANGED <<running, fe, shm, dpc, nextCycle, dataRdy, todo, seen, slice, sent>>
  BY <1>1, HeaderEffect
<1>3. /\ 0 \in dataRdy /\ seen > 0 /\ Due(0, seen - 1) /\ todo \subseteq dataRdy
      /\ \A n \in dataRdy : \E r \in 0..LastBlock : Due(n, r)
      /\ (0 \in todo <=> slice = <<>>)
  BY <1>1, <1>2 DEF CollectInv, Collecting
<1>4. PICK m \in Models : m = header'.dcu
  BY <1>1, <1>2 DEF TypeOK
<1>5. PICK r \in 0..LastBlock : Due(m, r)
  BY <1>2, <1>3, <1>4
<1>6. shm[m].time[nextCycle] = r
  <2>1. Block(r) = nextCycle /\ r < Clock(m) /\ Written(m) < r + NB
    BY <1>5 DEF Due
  <2>2. Clock(m) \in Int /\ Written(m) \in Int /\ Clock(m) <= Written(m)
    BY <1>1, ClockType
  <2>3. Written(m) - NB <= r /\ r < Written(m)
    BY <2>1, <2>2, BlockPlace, DaqAssumption
  <2> QED BY <1>1, <2>1, <2>3 DEF MemoryInv
<1>7. header'.time = r /\ header'.dcu = m
  BY <1>2, <1>4, <1>6
<1>8. ASSUME NEW n \in Models, NEW u, Due(n, u) PROVE Due(n, u)'
  BY <1>2, <1>8 DEF Due, Clock, Written, Block
<1>9. CollectInv'
  <2>1. Due(0, seen - 1)'
    BY <1>2, <1>3 DEF Due, Clock, Written, Block
  <2>2. ASSUME NEW n \in dataRdy' PROVE \E u \in 0..LastBlock : Due(n, u)'
    <3>1. PICK u \in 0..LastBlock : Due(n, u)
      BY <1>2, <1>3, <2>2
    <3>2. Due(n, u)'
      BY <1>2, <3>1 DEF Due, Clock, Written, Block
    <3> QED BY <3>2
  <2>3. Due(header.dcu, header.time)'
    <3>1. Due(m, r)'
      BY <1>5, <1>8
    <3> QED BY <1>7, <3>1 DEF Due, Clock, Written
  <2> QED BY <1>2, <1>3, <1>7, <2>1, <2>2, <2>3 DEF CollectInv
<1>10. SliceInv'
  BY <1>1, <1>2 DEF SliceInv, EntryInv, Due, Clock, Written, Block
<1>11. SentInv'
  <2>1. (BlockIntact /\ RunningTogether)'
    BY <1>1, <1>2 DEF SentInv, BlockIntact, RunningTogether, SentModels, Block
  <2> QED BY <1>1, <1>2, <2>1 DEF SentInv, Iop, Clock, Collecting, Block
<1> QED BY <1>9, <1>10, <1>11

\* It copies the data of the same block, and if the model runs no other is ahead.
LEMMA CopyKeeps ==
    ASSUME IndInv, DcCopy
    PROVE  CollectInv' /\ SliceInv' /\ SentInv'
<1> DEFINE e == [header |-> header, data |-> shm[header.dcu].data[nextCycle],
                 fresh |-> header.dcu \in running]
<1>1. TypeOK /\ ClockInv /\ MemoryInv /\ SliceInv /\ SentInv /\ CollectInv
  BY DEF IndInv
<1>2. /\ header # NoHeader /\ header \in Headers /\ e \in Entries
      /\ header' = NoHeader /\ slice' = Append(slice, e) /\ todo' = todo \ {header.dcu}
      /\ UNCHANGED <<running, fe, shm, dpc, nextCycle, dataRdy, seen, sent>>
  BY <1>1, CopyEffect
<1>3. /\ dpc = "load" /\ header.dcu \in todo /\ header.time \in 0..LastBlock
      /\ Due(header.dcu, header.time) /\ (0 \in todo => header.dcu = 0)
  BY <1>1, <1>2 DEF CollectInv
<1>4. /\ 0 \in dataRdy /\ seen > 0 /\ Due(0, seen - 1) /\ todo \subseteq dataRdy
      /\ \A n \in dataRdy : \E r \in 0..LastBlock : Due(n, r)
      /\ (0 \in todo <=> slice = <<>>)
  BY <1>1, <1>3 DEF CollectInv, Collecting
<1>5. e.header = header /\ e.data = shm[header.dcu].data[nextCycle]
      /\ (e.fresh => header.dcu \in running)
  OBVIOUS
<1> HIDE DEF e
<1> DEFINE m == header.dcu
           r == header.time
<1>6. /\ m \in Models /\ dataRdy \subseteq Models /\ r \in Int
      /\ Clock(m) \in Int /\ Written(m) \in Int /\ Clock(m) <= Written(m)
      /\ Block(r) = nextCycle /\ r < Clock(m) /\ Written(m) < r + NB
  <2>1. m \in Models /\ dataRdy \subseteq Models /\ r \in Int
    BY <1>1, <1>2 DEF Headers, TypeOK
  <2> QED BY <1>1, <1>3, <2>1, ClockType DEF Due
<1>7. r > 0 => shm[m].data[nextCycle].time = r
  <2>1. ASSUME r > 0 PROVE shm[m].data[nextCycle].time = r
    <3>1. r \in 1..LastBlock
      BY <1>3, <2>1
    <3> HIDE DEF m, r
    <3>2. Clock(m) - NB < r /\ r <= Clock(m)
      BY <1>6, BlockPlace
    <3> QED BY <1>1, <1>6, <3>1, <3>2 DEF MemoryInv
  <2> QED BY <2>1
<1>8. ASSUME m \in running, NEW n \in dataRdy, NEW u \in 0..LastBlock, Due(n, u)
      PROVE  u <= r
  <2> HIDE DEF m, r
  <2>1. n \in Models /\ u \in Int
    BY <1>6, DaqAssumption
  <2>2. Block(u) = nextCycle /\ u < Clock(n)
    BY <1>8 DEF Due
  <2>3. Clock(n) \in Int /\ Written(n) \in Int /\ Clock(n) <= Written(n)
    BY <1>1, <2>1, ClockType
  <2>4. Written(n) <= Clock(m) + 1
    BY <1>1, <1>8, <2>1 DEF ClockInv
  <2>5. u < r + NB
    BY <1>6, <2>1, <2>2, <2>3, <2>4, BlockPlace
  <2>6. ASSUME u > r PROVE FALSE
    <3>1. u - r < NB /\ r - u < NB
      BY <1>6, <2>1, <2>5, <2>6, BlockPlace
    <3>2. u = r
      BY <1>6, <2>1, <2>2, <3>1, BlockPlace
    <3> QED BY <1>6, <2>6, <3>2
  <2> QED BY <1>6, <2>1, <2>6
<1>9. EntryInv(e)
  BY <1>3, <1>4, <1>5, <1>7, <1>8 DEF EntryInv
<1>10. CollectInv'
  <2>1. Due(0, seen - 1)'
    BY <1>2, <1>4 DEF Due, Clock, Written, Block
  <2>2. ASSUME NEW n \in dataRdy' PROVE \E u \in 0..LastBlock : Due(n, u)'
    <3>1. PICK u \in 0..LastBlock : Due(n, u)
      BY <1>2, <1>4, <2>2
    <3>2. Due(n, u)'
      BY <1>2, <3>1 DEF Due, Clock, Written, Block
    <3> QED BY <3>2
  <2>3. slice' # <<>> /\ 0 \notin todo'
    <3>1. slice' # <<>>
      BY <1>1, <1>2 DEF TypeOK
    <3> QED BY <1>2, <1>3, <3>1
  <2> QED BY <1>2, <1>4, <2>1, <2>2, <2>3 DEF CollectInv
<1>11. SliceInv'
  <2>1. \A i \in DOMAIN slice : EntryInv(slice[i])
    BY <1>1, <1>3 DEF SliceInv
  <2>2. \A i \in DOMAIN slice' : EntryInv(slice'[i])
    <3>1. slice \in Seq(Entries) /\ e \in Entries
      BY <1>1, <1>2 DEF TypeOK
    <3>2. TAKE i \in DOMAIN slice'
    <3>3. \/ i \in DOMAIN slice /\ slice'[i] = slice[i]
          \/ slice'[i] = e
      BY <1>2, <3>1
    <3> QED BY <1>9, <2>1, <3>3
  <2>3. ASSUME NEW i \in DOMAIN slice' PROVE EntryInv(slice[i])'
    <3>1. EntryInv(slice'[i])
      BY <2>2
    <3> QED BY <1>2, <3>1 DEF EntryInv, Due, Clock, Written, Block
  <2>4. slice'[1].header.dcu = 0
    <3>1. slice \in Seq(Entries) /\ e \in Entries
      BY <1>1, <1>2 DEF TypeOK
    <3>2. CASE slice = <<>>
      <4>1. slice'[1] = e
        BY <1>2, <3>1, <3>2
      <4> QED BY <1>3, <1>4, <1>5, <3>2, <4>1
    <3>3. CASE slice # <<>>
      <4>1. slice'[1] = slice[1]
        BY <1>2, <3>1, <3>3
      <4> QED BY <1>1, <1>3, <3>3, <4>1 DEF SliceInv
    <3> QED BY <3>2, <3>3
  <2> QED BY <2>3, <2>4 DEF SliceInv
<1>12. SentInv'
  <2>1. (BlockIntact /\ RunningTogether)'
    BY <1>1, <1>2 DEF SentInv, BlockIntact, RunningTogether, SentModels, Block
  <2> QED BY <1>1, <1>2, <2>1 DEF SentInv, Iop, Clock, Collecting, Block
<1> QED BY <1>10, <1>11, <1>12

\* The first entry of a complete slice is the block of the IOP that was seen.
LEMMA SliceOfIop ==
    ASSUME IndInv, DcSend
    PROVE  /\ slice # <<>> /\ slice[1].header.time = seen - 1
           /\ Iop(sent') = seen - 1 /\ Iop(sent) < Iop(sent') /\ seen - 1 \in Int
           /\ seen - 1 >= 0 /\ seen - 1 < Clock(0) /\ Block(seen - 1) = nextCycle
<1>1. TypeOK /\ SliceInv /\ SentInv /\ CollectInv
  BY DEF IndInv
<1>2. dpc = "load" /\ todo = {} /\ sent'.models = slice
  BY <1>1, SendEffect
<1>3. /\ seen > 0 /\ Due(0, seen - 1) /\ slice # <<>>
  BY <1>1, <1>2 DEF CollectInv, Collecting
<1>4. 1 \in DOMAIN slice
  BY <1>1, <1>3 DEF TypeOK
<1>5. slice[1].header.dcu = 0 /\ EntryInv(slice[1]) /\ slice[1] \in Entries
  BY <1>1, <1>2, <1>3, <1>4, IopType DEF SliceInv
<1>6. seen - 1 \in Int /\ seen - 1 >= 0 /\ 0 \in Models
  BY <1>1, <1>3, DaqAssumption DEF TypeOK, Models
<1>7. slice[1].header.time = seen - 1
  <2>1. Due(0, slice[1].header.time) /\ slice[1].header.time \in Int
    BY <1>5 DEF EntryInv, Entries, Headers
  <2> QED BY <1>1, <1>3, <1>6, <2>1, DueUnique
<1>8. Iop(sent') = seen - 1
  BY <1>2, <1>3, <1>7 DEF Iop
<1>9. Iop(sent) < seen - 1
  BY <1>1, <1>2 DEF SentInv, Collecting
<1> QED BY <1>3, <1>6, <1>7, <1>8, <1>9 DEF Due

\* The slice is announced.
LEMMA SendKeeps ==
    ASSUME IndInv, DcSend
    PROVE  CollectInv' /\ SliceInv' /\ SentInv'
<1>1. TypeOK /\ SliceInv /\ SentInv /\ CollectInv
  BY DEF IndInv
<1>2. /\ dpc = "load" /\ header' = NoHeader /\ dpc' = "wait"
      /\ sent'.models = slice /\ sent'.curCycle = nextCycle
      /\ nextCycle' = (nextCycle + 1) % NB /\ fe' = fe
  BY <1>1, SendEffect
<1>3. CollectInv' /\ SliceInv'
  BY <1>2 DEF CollectInv, SliceInv, Collecting
<1>4. ASSUME NEW e \in SentModels' PROVE EntryInv(e)
  <2>1. PICK i \in DOMAIN slice : e = slice[i]
    BY <1>2 DEF SentModels
  <2> QED BY <1>1, <1>2, <2>1 DEF SliceInv
<1>5. ASSUME NEW e \in SentModels', e.header.time > 0
      PROVE  e.data.time = e.header.time /\ Block(e.header.time) = sent'.curCycle
  <2>1. EntryInv(e)
    BY <1>4
  <2> QED BY <1>2, <1>5, <2>1 DEF EntryInv, Due
<1>6. BlockIntact'
  BY <1>5 DEF BlockIntact, Block
<1>7. ASSUME NEW e \in SentModels', NEW f \in SentModels', e.fresh, f.fresh
      PROVE  e.header.time = f.header.time
  <2>1. EntryInv(e) /\ EntryInv(f)
    BY <1>4
  <2>2. f.header.time <= e.header.time /\ e.header.time <= f.header.time
        /\ e.header.time \in 0..LastBlock /\ f.header.time \in 0..LastBlock
    BY <1>7, <2>1 DEF EntryInv
  <2>3. e.header.time \in Int /\ f.header.time \in Int
    BY <2>2, DaqAssumption
  <2> QED BY <2>2, <2>3
<1>8. RunningTogether'
  BY <1>7 DEF RunningTogether
<1>9. /\ Iop(sent') = seen - 1 /\ seen - 1 \in Int /\ seen - 1 >= 0
      /\ seen - 1 < Clock(0) /\ Block(seen - 1) = nextCycle
  BY SliceOfIop
<1>10. nextCycle' = Block(seen - 1 + 1)
  BY <1>2, <1>9, NextPlace
<1>11. SentInv'
  BY <1>2, <1>6, <1>8, <1>9, <1>10 DEF SentInv, Clock, Collecting, Block
<1> QED BY <1>3, <1>11

\* The invariant holds when the models start.
LEMMA InitInv == Init => IndInv
<1>1. SUFFICES ASSUME Init PROVE IndInv
  OBVIOUS
<1>2. TypeOK
  BY <1>1, InitTypes
<1>3. LastBlock \in Nat /\ NB \in Nat /\ NB >= 3 /\ 0 \in Models
  BY DaqAssumption DEF Models
<1>4. \A m \in Models : Clock(m) = 0 /\ Written(m) = 0 /\ shm[m].cycle = NoCycle
  BY <1>1 DEF Init, Clock, Written
<1>5. running = Models
  BY <1>1 DEF Init
<1>6. ClockInv
  BY <1>3, <1>4, <1>5 DEF ClockInv
<1>7. MemoryInv
  BY <1>3, <1>4 DEF MemoryInv
<1>8. dpc = "off" /\ header = NoHeader /\ sent.models = <<>>
  BY <1>1 DEF Init
<1>9. CollectInv /\ SliceInv
  BY <1>8 DEF CollectInv, SliceInv, Collecting
<1>10. SentInv
  <2>1. Iop(sent) = -1 /\ SentModels = {}
    BY <1>8 DEF Iop, SentModels
  <2> QED BY <1>3, <1>4, <1>8, <2>1
       DEF SentInv, BlockIntact, RunningTogether, Collecting
<1> QED BY <1>2, <1>6, <1>7, <1>9, <1>10 DEF IndInv

\* Every step of Next keeps the invariant.
LEMMA NextInv == IndInv /\ [Next]_vars => IndInv'
<1>1. SUFFICES ASSUME IndInv, [Next]_vars PROVE IndInv'
  OBVIOUS
<1>2. TypeOK /\ ClockInv /\ MemoryInv
  BY <1>1 DEF IndInv
<1>3. ASSUME NEW m \in Models, Publish(m) PROVE IndInv'
  <2>1. TypeOK' /\ SameDc /\ ModelStep
    BY <1>2, <1>3, PublishEffect DEF ModelStep
  <2>2. ClockInv' /\ MemoryInv'
    BY <1>2, <1>3, PublishKeepsClock, PublishKeepsMemory
  <2> QED BY <1>1, <2>1, <2>2, SameCollect DEF IndInv
<1>4. ASSUME NEW m \in Models, Announce(m) PROVE IndInv'
  <2>1. TypeOK' /\ SameDc /\ ModelStep
    BY <1>2, <1>4, AnnounceEffect DEF ModelStep
  <2>2. ClockInv' /\ MemoryInv'
    BY <1>2, <1>4, AnnounceKeepsClock, AnnounceKeepsMemory
  <2> QED BY <1>1, <2>1, <2>2, SameCollect DEF IndInv
<1>5. ASSUME TypeOK', SameModels, running' \subseteq running,
             \A m \in Models : shm'[m].cycle \in {shm[m].cycle, NoCycle}
      PROVE  ClockInv' /\ MemoryInv'
  BY <1>2, <1>5, QuietClock, QuietMemory
<1>6. ASSUME NEW m \in Models, NEW how \in {"same", "moved"}, RequestReconfig(m, how)
      PROVE  IndInv'
  <2>1. TypeOK' /\ SameDc /\ SameModels /\ running' \subseteq running /\ shm' = shm
    BY <1>2, <1>6, RequestEffect
  <2>2. ClockInv' /\ MemoryInv'
    BY <1>5, <2>1
  <2> QED BY <1>1, <2>1, <2>2, SameCollect DEF IndInv, QuietStep
<1>7. ASSUME \/ \E m \in Models, g \in Selections : Select(m, g)
             \/ \E m \in Models : Stop(m)
      PROVE  IndInv'
  <2>1. TypeOK' /\ SameDc /\ SameModels /\ running' \subseteq running /\ shm' = shm
    BY <1>2, <1>7, OtherTypes
  <2>2. ClockInv' /\ MemoryInv'
    BY <1>5, <2>1
  <2> QED BY <1>1, <2>1, <2>2, SameCollect DEF IndInv, QuietStep
<1>8. ASSUME \/ DcStart \/ DcSeeIop \/ DcGiveUp \/ DcPolled
             \/ \E m \in Models : DcSeeModel(m)
      PROVE  IndInv'
  <2>1. TypeOK' /\ SameModels /\ running' \subseteq running
    BY <1>2, <1>8, DcTypes DEF feVars
  <2>2. \A m \in Models : shm'[m].cycle \in {shm[m].cycle, NoCycle}
    <3>1. CASE DcStart
      <4>1. ASSUME NEW m \in Models PROVE shm'[m].cycle = NoCycle
        <5>1. shm'[m] = [shm[m] EXCEPT !.cycle = NoCycle] /\ shm[m] \in Memories
          BY <1>2, <3>1, ClockType DEF DcStart
        <5> QED BY <5>1 DEF Memories
      <4> QED BY <4>1
    <3>2. CASE \/ DcSeeIop \/ DcGiveUp \/ DcPolled \/ \E m \in Models : DcSeeModel(m)
      BY <3>2 DEF DcSeeIop, DcGiveUp, DcPolled, DcSeeModel
    <3> QED BY <1>8, <3>1, <3>2
  <2>3. ClockInv' /\ MemoryInv'
    BY <1>5, <2>1, <2>2
  <2>4. CollectInv' /\ SliceInv' /\ SentInv'
    BY <1>1, <1>8, <2>1, StartKeeps, SeeIopKeeps, PolledKeeps, SeeModelKeeps
  <2> QED BY <2>1, <2>3, <2>4 DEF IndInv
<1>9. ASSUME DcHeader \/ DcCopy \/ DcSend PROVE IndInv'
  <2>1. TypeOK' /\ SameModels /\ running' \subseteq running /\ shm' = shm
    BY <1>2, <1>9, HeaderEffect, CopyEffect, SendEffect
  <2>2. ClockInv' /\ MemoryInv'
    BY <1>5, <2>1
  <2>3. CollectInv' /\ SliceInv' /\ SentInv'
    BY <1>1, <1>9, HeaderKeeps, CopyKeeps, SendKeeps
  <2> QED BY <2>1, <2>2, <2>3 DEF IndInv
<1>10. ASSUME UNCHANGED vars PROVE IndInv'
  <2>1. UNCHANGED <<running, fe, shm, gds, dpc, nextCycle, dataRdy, todo, header, seen,
                    slice, sent, selects, reconfigs>>
    BY <1>10 DEF vars, dcVars
  <2>2. TypeOK'
    BY <1>2, <2>1 DEF TypeOK
  <2>3. SameDc /\ SameModels /\ running' \subseteq running
    BY <2>1 DEF SameDc, SameModels, Clock, Written
  <2>4. ClockInv' /\ MemoryInv'
    BY <1>5, <2>1, <2>2, <2>3
  <2> QED BY <1>1, <2>2, <2>3, <2>4, SameCollect DEF IndInv, QuietStep
<1> QED BY <1>1, <1>3, <1>4, <1>6, <1>7, <1>8, <1>9, <1>10 DEF Next

-----------------------------------------------------------------------------
(* Theorems *)

\* The inductive invariant holds of every model count, block count and lag that
\* leaves two blocks of margin.
THEOREM DaqInvariance == Spec => []IndInv
  BY InitInv, NextInv, PTL DEF Spec

\* The tables, cycle words and slices of daqWrite and local_dc have their types.
THEOREM DaqTypes == Spec => []TypeOK
<1>1. IndInv => TypeOK
  BY DEF IndInv
<1> QED BY <1>1, DaqInvariance, PTL

\* A block that loadMessageBuffer copies is whole and is the one its header
\* gives, while the models go on writing, if local_dc is late by at most MaxLag
\* blocks.
THEOREM BlocksAreIntact == Spec => []BlockIntact
<1>1. IndInv => BlockIntact
  BY DEF IndInv, SentInv
<1> QED BY <1>1, DaqInvariance, PTL

\* The running models of a slice are of one time: waitNextCycle2 compares cycle
\* words only, which come back every second.
THEOREM SlicesAreOfOneTime == Spec => []RunningTogether
<1>1. IndInv => RunningTogether
  BY DEF IndInv, SentInv
<1> QED BY <1>1, DaqInvariance, PTL

\* No slice is sent twice, and none out of order.
THEOREM SlicesOnlyAdvance == Spec => SlicesAdvance
<1>1. IndInv /\ [Next]_vars => [sent' # sent => Iop(sent') > Iop(sent)]_vars
  <2>1. SUFFICES ASSUME IndInv, Next, sent' # sent PROVE Iop(sent') > Iop(sent)
    OBVIOUS
  <2>2. TypeOK /\ ClockInv
    BY <2>1 DEF IndInv
  <2>3. DcSend
    <3>1. ASSUME NEW m \in Models, Publish(m) PROVE sent' = sent
      BY <2>2, <3>1, PublishEffect DEF SameDc
    <3>2. ASSUME NEW m \in Models, Announce(m) PROVE sent' = sent
      BY <2>2, <3>2, AnnounceEffect DEF SameDc
    <3>3. ASSUME NEW m \in Models, NEW how \in {"same", "moved"}, RequestReconfig(m, how)
          PROVE  sent' = sent
      BY <2>2, <3>3, RequestEffect DEF SameDc
    <3>4. ASSUME \/ \E m \in Models, g \in Selections : Select(m, g)
                 \/ \E m \in Models : Stop(m)
          PROVE  sent' = sent
      BY <2>2, <3>4, OtherTypes DEF SameDc
    <3>5. ASSUME \/ DcStart \/ DcSeeIop \/ DcGiveUp \/ DcPolled \/ DcHeader \/ DcCopy
                 \/ \E m \in Models : DcSeeModel(m)
          PROVE  sent' = sent
      BY <3>5 DEF DcStart, DcSeeIop, DcGiveUp, DcPolled, DcHeader, DcCopy, DcSeeModel
    <3> QED BY <2>1, <3>1, <3>2, <3>3, <3>4, <3>5 DEF Next
  <2>4. Iop(sent) < Iop(sent') /\ Iop(sent') \in Int /\ Iop(sent) \in Int
    BY <2>1, <2>2, <2>3, SliceOfIop, IopType
  <2> QED BY <2>4
<1> QED BY <1>1, DaqInvariance, PTL DEF Spec, SlicesAdvance

-----------------------------------------------------------------------------
(* The labels of the columns *)

\* The model's labels depend on its tables and its memory only.
LEMMA SameLabels ==
    ASSUME NEW m \in Models, ModelLabels(m), fe'[m] = fe[m],
           shm'[m].count = shm[m].count, shm'[m].tpNum = shm[m].tpNum,
           shm'[m].data = shm[m].data
    PROVE  ModelLabels(m)'
<1>1. Clock(m)' = Clock(m)
  BY DEF Clock
<1>2. TablesInv(m)'
  BY <1>1 DEF ModelLabels, TablesInv, Block
<1>3. StoredInv(m)'
  BY <1>1 DEF ModelLabels, StoredInv, Block
<1>4. ColumnsInv(m)'
  BY <1>1 DEF ModelLabels, ColumnsInv, ColumnsOf, Block
<1> QED BY <1>2, <1>3, <1>4 DEF ModelLabels

\* The header is stored with the table that describes the data in memory.
LEMMA PublishLabels ==
    ASSUME IndInv, NEW m \in Models, ModelLabels(m), Publish(m)
    PROVE  ModelLabels(m)'
<1> DEFINE c == Clock(m)
<1>1. TypeOK
  BY DEF IndInv
<1>2. fe[m] \in FeStates /\ c \in Int /\ Clock(m)' = c /\ MaxTp \in Nat /\ Slots = 1..MaxTp
  BY <1>1, ClockType, PublishClock, SlotsFinite DEF Slots
<1>3. fe'[m] = [fe[m] EXCEPT !.pc = "announce"] /\ shm'[m].data = shm[m].data
      /\ shm'[m].count = fe[m].validTpNet
      /\ \A i \in Slots : shm'[m].tpNum[i] =
           IF i <= fe[m].validTp THEN fe[m].tpNumNet[i] ELSE shm[m].tpNum[i]
  BY <1>1, PublishEffect
<1>4. /\ fe'[m].reconfig = fe[m].reconfig /\ fe'[m].totalChans = fe[m].totalChans
      /\ fe'[m].validTp = fe[m].validTp /\ fe'[m].localTable = fe[m].localTable
      /\ fe'[m].tpNum = fe[m].tpNum /\ fe'[m].validTpNet = fe[m].validTpNet
      /\ fe'[m].tpNumNet = fe[m].tpNumNet
  BY <1>2, <1>3 DEF FeStates
<1>5. TablesInv(m)'
  BY <1>2, <1>4 DEF ModelLabels, TablesInv, Block
<1>6. ColumnsInv(m)'
  BY <1>2, <1>3, <1>4 DEF ModelLabels, ColumnsInv, ColumnsOf, Block
<1>7. fe[m].validTpNet \in 0..MaxTp /\ fe[m].validTp \in 0..MaxTp
  BY <1>2 DEF FeStates
<1>8. ASSUME NEW i \in 1..fe[m].validTpNet PROVE shm'[m].tpNum[i] = fe[m].tpNumNet[i]
  <2>1. i \in Slots /\ i \in Int
    BY <1>2, <1>7
  <2>2. CASE i <= fe[m].validTp
    BY <1>3, <2>1, <2>2
  <2>3. CASE ~(i <= fe[m].validTp)
    <3>1. Block(c) = 0
      BY <1>7, <2>1, <2>3 DEF ModelLabels, TablesInv
    <3>2. Block(c - 1) # 0
      <4>1. c - 1 \in Int /\ c - 1 + 1 = c
        BY <1>2
      <4> QED BY <3>1, <4>1, PlaceZero
    <3>3. shm[m].tpNum[i] = fe[m].tpNumNet[i]
      BY <3>2 DEF ModelLabels, StoredInv
    <3> QED BY <1>3, <2>1, <2>3, <3>3
  <2> QED BY <2>2, <2>3
<1>9. StoredInv(m)'
  BY <1>3, <1>4, <1>8 DEF StoredInv
<1> QED BY <1>5, <1>6, <1>9 DEF ModelLabels

\* As long as no configuration is loaded, only the check at the end of a second
\* changes the table in use and only the first block changes the network's.
LEMMA TablesAfter ==
    ASSUME NEW s \in FeStates, NEW g \in Selections, NEW x \in Places, NEW n,
           n = EndOfBlock(s, x, g), s.reconfig = "no", s.totalChans = s.validTp,
           s.localTable = s.tpNum
    PROVE  /\ x = 0 => /\ n.validTpNet = n.validTp
                       /\ \A i \in 1..n.validTp : n.tpNumNet[i] = n.tpNum[i]
           /\ x # 0 => n.tpNumNet = s.tpNumNet /\ n.validTpNet = s.validTpNet
           /\ x # NB - 1 => n.tpNum = s.tpNum /\ n.validTp = s.validTp
           /\ n.reconfig = "no" /\ n.totalChans = n.validTp /\ n.localTable = n.tpNum
  BY EndOfBlockIs

\* Two consecutive blocks have different places.
LEMMA NextBlock ==
    ASSUME NEW t \in Int
    PROVE  /\ t + 1 \in Int /\ Block(t + 1) # Block(t)
           /\ Block(t) \in Places /\ Block(t + 1) \in Places
<1>1. NB \in Nat /\ NB >= 3 /\ t + 1 \in Int
  BY BlockPlace
<1>2. t - (t + 1) < NB /\ (t + 1) - t < NB /\ t # t + 1
  BY <1>1
<1> QED BY <1>1, <1>2, BlockPlace

\* The table in use may change at the end of a second, the one of the network
\* follows after the next block; the data of the blocks between have it.
LEMMA AnnounceLabels ==
    ASSUME IndInv, NEW m \in Models, ModelLabels(m), Announce(m)
    PROVE  ModelLabels(m)'
<1> DEFINE c == Clock(m)
           x == Block(Clock(m))
           s == EndOfBlock(fe[m], Block(Clock(m)), gds[m])
           d == [time |-> Clock(m) + 1,
                 cols |-> [i \in Slots |-> IF i <= s.totalChans
                                           THEN s.localTable[i] ELSE Unwritten]]
<1>1. TypeOK /\ ClockInv
  BY DEF IndInv
<1>2. /\ fe[m] \in FeStates /\ gds[m] \in Selections /\ shm[m] \in Memories
      /\ c \in Int /\ c >= 0 /\ x \in Places
      /\ Clock(m)' = c + 1 /\ MaxTp \in Nat /\ Slots = 1..MaxTp
  BY <1>1, ClockType, AnnounceClock, SlotsFinite, BlockPlace DEF Slots
<1>3. /\ fe'[m] = [s EXCEPT !.pc = "fill", !.t = Clock(m) + 1]
      /\ s \in FeStates /\ fe[m].pc = "announce"
      /\ shm'[m].count = shm[m].count /\ shm'[m].tpNum = shm[m].tpNum
      /\ shm'[m].data = [shm[m].data EXCEPT ![Block(c + 1)] = d]
  BY <1>1, AnnounceEffect
<1>4. /\ x = 0 => /\ s.validTpNet = s.validTp
                  /\ \A i \in 1..s.validTp : s.tpNumNet[i] = s.tpNum[i]
      /\ x # 0 => s.tpNumNet = fe[m].tpNumNet /\ s.validTpNet = fe[m].validTpNet
      /\ x # NB - 1 => s.tpNum = fe[m].tpNum /\ s.validTp = fe[m].validTp
      /\ s.reconfig = "no" /\ s.totalChans = s.validTp /\ s.localTable = s.tpNum
  <2>1. fe[m].reconfig = "no" /\ fe[m].totalChans = fe[m].validTp
        /\ fe[m].localTable = fe[m].tpNum
    BY DEF ModelLabels, TablesInv
  <2>2. s = EndOfBlock(fe[m], x, gds[m])
    OBVIOUS
  <2> HIDE DEF s, x
  <2> QED BY <1>2, <2>1, <2>2, TablesAfter
<1>5. d.cols = [i \in Slots |-> IF i <= s.totalChans THEN s.localTable[i] ELSE Unwritten]
  OBVIOUS
<1>6. x = Block(c)
  OBVIOUS
<1> HIDE DEF s, d, x
<1>7. /\ fe'[m].reconfig = s.reconfig /\ fe'[m].totalChans = s.totalChans
      /\ fe'[m].validTp = s.validTp /\ fe'[m].localTable = s.localTable
      /\ fe'[m].tpNum = s.tpNum /\ fe'[m].validTpNet = s.validTpNet
      /\ fe'[m].tpNumNet = s.tpNumNet /\ fe'[m].pc = "fill"
  BY <1>3 DEF FeStates
<1>8. Block(c + 1) # 0 => /\ s.validTpNet = s.validTp
                          /\ \A i \in 1..s.validTp : s.tpNumNet[i] = s.tpNum[i]
  <2>1. ASSUME Block(c + 1) # 0, x # 0
        PROVE  /\ s.validTpNet = s.validTp
               /\ \A i \in 1..s.validTp : s.tpNumNet[i] = s.tpNum[i]
    <3>1. x # NB - 1
      BY <1>2, <1>6, <2>1, PlaceZero
    <3>2. /\ fe[m].validTpNet = fe[m].validTp
          /\ \A i \in 1..fe[m].validTp : fe[m].tpNumNet[i] = fe[m].tpNum[i]
      BY <1>6, <2>1 DEF ModelLabels, TablesInv
    <3> QED BY <1>4, <2>1, <3>1, <3>2
  <2> QED BY <1>4, <2>1
<1>9. TablesInv(m)'
  BY <1>2, <1>4, <1>7, <1>8 DEF TablesInv, Block
<1>10. StoredInv(m)'
  <2>1. Clock(m)' - 1 = c
    BY <1>2
  <2>2. /\ shm[m].count = fe[m].validTpNet
        /\ \A i \in 1..fe[m].validTpNet : shm[m].tpNum[i] = fe[m].tpNumNet[i]
    BY <1>3 DEF ModelLabels, StoredInv
  <2>3. Block(c) # 0 => /\ shm'[m].count = fe'[m].validTpNet
                        /\ \A i \in 1..fe'[m].validTpNet :
                             shm'[m].tpNum[i] = fe'[m].tpNumNet[i]
    BY <1>3, <1>4, <1>6, <1>7, <2>2
  <2>4. fe'[m].pc # "announce"
    BY <1>7
  <2> QED BY <2>1, <2>3, <2>4 DEF StoredInv, Block
<1>11. ColumnsInv(m)'
  <2>1. Block(c + 1) \in Places /\ Block(c) \in Places /\ c + 1 \in Int
        /\ shm[m].data \in [Places -> BlockData]
    <3>1. shm[m].data \in [Places -> BlockData]
      BY <1>2 DEF Memories
    <3> QED BY <1>2, <3>1, NextBlock
  <2>2. ASSUME Block(c + 1) # 0, NEW i \in Slots
        PROVE  shm'[m].data[Block(c + 1)].cols[i] =
                 IF i <= s.validTpNet THEN s.tpNumNet[i] ELSE Unwritten
    <3>1. shm'[m].data[Block(c + 1)].cols = d.cols
      BY <1>3, <2>1
    <3>2. d.cols[i] = IF i <= s.validTp THEN s.tpNum[i] ELSE Unwritten
      BY <1>4, <1>5
    <3>3. i <= s.validTp => i \in 1..s.validTp
      <4>1. s.validTp \in 0..MaxTp
        BY <1>3 DEF FeStates
      <4> QED BY <1>2, <4>1
    <3> QED BY <1>8, <2>2, <3>1, <3>2, <3>3
  <2>3. ASSUME c > 0, Block(c) # 0, NEW i \in Slots
        PROVE  shm'[m].data[Block(c)].cols[i] =
                 IF i <= s.validTpNet THEN s.tpNumNet[i] ELSE Unwritten
    <3>1. Block(c) # Block(c + 1)
      BY <1>2, NextBlock
    <3>2. shm'[m].data[Block(c)] = shm[m].data[Block(c)]
      BY <1>3, <2>1, <3>1
    <3>3. shm[m].data[Block(c)].cols[i] =
            IF i <= fe[m].validTpNet THEN fe[m].tpNumNet[i] ELSE Unwritten
      BY <2>3 DEF ModelLabels, ColumnsInv, ColumnsOf
    <3> QED BY <1>4, <1>6, <2>3, <3>2, <3>3
  <2>4. PICK k \in Int : k = c
    BY <1>2
  <2>5. Clock(m)' = k + 1 /\ Clock(m)' - 1 = k
    BY <1>2, <2>4
  <2>6. ASSUME Block(k + 1) # 0 PROVE ColumnsOf(m, k + 1)'
    BY <1>7, <2>2, <2>4, <2>6 DEF ColumnsOf, Block
  <2>7. ASSUME k > 0, Block(k) # 0 PROVE ColumnsOf(m, k)'
    BY <1>7, <2>3, <2>4, <2>7 DEF ColumnsOf, Block
  <2>8. ASSUME NEW u \in {k, k + 1}, u > 0, Block(u) # 0 PROVE ColumnsOf(m, u)'
    BY <2>6, <2>7, <2>8
  <2>9. \A u \in {Clock(m)' - 1, Clock(m)'} : u > 0 /\ Block(u) # 0 => ColumnsOf(m, u)'
    BY <2>5, <2>8
  <2> QED BY <2>9 DEF ColumnsInv, Block
<1> QED BY <1>9, <1>10, <1>11 DEF ModelLabels

\* An unwritten column counts as no signal.
LEMMA NotBelowZero ==
    ASSUME NEW v \in Int
    PROVE  (v >= 0 => Max({0, v}) = v) /\ (v <= 0 => Max({0, v}) = 0)
<1> DEFINE P(x) == x \in {0, v} /\ \A y \in {0, v} : x >= y
<1>1. Max({0, v}) = CHOOSE x : P(x)
  BY DEF Max
<1>2. P(IF v >= 0 THEN v ELSE 0)
  OBVIOUS
<1>3. P(CHOOSE x : P(x))
  BY <1>2
<1>4. P(Max({0, v}))
  BY <1>1, <1>3
<1> QED BY <1>4

\* A model whose cycle word is that of the slice has the labels of that block.
LEMMA LabelsOfBlock ==
    ASSUME IndInv, NEW m \in Models, ModelLabels(m), CycleIs(m), nextCycle # 0
    PROVE  \A i \in Slots :
             Max({0, shm[m].data[nextCycle].cols[i]}) =
               IF i \in 1..shm[m].count THEN shm[m].tpNum[i] ELSE 0
<1>1. PICK c \in Int : c = Clock(m)
  BY ClockType DEF IndInv
<1>2. c > 0 /\ Block(c - 1) = nextCycle /\ c - 1 \in Int
  BY <1>1, CycleSeen
<1>3. c - 1 > 0
  <2>1. Block(0) = 0
    BY BlockPlace DEF Block
  <2>2. c - 1 # 0
    BY <1>2, <2>1
  <2> QED BY <1>1, <1>2, <2>2
<1>4. ColumnsOf(m, c - 1)
  BY <1>1, <1>2, <1>3 DEF ModelLabels, ColumnsInv
<1>5. /\ shm[m].count = fe[m].validTpNet
      /\ \A i \in 1..fe[m].validTpNet : shm[m].tpNum[i] = fe[m].tpNumNet[i]
  BY <1>1, <1>2 DEF ModelLabels, StoredInv
<1>6. fe[m] \in FeStates
  BY ClockType DEF IndInv
<1>7. fe[m].validTpNet \in Int /\ fe[m].tpNumNet \in [Slots -> Nat]
      /\ MaxTp \in Nat /\ Slots = 1..MaxTp
  <2>1. MaxTp \in Nat /\ Slots = 1..MaxTp
    BY SlotsFinite DEF Slots
  <2>2. fe[m].validTpNet \in 0..MaxTp /\ fe[m].tpNumNet \in [Slots -> Nat]
    BY <1>6 DEF FeStates
  <2> QED BY <2>1, <2>2
<1>8. TAKE i \in Slots
<1>9. shm[m].data[nextCycle].cols[i] =
        IF i <= fe[m].validTpNet THEN fe[m].tpNumNet[i] ELSE -1
  BY <1>2, <1>4 DEF ColumnsOf, Unwritten
<1>10. i \in Int /\ i >= 1 /\ fe[m].tpNumNet[i] \in Nat
  BY <1>7
<1>11. CASE i <= fe[m].validTpNet
  <2>1. i \in 1..fe[m].validTpNet
    BY <1>7, <1>10, <1>11
  <2>2. Max({0, fe[m].tpNumNet[i]}) = fe[m].tpNumNet[i]
    BY <1>10, NotBelowZero
  <2> QED BY <1>5, <1>9, <1>11, <2>1, <2>2
<1>12. CASE ~(i <= fe[m].validTpNet)
  <2>1. i \notin 1..fe[m].validTpNet
    BY <1>7, <1>12
  <2>2. Max({0, -1}) = 0
    BY NotBelowZero
  <2> QED BY <1>5, <1>9, <1>12, <2>1, <2>2
<1> QED BY <1>11, <1>12

\* The header of the next model is labelled.
LEMMA HeaderGetsLabels ==
    ASSUME IndInv, DcHeader, \A m \in Models : ModelLabels(m)
    PROVE  HeaderLabels'
<1>1. TypeOK
  BY DEF IndInv
<1>2. /\ header' \in Headers /\ UNCHANGED <<shm, nextCycle>>
      /\ header'.cycle = shm[header'.dcu].cycle
      /\ header'.tpNum = [i \in 1..shm[header'.dcu].count |-> shm[header'.dcu].tpNum[i]]
  BY <1>1, HeaderEffect
<1>3. PICK m \in Models : m = header'.dcu
  BY <1>2 DEF Headers
<1> DEFINE e == [header |-> header, data |-> shm[header.dcu].data[nextCycle]]
<1>4. e'.header = header' /\ e'.data = shm[m].data[nextCycle]
  BY <1>2, <1>3
<1>5. ASSUME header'.cycle = nextCycle, nextCycle # 0, NEW i \in Slots
      PROVE  Label(e', i) = Signal(e', i)
  <2>1. CycleIs(m)
    BY <1>2, <1>3, <1>5 DEF CycleIs
  <2>2. Max({0, shm[m].data[nextCycle].cols[i]}) =
          IF i \in 1..shm[m].count THEN shm[m].tpNum[i] ELSE 0
    BY <1>5, <2>1, LabelsOfBlock
  <2>3. DOMAIN header'.tpNum = 1..shm[m].count
        /\ \A j \in 1..shm[m].count : header'.tpNum[j] = shm[m].tpNum[j]
    BY <1>2, <1>3
  <2> HIDE DEF e
  <2>4. Signal(e', i) = Max({0, shm[m].data[nextCycle].cols[i]})
    BY <1>4 DEF Signal
  <2>5. Label(e', i) = IF i \in 1..shm[m].count THEN shm[m].tpNum[i] ELSE 0
    BY <1>4, <2>3 DEF Label
  <2> QED BY <2>2, <2>4, <2>5
<1>6. Labelled(e', nextCycle')
  <2>1. nextCycle' = nextCycle
    BY <1>2
  <2> HIDE DEF e
  <2> QED BY <1>4, <1>5, <2>1 DEF Labelled, LabelsOf
<1> QED BY <1>6 DEF HeaderLabels, Labelled, LabelsOf, Label, Signal

\* The block that a header speaks of is not written before its data are copied.
LEMMA DueDataStay ==
    ASSUME IndInv, ModelStep, header # NoHeader
    PROVE  shm'[header.dcu].data[nextCycle] = shm[header.dcu].data[nextCycle]
<1>1. TypeOK /\ ClockInv /\ CollectInv
  BY DEF IndInv
<1>2. PICK h \in Models : h = header.dcu
  BY <1>1 DEF TypeOK, Headers
<1>3. PICK r \in Int : Block(r) = nextCycle /\ r < Clock(h) /\ Written(h) < r + NB
  <2>1. header.time \in Int
    BY <1>1 DEF TypeOK, Headers
  <2>2. Due(h, header.time)
    BY <1>1, <1>2 DEF CollectInv
  <2> QED BY <2>1, <2>2 DEF Due
<1>4. ASSUME NEW m \in Models, Publish(m)
      PROVE  shm'[h].data[nextCycle] = shm[h].data[nextCycle]
  BY <1>1, <1>4, PublishEffect
<1>5. ASSUME NEW m \in Models, Announce(m)
      PROVE  shm'[h].data[nextCycle] = shm[h].data[nextCycle]
  <2>1. CASE h # m
    BY <1>1, <1>5, <2>1, AnnounceEffect
  <2>2. CASE h = m
    <3>1. PICK d : shm'[m].data = [shm[m].data EXCEPT ![Block(Clock(m) + 1)] = d]
      BY <1>1, <1>5, AnnounceEffect
    <3>2. Clock(m) \in Int /\ Clock(m) + 1 \in Int /\ Written(m) = Clock(m) + 1
      BY <1>1, <1>5, ClockType, AnnounceClock
    <3>3. Block(Clock(m) + 1) # nextCycle
      <4>1. Clock(m) + 1 - r < NB /\ r - (Clock(m) + 1) < NB /\ Clock(m) + 1 # r
        BY <1>3, <2>2, <3>2, BlockPlace
      <4> QED BY <1>3, <3>2, <4>1, BlockPlace
    <3>4. shm[m].data \in [Places -> BlockData] /\ nextCycle \in Places
      <4>1. shm[m] \in Memories
        BY <1>1, ClockType
      <4> QED BY <1>1, <4>1 DEF Memories, TypeOK
    <3> QED BY <2>2, <3>1, <3>3, <3>4
  <2> QED BY <2>1, <2>2
<1> QED BY <1>2, <1>4, <1>5 DEF ModelStep

\* A step that leaves local_dc alone, and the data it has to copy, keeps labels.
LEMMA SameDcLabels ==
    ASSUME SameDc, HeaderLabels, SliceLabels, SentLabels,
           header # NoHeader =>
             shm'[header.dcu].data[nextCycle] = shm[header.dcu].data[nextCycle]
    PROVE  HeaderLabels' /\ SliceLabels' /\ SentLabels'
<1>1. UNCHANGED <<dpc, nextCycle, header, slice, sent>>
  BY DEF SameDc
<1>2. HeaderLabels'
  <2>1. ASSUME header # NoHeader
        PROVE  [header |-> header, data |-> shm[header.dcu].data[nextCycle]]' =
               [header |-> header, data |-> shm[header.dcu].data[nextCycle]]
    BY <1>1, <2>1
  <2> QED BY <1>1, <2>1 DEF HeaderLabels, Labelled, LabelsOf, Label, Signal
<1>3. SliceLabels'
  BY <1>1 DEF SliceLabels, Labelled, LabelsOf, Label, Signal
<1>4. SentLabels'
  BY <1>1 DEF SentLabels, SentModels, Labelled, LabelsOf, Label, Signal
<1> QED BY <1>2, <1>3, <1>4

\* The copied entry takes over the labels of its header.
LEMMA CopyLabels ==
    ASSUME IndInv, DcCopy, HeaderLabels, SliceLabels, SentLabels
    PROVE  HeaderLabels' /\ SliceLabels' /\ SentLabels'
<1> DEFINE e == [header |-> header, data |-> shm[header.dcu].data[nextCycle],
                 fresh |-> header.dcu \in running]
           f == [header |-> header, data |-> shm[header.dcu].data[nextCycle]]
<1>1. TypeOK /\ CollectInv
  BY DEF IndInv
<1>2. /\ header # NoHeader /\ header' = NoHeader
      /\ e \in Entries /\ slice' = Append(slice, e)
      /\ UNCHANGED <<dpc, nextCycle, sent>>
  BY <1>1, CopyEffect
<1>3. dpc = "load"
  BY <1>1, <1>2 DEF CollectInv
<1>4. e.header = f.header /\ e.data = f.data
  OBVIOUS
<1>5. Labelled(f, nextCycle)
  BY <1>2 DEF HeaderLabels
<1> HIDE DEF e, f
<1>6. Labelled(e, nextCycle)
  BY <1>4, <1>5 DEF Labelled, LabelsOf, Label, Signal
<1>7. ASSUME NEW i \in DOMAIN slice' PROVE Labelled(slice'[i], nextCycle')
  <2>1. slice \in Seq(Entries)
    BY <1>1 DEF TypeOK
  <2>2. \/ i \in DOMAIN slice /\ slice'[i] = slice[i]
        \/ slice'[i] = e
    BY <1>2, <2>1
  <2> QED BY <1>2, <1>3, <1>6, <2>2 DEF SliceLabels
<1>8. SliceLabels'
  BY <1>7 DEF SliceLabels, Labelled, LabelsOf, Label, Signal
<1>9. HeaderLabels' /\ SentLabels'
  BY <1>2 DEF HeaderLabels, SentLabels, SentModels, Labelled, LabelsOf, Label, Signal
<1> QED BY <1>8, <1>9

\* The slice that is announced is labelled.
LEMMA SendLabels ==
    ASSUME IndInv, DcSend, SliceLabels
    PROVE  HeaderLabels' /\ SliceLabels' /\ SentLabels'
<1>1. /\ dpc = "load" /\ header = NoHeader /\ header' = header /\ dpc' = "wait"
      /\ sent'.curCycle = nextCycle /\ sent'.models = slice
  BY SendEffect DEF IndInv
<1>2. HeaderLabels' /\ SliceLabels'
  BY <1>1 DEF HeaderLabels, SliceLabels
<1>3. ASSUME NEW e \in SentModels' PROVE Labelled(e, sent'.curCycle)
  <2>1. PICK i \in DOMAIN slice : e = slice[i]
    BY <1>1 DEF SentModels
  <2> QED BY <1>1, <2>1 DEF SliceLabels
<1>4. SentLabels'
  BY <1>3 DEF SentLabels, Labelled, LabelsOf, Label, Signal
<1> QED BY <1>2, <1>4

\* The labels are right when the models start: there are none.
LEMMA InitLabels == Init => LabelInv
<1>1. SUFFICES ASSUME Init PROVE LabelInv
  OBVIOUS
<1>2. ASSUME NEW m \in Models PROVE ModelLabels(m)
  <2>1. /\ fe[m].reconfig = "no" /\ fe[m].totalChans = 0 /\ fe[m].validTp = 0
        /\ fe[m].localTable = fe[m].tpNum /\ fe[m].validTpNet = 0 /\ Clock(m) = 0
        /\ shm[m].count = 0
    BY <1>1, <1>2 DEF Init, Clock
  <2>2. TablesInv(m) /\ StoredInv(m)
    BY <2>1 DEF TablesInv, StoredInv
  <2>3. ColumnsInv(m)
    BY <2>1 DEF ColumnsInv
  <2> QED BY <2>2, <2>3 DEF ModelLabels
<1>3. HeaderLabels /\ SliceLabels /\ SentLabels
  BY <1>1 DEF Init, HeaderLabels, SliceLabels, SentLabels, SentModels
<1> QED BY <1>2, <1>3 DEF LabelInv

\* Every step keeps the labels right, or loads a configuration.
LEMMA NextLabels == IndInv /\ LabelInv /\ [Next]_vars => LabelInv'
<1>1. SUFFICES ASSUME IndInv, LabelInv, [Next]_vars, reconfigs' = 0
               PROVE  /\ \A m \in Models : ModelLabels(m)'
                      /\ HeaderLabels' /\ SliceLabels' /\ SentLabels'
  BY DEF LabelInv
<1>2. TypeOK /\ ClockInv /\ MemoryInv /\ CollectInv
  BY <1>1 DEF IndInv
<1>3. ASSUME reconfigs = 0
      PROVE  /\ \A m \in Models : ModelLabels(m)
             /\ HeaderLabels /\ SliceLabels /\ SentLabels
  BY <1>1, <1>3 DEF LabelInv
<1>4. ASSUME reconfigs = 0, fe' = fe,
             \A m \in Models : /\ shm'[m].count = shm[m].count
                               /\ shm'[m].tpNum = shm[m].tpNum
                               /\ shm'[m].data = shm[m].data
      PROVE  \A m \in Models : ModelLabels(m)'
  BY <1>3, <1>4, SameLabels
<1> DEFINE Goal == /\ \A m \in Models : ModelLabels(m)'
                   /\ HeaderLabels' /\ SliceLabels' /\ SentLabels'
<1>5. ASSUME NEW m \in Models, Publish(m) PROVE Goal
  <2>1. SameDc /\ reconfigs = 0
        /\ \A n \in Models : n # m => fe'[n] = fe[n] /\ shm'[n] = shm[n]
    BY <1>1, <1>2, <1>5, PublishEffect
  <2>2. ASSUME NEW n \in Models PROVE ModelLabels(n)'
    BY <1>1, <1>3, <1>5, <2>1, PublishLabels, SameLabels
  <2>3. HeaderLabels' /\ SliceLabels' /\ SentLabels'
    BY <1>1, <1>3, <1>5, <2>1, DueDataStay, SameDcLabels DEF ModelStep
  <2> QED BY <2>2, <2>3
<1>6. ASSUME NEW m \in Models, Announce(m) PROVE Goal
  <2>1. SameDc /\ reconfigs = 0
        /\ \A n \in Models : n # m => fe'[n] = fe[n] /\ shm'[n] = shm[n]
    BY <1>1, <1>2, <1>6, AnnounceEffect
  <2>2. ASSUME NEW n \in Models PROVE ModelLabels(n)'
    BY <1>1, <1>3, <1>6, <2>1, AnnounceLabels, SameLabels
  <2>3. HeaderLabels' /\ SliceLabels' /\ SentLabels'
    BY <1>1, <1>3, <1>6, <2>1, DueDataStay, SameDcLabels DEF ModelStep
  <2> QED BY <2>2, <2>3
<1>7. ASSUME NEW m \in Models, NEW how \in {"same", "moved"}, RequestReconfig(m, how)
      PROVE  FALSE
  BY <1>1, <1>2, <1>7 DEF RequestReconfig, TypeOK
<1>8. ASSUME \/ \E m \in Models, g \in Selections : Select(m, g)
             \/ \E m \in Models : Stop(m)
      PROVE  Goal
  <2>1. SameDc /\ fe' = fe /\ shm' = shm /\ reconfigs = 0
    BY <1>1, <1>2, <1>8, OtherTypes
  <2> QED BY <1>3, <1>4, <2>1, SameDcLabels
<1>9. ASSUME \/ DcStart \/ DcSeeIop \/ DcGiveUp \/ DcPolled
             \/ \E m \in Models : DcSeeModel(m)
      PROVE  Goal
  <2>1. fe' = fe /\ reconfigs' = reconfigs /\ UNCHANGED <<header, nextCycle, sent>>
    BY <1>9 DEF DcStart, DcSeeIop, DcGiveUp, DcPolled, DcSeeModel, feVars
  <2>2. ASSUME NEW m \in Models
        PROVE  /\ shm'[m].count = shm[m].count /\ shm'[m].tpNum = shm[m].tpNum
               /\ shm'[m].data = shm[m].data
    <3>1. CASE DcStart
      <4>1. shm'[m] = [shm[m] EXCEPT !.cycle = NoCycle] /\ shm[m] \in Memories
        BY <1>2, <3>1, ClockType DEF DcStart
      <4> QED BY <4>1 DEF Memories
    <3>2. CASE \/ DcSeeIop \/ DcGiveUp \/ DcPolled \/ \E n \in Models : DcSeeModel(n)
      BY <3>2 DEF DcSeeIop, DcGiveUp, DcPolled, DcSeeModel
    <3> QED BY <1>9, <3>1, <3>2
  <2>3. header = NoHeader /\ header' = NoHeader
    <3>1. dpc # "load"
      BY <1>9 DEF DcStart, DcSeeIop, DcGiveUp, DcPolled, DcSeeModel
    <3> QED BY <1>2, <2>1, <3>1 DEF CollectInv
  <2>4. SliceLabels'
    <3>1. dpc' = "load" => slice' = <<>>
      BY <1>9 DEF DcStart, DcSeeIop, DcGiveUp, DcPolled, DcSeeModel
    <3> QED BY <3>1 DEF SliceLabels
  <2>5. SentLabels'
    BY <1>1, <1>3, <2>1 DEF SentLabels, SentModels, Labelled, LabelsOf, Label, Signal
  <2>6. HeaderLabels'
    BY <2>3 DEF HeaderLabels
  <2> QED BY <1>1, <1>4, <2>1, <2>2, <2>4, <2>5, <2>6
<1>10. ASSUME DcHeader PROVE Goal
  <2>1. fe' = fe /\ shm' = shm /\ reconfigs = 0
        /\ UNCHANGED <<dpc, nextCycle, slice, sent>>
    BY <1>1, <1>2, <1>10, HeaderEffect
  <2>2. HeaderLabels'
    BY <1>1, <1>3, <1>10, <2>1, HeaderGetsLabels
  <2>3. SliceLabels' /\ SentLabels'
    BY <1>3, <2>1 DEF SliceLabels, SentLabels, SentModels, Labelled, LabelsOf, Label, Signal
  <2> QED BY <1>4, <2>1, <2>2, <2>3
<1>11. ASSUME DcCopy PROVE Goal
  <2>1. fe' = fe /\ shm' = shm /\ reconfigs = 0
    BY <1>1, <1>2, <1>11, CopyEffect
  <2> QED BY <1>1, <1>3, <1>4, <1>11, <2>1, CopyLabels
<1>12. ASSUME DcSend PROVE Goal
  <2>1. fe' = fe /\ shm' = shm /\ reconfigs = 0
    BY <1>1, <1>2, <1>12, SendEffect
  <2> QED BY <1>1, <1>3, <1>4, <1>12, <2>1, SendLabels
<1>13. ASSUME UNCHANGED vars PROVE Goal
  <2>1. SameDc /\ fe' = fe /\ shm' = shm /\ reconfigs = 0
    BY <1>1, <1>13 DEF vars, dcVars, SameDc
  <2> QED BY <1>3, <1>4, <2>1, SameDcLabels
<1> QED BY <1>1, <1>5, <1>6, <1>7, <1>8, <1>9, <1>10, <1>11, <1>12, <1>13 DEF Next

\* Until a configuration is loaded anew, the numbers that the header of a block
\* gives name the signals of its columns, although daqWrite changes its tables
\* and the memory that local_dc reads them from at different times.
THEOREM LabelsAreRight == Spec => []LabelsMatch
<1>1. Init => IndInv /\ LabelInv
  BY InitInv, InitLabels
<1>2. IndInv /\ LabelInv /\ [Next]_vars => IndInv' /\ LabelInv'
  BY NextInv, NextLabels
<1>3. LabelInv => LabelsMatch
  BY DEF LabelInv, SentLabels, Labelled, LabelsMatch
<1> QED BY <1>1, <1>2, <1>3, PTL DEF Spec

-----------------------------------------------------------------------------
(* The table of test points *)

\* A number in the table after a check is one that was kept, or one from the
\* place of a list that the rank of its slot gives.
LEMMA NumberCases ==
    ASSUME NEW s \in FeStates, NEW g \in Selections, NEW i \in Slots
    PROVE  \/ /\ i \in Kept(s, g) /\ Number(s, g, i) = s.tpNum[i]
              /\ Number(s, g, i) # 0 /\ ~GetsExc(s, g, i)
              /\ InTheLists(g, s.tpNum[i], s.offset[i])
           \/ /\ i \notin Kept(s, g) /\ GetsTp(s, g, i) /\ ~GetsExc(s, g, i)
              /\ TpPlace(s, g, i) \in New(s, g, g.tp)
              /\ Number(s, g, i) = g.tp[TpPlace(s, g, i)] /\ Number(s, g, i) # 0
           \/ /\ i \notin Kept(s, g) /\ GetsExc(s, g, i) /\ ~GetsTp(s, g, i)
              /\ ExcPlace(s, g, i) \in New(s, g, g.exc)
              /\ Number(s, g, i) = g.exc[ExcPlace(s, g, i)] /\ Number(s, g, i) # 0
           \/ /\ i \notin Kept(s, g) /\ Number(s, g, i) = 0
              /\ ~GetsTp(s, g, i) /\ ~GetsExc(s, g, i)
<1>1. ~(GetsTp(s, g, i) /\ GetsExc(s, g, i))
  <2>1. TpCount(s, g) \in Nat /\ Cardinality(New(s, g, g.exc)) \in Nat
        /\ (i \notin Kept(s, g) => FreeRank(s, g, i) \in 1..Cardinality(Slots \ Kept(s, g)))
    BY NewPlaces
  <2> QED BY <2>1 DEF GetsTp, GetsExc
<1>2. CASE i \in Kept(s, g)
  BY <1>2 DEF Number, Kept, GetsExc
<1>3. CASE i \notin Kept(s, g) /\ GetsTp(s, g, i)
  <2>1. TpPlace(s, g, i) \in New(s, g, g.tp)
    BY <1>3, NewPlaces
  <2> QED BY <1>1, <1>3, <2>1 DEF Number, New
<1>4. CASE i \notin Kept(s, g) /\ GetsExc(s, g, i)
  <2>1. ExcPlace(s, g, i) \in New(s, g, g.exc)
    BY <1>4, NewPlaces
  <2> QED BY <1>1, <1>4, <2>1 DEF Number, New
<1>5. CASE i \notin Kept(s, g) /\ ~GetsTp(s, g, i) /\ ~GetsExc(s, g, i)
  BY <1>5 DEF Number
<1> QED BY <1>2, <1>3, <1>4, <1>5

\* What is new is in a list, and no slot keeps it.
LEMMA NewIs ==
    ASSUME NEW s, NEW g, NEW list, NEW p \in New(s, g, list)
    PROVE  p \in Slots /\ list[p] # 0 /\ \A k \in Kept(s, g) : s.tpNum[k] # list[p]
  BY DEF New

\* Nothing is in the table that is not selected.
LEMMA CheckWants ==
    ASSUME NEW s \in FeStates, NEW g \in Selections, NEW i \in Slots,
           Number(s, g, i) # 0
    PROVE  Number(s, g, i) \in Want(g)
<1>1. s.offset[i] \in Slots
  BY DEF FeStates
<1>2. CASE InTheLists(g, s.tpNum[i], s.offset[i]) /\ Number(s, g, i) = s.tpNum[i]
  BY <1>1, <1>2 DEF InTheLists, Want
<1>3. CASE TpPlace(s, g, i) \in New(s, g, g.tp) /\ Number(s, g, i) = g.tp[TpPlace(s, g, i)]
  BY <1>3, NewIs DEF Want
<1>4. CASE ExcPlace(s, g, i) \in New(s, g, g.exc)
           /\ Number(s, g, i) = g.exc[ExcPlace(s, g, i)]
  BY <1>4, NewIs DEF Want
<1> QED BY <1>2, <1>3, <1>4, NumberCases

\* The places that two slots get from one list are different.
LEMMA PlacesDiffer ==
    ASSUME NEW s, NEW g, NEW i \in Slots, NEW j \in Slots,
           \/ GetsTp(s, g, i) /\ GetsTp(s, g, j) /\ TpPlace(s, g, i) = TpPlace(s, g, j)
           \/ GetsExc(s, g, i) /\ GetsExc(s, g, j) /\ ExcPlace(s, g, i) = ExcPlace(s, g, j)
    PROVE  i = j
<1> DEFINE K == Slots \ Kept(s, g)
<1>1. K \in SUBSET Slots /\ i \in K /\ j \in K
  BY DEF GetsTp, GetsExc
<1>2. FreeRank(s, g, i) \in Int /\ FreeRank(s, g, j) \in Int /\ TpCount(s, g) \in Int
  <2>1. FreeRank(s, g, i) \in 1..Cardinality(K) /\ FreeRank(s, g, j) \in 1..Cardinality(K)
    BY <1>1, NewPlaces
  <2> QED BY <2>1, NewPlaces
<1>3. FreeRank(s, g, i) = FreeRank(s, g, j)
  <2>1. CASE GetsTp(s, g, i) /\ GetsTp(s, g, j) /\ TpPlace(s, g, i) = TpPlace(s, g, j)
    <3>1. Rank(New(s, g, g.tp), TpPlace(s, g, i)) = FreeRank(s, g, i)
      BY <2>1, NewPlaces
    <3>2. Rank(New(s, g, g.tp), TpPlace(s, g, j)) = FreeRank(s, g, j)
      BY <2>1, NewPlaces
    <3> QED BY <2>1, <3>1, <3>2
  <2>2. CASE GetsExc(s, g, i) /\ GetsExc(s, g, j) /\ ExcPlace(s, g, i) = ExcPlace(s, g, j)
    <3>1. FreeRank(s, g, i) - TpCount(s, g) = FreeRank(s, g, j) - TpCount(s, g)
      <4>1. Rank(New(s, g, g.exc), ExcPlace(s, g, i)) = FreeRank(s, g, i) - TpCount(s, g)
        BY <2>2, NewPlaces
      <4>2. Rank(New(s, g, g.exc), ExcPlace(s, g, j)) = FreeRank(s, g, j) - TpCount(s, g)
        BY <2>2, NewPlaces
      <4> QED BY <2>2, <4>1, <4>2
    <3> QED BY <1>2, <3>1
  <2> QED BY <2>1, <2>2
<1> QED BY <1>1, <1>3, SlotRank DEF FreeRank

\* Nothing is in the table twice.
LEMMA CheckDistinct ==
    ASSUME NEW s \in FeStates, NEW g \in Selections,
           \A i, j \in Slots : s.tpNum[i] # 0 /\ s.tpNum[i] = s.tpNum[j] => i = j,
           NEW i \in Slots, NEW j \in Slots,
           Number(s, g, i) # 0, Number(s, g, i) = Number(s, g, j)
    PROVE  i = j
<1> DEFINE A(k) == k \in Kept(s, g) /\ Number(s, g, k) = s.tpNum[k]
           B(k) == /\ GetsTp(s, g, k) /\ TpPlace(s, g, k) \in New(s, g, g.tp)
                   /\ Number(s, g, k) = g.tp[TpPlace(s, g, k)]
           C(k) == /\ GetsExc(s, g, k) /\ ExcPlace(s, g, k) \in New(s, g, g.exc)
                   /\ Number(s, g, k) = g.exc[ExcPlace(s, g, k)]
<1>1. (A(i) \/ B(i) \/ C(i)) /\ (A(j) \/ B(j) \/ C(j))
  BY NumberCases
<1>2. \A p, q \in Slots : /\ g.tp[p] # 0 => g.tp[p] # g.exc[q]
                          /\ g.tp[p] # 0 /\ p # q => g.tp[p] # g.tp[q]
                          /\ g.exc[p] # 0 /\ p # q => g.exc[p] # g.exc[q]
  BY SelectionsAssumption
<1>3. CASE A(i) /\ A(j)
  BY <1>3
<1>4. ~(A(i) /\ (B(j) \/ C(j))) /\ ~(A(j) /\ (B(i) \/ C(i)))
  BY NewIs
<1>5. ~(B(i) /\ C(j)) /\ ~(B(j) /\ C(i))
  BY <1>2, NewIs
<1>6. CASE B(i) /\ B(j)
  <2>1. TpPlace(s, g, i) = TpPlace(s, g, j)
    BY <1>2, <1>6, NewIs
  <2> QED BY <1>6, <2>1, PlacesDiffer
<1>7. CASE C(i) /\ C(j)
  <2>1. ExcPlace(s, g, i) = ExcPlace(s, g, j)
    BY <1>2, <1>7, NewIs
  <2> QED BY <1>7, <2>1, PlacesDiffer
<1> QED BY <1>1, <1>3, <1>4, <1>5, <1>6, <1>7

\* As long as a slot is free, what is selected is in the table.
LEMMA CheckFills ==
    ASSUME NEW s \in FeStates, NEW g \in Selections,
           NEW i \in Slots, Number(s, g, i) = 0, NEW v \in Want(g)
    PROVE  \E j \in Slots : Number(s, g, j) = v
<1> DEFINE K == Slots \ Kept(s, g)
           T == New(s, g, g.tp)
           X == New(s, g, g.exc)
<1>1. /\ K \in SUBSET Slots /\ T \in SUBSET Slots /\ X \in SUBSET Slots /\ i \in K
      /\ Cardinality(K) \in Nat /\ Cardinality(T) \in Nat /\ Cardinality(X) \in Nat
  <2>1. i \in K
    BY NumberCases
  <2>2. K \in SUBSET Slots /\ T \in SUBSET Slots /\ X \in SUBSET Slots
    BY DEF New
  <2> QED BY <2>1, <2>2, SlotsFinite
<1>2. Cardinality(T) + Cardinality(X) < Cardinality(K)
  <2>1. FreeRank(s, g, i) \in 1..Cardinality(K)
    BY <1>1, NewPlaces
  <2>2. ~GetsTp(s, g, i) /\ ~GetsExc(s, g, i)
    BY NumberCases
  <2>3. ~(FreeRank(s, g, i) <= Cardinality(T))
        /\ FreeRank(s, g, i) \notin
             (Cardinality(T) + 1)..(Cardinality(T) + Cardinality(X))
    BY <1>1, <2>2 DEF GetsTp, GetsExc, TpCount
  <2> HIDE DEF K, T, X
  <2> QED BY <1>1, <2>1, <2>3
<1>3. CASE \E k \in Kept(s, g) : s.tpNum[k] = v
  <2>1. PICK k \in Kept(s, g) : s.tpNum[k] = v
    BY <1>3
  <2> QED BY <2>1, NewPlaces DEF Number, Kept
<1>4. ASSUME NEW p \in T, v = g.tp[p] PROVE \E j \in Slots : Number(s, g, j) = v
  <2>1. PICK r \in Int : r = Rank(T, p) /\ r \in 1..Cardinality(T)
    BY <1>1, SlotRank
  <2>2. r \in 1..Cardinality(K)
    <3> HIDE DEF K, T, X
    <3> QED BY <1>1, <1>2, <2>1
  <2>3. PICK j \in K : Rank(K, j) = r
    BY <1>1, <2>2, SlotNth
  <2>4. FreeRank(s, g, j) = r /\ j \in Slots /\ GetsTp(s, g, j)
    BY <2>1, <2>3 DEF FreeRank, GetsTp, TpCount
  <2>5. TpPlace(s, g, j) \in T /\ Rank(T, TpPlace(s, g, j)) = Rank(T, p)
    BY <2>1, <2>4, NewPlaces
  <2>6. TpPlace(s, g, j) = p
    BY <1>1, <2>5, SlotRank
  <2> QED BY <1>4, <2>4, <2>6 DEF Number, GetsTp
<1>5. ASSUME NEW p \in X, v = g.exc[p] PROVE \E j \in Slots : Number(s, g, j) = v
  <2>1. PICK r \in Int : r = Rank(X, p) /\ r \in 1..Cardinality(X)
    BY <1>1, SlotRank
  <2>2. r + Cardinality(T) \in 1..Cardinality(K) /\ r + Cardinality(T) \in Int
        /\ r + Cardinality(T) \in (Cardinality(T) + 1)..(Cardinality(T) + Cardinality(X))
        /\ r + Cardinality(T) - Cardinality(T) = r
    <3> HIDE DEF K, T, X
    <3> QED BY <1>1, <1>2, <2>1
  <2>3. PICK j \in K : Rank(K, j) = r + Cardinality(T)
    BY <1>1, <2>2, SlotNth
  <2>4. FreeRank(s, g, j) = r + Cardinality(T) /\ j \in Slots /\ GetsExc(s, g, j)
    BY <2>2, <2>3 DEF FreeRank, GetsExc, TpCount
  <2>5. ExcPlace(s, g, j) \in X /\ Rank(X, ExcPlace(s, g, j)) = Rank(X, p)
    BY <2>1, <2>2, <2>4, NewPlaces DEF TpCount
  <2>6. ExcPlace(s, g, j) = p
    BY <1>1, <2>5, SlotRank
  <2>7. Number(s, g, j) = g.exc[ExcPlace(s, g, j)]
    BY <2>4, NumberCases DEF GetsExc
  <2> QED BY <1>5, <2>4, <2>6, <2>7
<1>6. CASE ~\E k \in Kept(s, g) : s.tpNum[k] = v
  <2>1. PICK p \in Slots : v = g.tp[p] \/ v = g.exc[p]
    BY DEF Want
  <2>2. v # 0
    BY DEF Want
  <2>3. v = g.tp[p] => p \in T
    BY <1>6, <2>1, <2>2 DEF New
  <2>4. v = g.exc[p] => p \in X
    BY <1>6, <2>1, <2>2 DEF New
  <2> QED BY <1>4, <1>5, <2>1, <2>3, <2>4
<1> QED BY <1>3, <1>6

\* An excitation is read from the slot of its waveform generator.
LEMMA CheckOffsets ==
    ASSUME NEW s \in FeStates, NEW g \in Selections, NEW i \in Slots, NEW j \in Slots,
           Number(s, g, i) # 0, Number(s, g, i) = g.exc[j]
    PROVE  g.exc[IF GetsExc(s, g, i) THEN ExcPlace(s, g, i) ELSE s.offset[i]]
             = Number(s, g, i)
<1>1. \A p \in Slots : g.tp[p] # 0 => g.tp[p] # g.exc[j]
  BY SelectionsAssumption
<1>2. CASE /\ i \in Kept(s, g) /\ Number(s, g, i) = s.tpNum[i] /\ ~GetsExc(s, g, i)
           /\ InTheLists(g, s.tpNum[i], s.offset[i])
  BY <1>1, <1>2 DEF InTheLists
<1>3. ~(/\ TpPlace(s, g, i) \in New(s, g, g.tp)
        /\ Number(s, g, i) = g.tp[TpPlace(s, g, i)])
  BY <1>1, NewIs
<1> QED BY <1>2, <1>3, NumberCases

\* After a check the table serves the selection that was in memory.
LEMMA CheckServes ==
    ASSUME NEW s \in FeStates, NEW g \in Selections, NEW h,
           Serves(s.tpNum, s.offset, h)
    PROVE  Serves(Numbers(s, g),
                  [i \in Slots |-> IF GetsExc(s, g, i) THEN ExcPlace(s, g, i)
                                   ELSE s.offset[i]],
                  g)
<1>1. \A i \in Slots : Numbers(s, g)[i] = Number(s, g, i)
  BY DEF Numbers
<1>2. \A i, j \in Slots : s.tpNum[i] # 0 /\ s.tpNum[i] = s.tpNum[j] => i = j
  BY DEF Serves
<1>3. \A i \in Slots : Number(s, g, i) # 0 => Number(s, g, i) \in Want(g)
  BY CheckWants
<1>4. \A i, j \in Slots : Number(s, g, i) # 0 /\ Number(s, g, i) = Number(s, g, j) => i = j
  BY <1>2, CheckDistinct
<1>5. \/ \A i \in Slots : Number(s, g, i) # 0
      \/ \A v \in Want(g) : \E i \in Slots : Number(s, g, i) = v
  BY CheckFills
<1>6. \A i, j \in Slots : Number(s, g, i) # 0 /\ Number(s, g, i) = g.exc[j] =>
        g.exc[IF GetsExc(s, g, i) THEN ExcPlace(s, g, i) ELSE s.offset[i]] = Number(s, g, i)
  BY CheckOffsets
<1> QED BY <1>1, <1>3, <1>4, <1>5, <1>6 DEF Serves

\* The smaller of two numbers.
LEMMA LesserOf ==
    ASSUME NEW a \in Int, NEW b \in Int
    PROVE  (a <= b => Min({a, b}) = a) /\ (b <= a => Min({a, b}) = b)
<1> DEFINE P(x) == x \in {a, b} /\ \A y \in {a, b} : x <= y
<1>1. Min({a, b}) = CHOOSE x : P(x)
  BY DEF Min
<1>2. P(IF a <= b THEN a ELSE b)
  OBVIOUS
<1>3. P(CHOOSE x : P(x))
  BY <1>2
<1>4. P(Min({a, b}))
  BY <1>1, <1>3
<1> QED BY <1>4

\* The values a table has at some of its slots: as many as slots, if they differ.
LEMMA ImageSize ==
    ASSUME NEW S \in SUBSET Slots, NEW N \in [Slots -> Nat]
    PROVE  /\ IsFiniteSet({N[i] : i \in S})
           /\ (\A i, j \in S : N[i] = N[j] => i = j)
                => Cardinality({N[i] : i \in S}) = Cardinality(S)
<1> DEFINE T == {N[i] : i \in S}
           f == [i \in S |-> N[i]]
<1>1. f \in Surjection(S, T)
  BY DEF Surjection
<1>2. (\A i, j \in S : N[i] = N[j] => i = j) => f \in Injection(S, T)
  <2>1. f \in [S -> T]
    OBVIOUS
  <2>2. ASSUME \A i, j \in S : N[i] = N[j] => i = j
        PROVE  \A i, j \in S : f[i] = f[j] => i = j
    BY <2>2
  <2> QED BY <2>1, <2>2 DEF Injection, IsInjective
<1>3. IsFiniteSet(S)
  BY SlotsFinite
<1> HIDE DEF f, T
<1>4. /\ IsFiniteSet(T)
      /\ Cardinality(T) = Cardinality(S) <=> f \in Injection(S, T)
  BY <1>1, <1>3, FS_Surjection
<1> QED BY <1>2, <1>4 DEF T

\* A selection is finite.
LEMMA WantFinite ==
    ASSUME NEW g \in Selections
    PROVE  IsFiniteSet(Want(g))
<1> DEFINE A == {g.tp[i] : i \in Slots}
           B == {g.exc[i] : i \in Slots}
<1>1. g.tp \in [Slots -> Nat] /\ g.exc \in [Slots -> Nat]
  BY DaqAssumption
<1>2. IsFiniteSet(A) /\ IsFiniteSet(B)
  BY <1>1, ImageSize
<1> HIDE DEF A, B
<1>3. IsFiniteSet(A \cup B)
  BY <1>2, FS_Union
<1>4. Want(g) \in SUBSET (A \cup B)
  BY DEF Want, A, B
<1> QED BY <1>3, <1>4, FS_Subset

\* A table that serves a selection has as much of it as there is room for.
LEMMA ServingSize ==
    ASSUME NEW N \in [Slots -> Nat], NEW O, NEW g \in Selections, Serves(N, O, g)
    PROVE  LET used == {i \in Slots : N[i] # 0}
           IN  /\ {N[i] : i \in used} \subseteq Want(g)
               /\ Cardinality(used) = Min({MaxTp, Cardinality(Want(g))})
               /\ Cardinality({N[i] : i \in used}) = Cardinality(used)
<1> DEFINE used == {i \in Slots : N[i] # 0}
           V == {N[i] : i \in used}
           W == Want(g)
<1>1. V \in SUBSET W
  BY DEF Serves
<1>2. used \in SUBSET Slots /\ \A i, j \in used : N[i] = N[j] => i = j
  BY DEF Serves
<1>3. Cardinality(V) = Cardinality(used)
  <2> HIDE DEF used
  <2> QED BY <1>2, ImageSize
<1>4. Cardinality(Slots) = MaxTp /\ IsFiniteSet(Slots)
  <2>1. MaxTp \in Nat \ {0} /\ MaxTp \in Int /\ 1 \in Int
    BY SlotsFinite
  <2>2. Cardinality(1..MaxTp) = IF 1 > MaxTp THEN 0 ELSE MaxTp - 1 + 1
    BY <2>1, FS_Interval
  <2>3. Cardinality(1..MaxTp) = MaxTp
    BY <2>1, <2>2
  <2> QED BY <2>3, SlotsFinite DEF Slots
<1>5. used = Slots \/ V = W
  <2>1. CASE \A i \in Slots : N[i] # 0
    BY <2>1
  <2>2. CASE \A v \in Want(g) : \E i \in Slots : N[i] = v
    <3>1. ASSUME NEW v \in W PROVE v \in V
      <4>1. PICK i \in Slots : N[i] = v
        BY <2>2, <3>1
      <4>2. v # 0
        BY DEF Want
      <4> QED BY <4>1, <4>2
    <3> QED BY <1>1, <3>1
  <2> QED BY <2>1, <2>2 DEF Serves
<1>6. IsFiniteSet(W)
  BY WantFinite
<1> HIDE DEF used, V, W
<1>7. Cardinality(used) \in Int /\ Cardinality(used) <= MaxTp /\ MaxTp \in Int
  <2>1. Cardinality(used) \in Nat /\ MaxTp \in Nat
    BY <1>2, SlotsFinite
  <2>2. Cardinality(used) <= Cardinality(Slots)
    BY <1>2, <1>4, FS_Subset
  <2> QED BY <1>4, <2>1, <2>2
<1>8. Cardinality(W) \in Int /\ Cardinality(V) <= Cardinality(W)
  BY <1>1, <1>6, FS_Subset, FS_CardinalityType
<1>9. Cardinality(used) = Min({MaxTp, Cardinality(W)})
  <2>1. CASE used = Slots
    <3>1. MaxTp <= Cardinality(W)
      BY <1>3, <1>4, <1>8, <2>1
    <3> QED BY <1>4, <1>7, <1>8, <2>1, <3>1, LesserOf
  <2>2. CASE V = W
    <3>1. Cardinality(W) <= MaxTp
      BY <1>3, <1>7, <2>2
    <3> QED BY <1>3, <1>7, <1>8, <2>2, <3>1, LesserOf
  <2> QED BY <1>5, <2>1, <2>2
<1> QED BY <1>1, <1>3, <1>9 DEF used, V, W

\* The invariant is what the property says of the table.
LEMMA ServingIsSelection ==
    TypeOK /\ ServeInv => TableIsSelection
<1>1. SUFFICES ASSUME TypeOK, ServeInv PROVE TableIsSelection
  OBVIOUS
<1>2. ASSUME NEW m \in Models
      PROVE  LET used == {i \in Slots : fe[m].tpNum[i] # 0}
                 g == fe[m].checked
             IN  /\ {fe[m].tpNum[i] : i \in used} \subseteq Want(g)
                 /\ Cardinality(used) = Min({MaxTp, Cardinality(Want(g))})
                 /\ Cardinality({fe[m].tpNum[i] : i \in used}) = Cardinality(used)
  <2>1. fe[m] \in FeStates
    BY <1>1, ClockType
  <2>2. fe[m].tpNum \in [Slots -> Nat] /\ fe[m].checked \in Selections
    BY <2>1 DEF FeStates
  <2>3. Serves(fe[m].tpNum, fe[m].offset, fe[m].checked)
    BY <1>1 DEF ServeInv
  <2> QED BY <2>2, <2>3, ServingSize
<1>3. ASSUME NEW m \in Models, NEW i \in Slots, fe[m].tpNum[i] # 0,
             fe[m].tpNum[i] \in {fe[m].checked.exc[j] : j \in Slots}
      PROVE  fe[m].checked.exc[fe[m].offset[i]] = fe[m].tpNum[i]
  BY <1>1, <1>3 DEF ServeInv, Serves
<1> QED BY <1>2, <1>3 DEF TableIsSelection

\* At the start nothing is selected.
LEMMA InitServes == Init => ServeInv
<1>1. SUFFICES ASSUME Init, NEW m \in Models
               PROVE  Serves(fe[m].tpNum, fe[m].offset, fe[m].checked)
  BY DEF ServeInv
<1>2. fe[m].tpNum = Nothing /\ fe[m].checked = Unselected
  BY <1>1 DEF Init
<1>3. \A i \in Slots : Nothing[i] = 0
  BY DEF Nothing
<1>4. Want(Unselected) = {}
  BY SelectionsAssumption DEF Want
<1> QED BY <1>2, <1>3, <1>4 DEF Serves

\* Only the check at the end of a second changes the table, and it keeps it right.
LEMMA NextServes == TypeOK /\ ClockInv /\ ServeInv /\ [Next]_vars => ServeInv'
<1>1. SUFFICES ASSUME TypeOK, ClockInv, ServeInv, [Next]_vars, NEW m \in Models
               PROVE  Serves(fe'[m].tpNum, fe'[m].offset, fe'[m].checked)
  BY DEF ServeInv, Serves, Want
<1>2. Serves(fe[m].tpNum, fe[m].offset, fe[m].checked)
  BY <1>1 DEF ServeInv
<1>3. fe[m] \in FeStates
  BY <1>1, ClockType
<1>4. ASSUME /\ fe'[m].tpNum = fe[m].tpNum /\ fe'[m].offset = fe[m].offset
             /\ fe'[m].checked = fe[m].checked
      PROVE  Serves(fe'[m].tpNum, fe'[m].offset, fe'[m].checked)
  BY <1>2, <1>4
<1>5. ASSUME NEW n \in Models, Publish(n)
      PROVE  Serves(fe'[m].tpNum, fe'[m].offset, fe'[m].checked)
  <2>1. fe'[m] = fe[m] \/ fe'[m] = [fe[m] EXCEPT !.pc = "announce"]
    BY <1>1, <1>5, PublishEffect
  <2> QED BY <1>3, <1>4, <2>1 DEF FeStates
<1>6. ASSUME NEW n \in Models, Announce(n)
      PROVE  Serves(fe'[m].tpNum, fe'[m].offset, fe'[m].checked)
  <2>1. CASE m # n
    BY <1>1, <1>4, <1>6, <2>1, AnnounceEffect
  <2>2. CASE m = n
    <3> DEFINE s == EndOfBlock(fe[m], Block(Clock(m)), gds[m])
    <3>1. s \in FeStates /\ fe'[m] = [s EXCEPT !.pc = "fill", !.t = Clock(m) + 1]
      BY <1>1, <1>6, <2>2, AnnounceEffect
    <3>2. PICK x \in Places : s = EndOfBlock(fe[m], x, gds[m])
      BY <1>1, ClockType, BlockPlace
    <3>3. gds[m] \in Selections
      BY <1>1, ClockType
    <3> HIDE DEF s
    <3>4. fe'[m].tpNum = s.tpNum /\ fe'[m].offset = s.offset /\ fe'[m].checked = s.checked
      BY <3>1 DEF FeStates
    <3>5. CASE x # NB - 1
      BY <1>3, <1>4, <3>2, <3>3, <3>4, <3>5, EndOfBlockIs
    <3>6. CASE x = NB - 1
      <4>1. /\ s.tpNum = Numbers(fe[m], gds[m]) /\ s.checked = gds[m]
            /\ s.offset = [i \in Slots |->
                 IF GetsExc(fe[m], gds[m], i) THEN ExcPlace(fe[m], gds[m], i)
                 ELSE fe[m].offset[i]]
        BY <1>3, <3>2, <3>3, <3>6, EndOfBlockIs
      <4> QED BY <1>2, <1>3, <3>3, <3>4, <4>1, CheckServes
    <3> QED BY <3>5, <3>6
  <2> QED BY <2>1, <2>2
<1>7. ASSUME NEW n \in Models, NEW how \in {"same", "moved"}, RequestReconfig(n, how)
      PROVE  Serves(fe'[m].tpNum, fe'[m].offset, fe'[m].checked)
  <2>1. fe'[m] = fe[m] \/ fe'[m] = [fe[m] EXCEPT !.reconfig = how]
    BY <1>1, <1>7 DEF RequestReconfig, TypeOK
  <2> QED BY <1>3, <1>4, <2>1 DEF FeStates
<1>8. CASE fe' = fe
  BY <1>4, <1>8
<1>9. \/ \E n \in Models : Publish(n) \/ Announce(n)
      \/ \E n \in Models, how \in {"same", "moved"} : RequestReconfig(n, how)
      \/ fe' = fe
  BY <1>1 DEF Next, vars, Select, Stop, DcSeeModel, DcStart, DcSeeIop, DcGiveUp, DcPolled,
              DcHeader, DcCopy, DcSend, feVars
<1> QED BY <1>5, <1>6, <1>7, <1>8, <1>9

\* After every check of daqWrite for new test points, in any order of selections
\* and deselections, the table is the selection it saw, and every excitation is
\* read from the generator slot the manager gave it.
THEOREM TableIsRight == Spec => []TableIsSelection
<1>1. Init => IndInv /\ ServeInv
  BY InitInv, InitServes
<1>2. IndInv /\ ServeInv /\ [Next]_vars => IndInv' /\ ServeInv'
  BY NextInv, NextServes DEF IndInv
<1>3. IndInv /\ ServeInv => TableIsSelection
  BY ServingIsSelection DEF IndInv
<1> QED BY <1>1, <1>2, <1>3, PTL DEF Spec
=============================================================================
