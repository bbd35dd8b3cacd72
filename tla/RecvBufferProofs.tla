-------------------------- MODULE RecvBufferProofs --------------------------
(***************************************************************************)
(* Proofs about RecvBuffer, for every number of threads, publishers,       *)
(* entries, cycles of delay and messages.                                  *)
(***************************************************************************)
EXTENDS RecvBuffer, FiniteSetTheorems, TLAPS

-----------------------------------------------------------------------------
(* The inductive invariant *)

\* An entry holds headers of its own cycle only.
OneCycleInv ==
    \A i \in 0..(N - 1) : \A j \in 1..Len(entry[i].models) :
        entry[i].models[j].key = entry[i].latest

\* The key is stored: its entry is at it or has gone past it.
Stored(key) == key # 0 => entry[Index(key)].latest >= key

\* A callback announces a key only after storing it.
StoredInv ==
    /\ \A t \in Threads : tpc[t] # "idle" => tkey[t] # 0 /\ Stored(tkey[t])
    /\ Stored(latest_)
    /\ Stored(last_received)

\* What the recorder is given.
SliceType == [key : Int, models : Seq(Header), msgs : Nat]

\* The main loop goes forward, and has handed on nothing beyond its key; when
\* it is about to hand on a slice, everything before is older.
OrderInv ==
    /\ last_received <= latest_
    /\ rpc # "poll" => last_received # 0
    /\ delivered \in Seq(SliceType)
    /\ \A i \in 1..Len(delivered) :
        /\ delivered[i].key <= process_at
        /\ rpc = "delay" => delivered[i].key < process_at

IndInv == TypeOK /\ OneCycleInv /\ StoredInv /\ OrderInv

\* The entry at a key has taken every message of that key, and before it came to
\* the key there was none.
TakenInv ==
    /\ arrived \in [Publishers -> [Keys -> 0..MaxCopies]]
    /\ \A i \in 0..(N - 1) :
        entry[i].latest # 0 => Index(entry[i].latest) = i
    /\ \A key \in Keys :
        /\ Copies({key}) # {} => entry[Index(key)].latest >= key
        /\ entry[Index(key)].latest = key =>
            entry[Index(key)].msgs = Cardinality(Copies({key}))

\* An entry is marked late exactly when the slice of its key was handed on (or
\* is being handed on, while process_if keeps the entry locked).
LateInv ==
    /\ \A i \in 0..(N - 1) :
        entry[i].is_late_ => entry[i].latest \in DeliveredKeys
    /\ \A key \in DeliveredKeys :
        /\ key \in Keys /\ entry[Index(key)].latest >= key
        /\ entry[Index(key)].latest = key =>
            \/ entry[Index(key)].is_late_
            \/ rpc = "emplace" /\ key = process_at
    /\ rpc = "emplace" =>
        /\ process_at \in DeliveredKeys
        /\ entry[Index(process_at)].latest = process_at

\* Keys whose messages are in an entry and may still be handed on.
Pending == {key \in Keys \ DeliveredKeys : entry[Index(key)].latest = key}

\* The two sides of EveryMessageAccounted; no message of a pending key has been
\* counted or is in a slice.
CountInv ==
    /\ late_entries_ \in Nat /\ discarded_entries_ \in Nat
    /\ late_messages \in Nat /\ very_late_messages \in Nat
    /\ IsFiniteSet(InSlices)
    /\ Cardinality(Copies(DeliveredKeys)) <= Cardinality(InSlices) + Counted
    /\ Counted + Cardinality(InSlices) <= Cardinality(Copies(Keys \ Pending))

AccountInv == TakenInv /\ LateInv /\ CountInv

-----------------------------------------------------------------------------
(* Operators *)

\* Every key has an entry.
LEMMA IndexInRange == \A key \in Int : Index(key) \in 0..(N - 1)
  <1>1. \A key \in Int : Cycle(key) \in Int
    BY SizesAssumption DEF Cycle
  <1>2. \A c \in Int : cycle_to_index(c) \in 0..(N - 1)
    BY SizesAssumption DEF cycle_to_index
  <1> QED
    BY <1>1, <1>2 DEF Index

\* The keys of the model are positive.
LEMMA KeysArePositive ==
  /\ \A key \in Keys : key \in Nat /\ key # 0
  /\ \A key \in Keys \cup {0} : key \in Nat
  BY SizesAssumption DEF Keys

\* A copy of headers has the type, keeps what was there and adds headers of
\* the message's key, and never exceeds the room.
LEMMA CopyModelsType ==
  ASSUME NEW models \in Seq(Header), NEW p \in Publishers, NEW key \in Keys,
         Len(models) <= MaxDcu
  PROVE  /\ CopyModels(models, p, key) \in Seq(Header)
         /\ Len(CopyModels(models, p, key)) <= MaxDcu
         /\ \A j \in 1..Len(CopyModels(models, p, key)) :
                CopyModels(models, p, key)[j].key = key
                \/ (j <= Len(models) /\ CopyModels(models, p, key)[j] = models[j])
  <1> DEFINE total == Len(models) + Len(CopiedOf(p))
             len == IF total <= MaxDcu THEN total ELSE MaxDcu
             elem(i) == IF i <= Len(models) THEN models[i]
                        ELSE [dcu |-> CopiedOf(p)[i - Len(models)], key |-> key]
             s == [i \in 1..len |-> elem(i)]
  <1>1. CopyModels(models, p, key) = s
    BY DEF CopyModels
  <1>2. Len(models) \in Nat /\ Len(CopiedOf(p)) \in Nat /\ MaxDcu \in Nat
    BY ModelsAssumption, SizesAssumption
  <1>3. len \in Nat /\ len <= total /\ len <= MaxDcu
    BY <1>2
  <1>4. ASSUME NEW i \in 1..len PROVE elem(i) \in Header
    <2>1. CASE i <= Len(models)
      <3>1. i \in 1..Len(models)
        BY <1>2, <1>3, <2>1
      <3> QED
        BY <2>1, <3>1
    <2>2. CASE ~(i <= Len(models))
      <3>1. i - Len(models) \in 1..Len(CopiedOf(p))
        BY <1>2, <1>3, <2>2
      <3>2. CopiedOf(p)[i - Len(models)] \in Nat \ {0}
        BY <3>1, ModelsAssumption
      <3> QED
        BY <2>2, <3>2 DEF Header
    <2> QED
      BY <2>1, <2>2
  <1> HIDE DEF len, elem
  <1>5. s \in [1..len -> Header]
    BY <1>4
  <1>6. s \in Seq(Header) /\ Len(s) = len
    BY <1>3, <1>5
  <1>7. \A j \in 1..len : s[j] = elem(j)
    OBVIOUS
  <1>8. \A j \in 1..len : s[j].key = key \/ (j <= Len(models) /\ s[j] = models[j])
    BY <1>7 DEF elem
  <1> QED
    BY <1>1, <1>3, <1>6, <1>8

\* Storing a message moves an entry forward: its latest becomes the message's
\* key unless the entry is full, which happens only when it is there already.
LEMMA StoreType ==
  ASSUME NEW e \in Entry, Len(e.models) <= MaxDcu,
         NEW p \in Publishers, NEW key \in Keys,
         e.latest <= key, e.latest < key => e.models = <<>>,
         WellFormed(p)
  PROVE  LET s == Store(e, p, key) IN
         /\ s \in Entry
         /\ s.latest = key
         /\ s.models = CopyModels(e.models, p, key)
  <1>1. CopyModels(e.models, p, key) \in Seq(Header)
    BY CopyModelsType DEF Entry
  <1>2. e.latest \in Int /\ key \in Int
    BY KeysArePositive DEF Entry
  <1>3. CASE e.latest < key
    <2>1. Len(e.models) + Len(CopiedOf(p)) <= MaxDcu
      BY <1>3, ModelsAssumption, SizesAssumption DEF WellFormed
    <2> QED
      BY <1>1, <2>1 DEF Store, Entry
  <1>4. CASE e.latest = key
    BY <1>1, <1>4 DEF Store, Entry
  <1> QED
    BY <1>2, <1>3, <1>4

-----------------------------------------------------------------------------
(* Every step keeps the invariant *)

\* The constructors of the buffer and of its entries establish the invariant.
LEMMA InitInv == Init => IndInv
  <1> SUFFICES ASSUME Init PROVE IndInv
    OBVIOUS
  <1>1. EmptyEntry \in Entry /\ Len(EmptyEntry.models) = 0
    BY DEF EmptyEntry, Entry
  <1>2. TypeOK
    BY <1>1, SizesAssumption DEF Init, TypeOK, Keys
  <1>3. OneCycleInv
    BY DEF Init, OneCycleInv, EmptyEntry
  <1>4. StoredInv
    BY DEF Init, StoredInv, Stored
  <1>5. OrderInv
    BY SizesAssumption DEF Init, OrderInv
  <1> QED
    BY <1>2, <1>3, <1>4, <1>5 DEF IndInv

\* When no entry goes back, what was stored stays stored.
LEMMA StoredIsStable ==
  ASSUME TypeOK, TypeOK',
         \A i \in 0..(N - 1) : entry'[i].latest >= entry[i].latest,
         NEW key \in Keys \cup {0}, Stored(key)
  PROVE  Stored(key)'
  <1>1. key \in Int /\ Index(key) \in 0..(N - 1)
    BY IndexInRange, KeysArePositive
  <1>2. entry[Index(key)] \in Entry /\ entry'[Index(key)] \in Entry
    BY <1>1 DEF TypeOK
  <1>3. entry[Index(key)].latest \in Int /\ entry'[Index(key)].latest \in Int
    BY <1>2, KeysArePositive DEF Entry
  <1> QED
    BY <1>1, <1>2, <1>3 DEF Stored

\* Ingest moves the entry of its key forward and never another (buffer_entry::ingest).
LEMMA IngestInv ==
  ASSUME IndInv, NEW t \in Threads, NEW p \in Publishers, NEW key \in Keys,
         Ingest(t, p, key)
  PROVE  IndInv'
  <1> DEFINE i == Index(key)
             e == IF key > entry[i].latest THEN clear(entry[i]) ELSE entry[i]
             s == Store(e, p, key)
  <1>1. i \in 0..(N - 1) /\ key \in Nat \ {0}
    BY IndexInRange, KeysArePositive
  <1>2. entry[i] \in Entry /\ entry[i].latest \in Int
    <2>1. entry[i] \in Entry
      BY <1>1 DEF IndInv, TypeOK
    <2> QED
      BY <2>1, KeysArePositive DEF Entry
  <1>3. ASSUME ~Stale(entry[i], key)
        PROVE  /\ s \in Entry /\ s.latest = key /\ s.latest >= entry[i].latest
               /\ Len(s.models) <= MaxDcu
               /\ \A j \in 1..Len(s.models) : s.models[j].key = s.latest
    <2>1. key >= entry[i].latest
      BY <1>1, <1>2, <1>3 DEF Stale
    <2>2. /\ e \in Entry /\ e.latest = entry[i].latest /\ Len(e.models) <= MaxDcu
          /\ e.latest < key => e.models = <<>>
          /\ \A j \in 1..Len(e.models) : e.models[j].key = key
      <3>1. CASE key > entry[i].latest
        BY <1>2, <3>1, SizesAssumption DEF clear, Entry
      <3>2. CASE key = entry[i].latest
        BY <1>1, <1>2, <3>2 DEF IndInv, TypeOK, OneCycleInv
      <3> QED
        BY <1>1, <1>2, <2>1, <3>1, <3>2
    <2>3. WellFormed(p)
      BY DEF Ingest
    <2>4. s \in Entry /\ s.latest = key /\ s.models = CopyModels(e.models, p, key)
      BY <2>1, <2>2, <2>3, StoreType
    <2>5. e.models \in Seq(Header)
      BY <2>2 DEF Entry
    <2>6. /\ Len(CopyModels(e.models, p, key)) <= MaxDcu
          /\ \A j \in 1..Len(CopyModels(e.models, p, key)) :
                CopyModels(e.models, p, key)[j].key = key
                \/ (/\ j <= Len(e.models)
                    /\ CopyModels(e.models, p, key)[j] = e.models[j])
      BY <2>2, <2>5, CopyModelsType
    <2>7. \A j \in 1..Len(s.models) : s.models[j].key = key
      BY <2>2, <2>4, <2>5, <2>6
    <2> QED
      BY <2>1, <2>4, <2>6, <2>7
  <1>4. \/ entry' = entry /\ Stale(entry[i], key)
        \/ entry' = [entry EXCEPT ![i] = s] /\ ~Stale(entry[i], key)
    BY DEF Ingest
  <1> HIDE DEF i, e, s
  <1>5. TypeOK'
    <2>1. entry' \in [0..(N - 1) -> Entry]
      BY <1>1, <1>3, <1>4 DEF IndInv, TypeOK
    <2>2. \A k \in 0..(N - 1) : Len(entry'[k].models) <= MaxDcu
      BY <1>1, <1>3, <1>4 DEF IndInv, TypeOK
    <2> QED
      BY <2>1, <2>2 DEF IndInv, TypeOK, Ingest, readerVars
  <1>6. OneCycleInv'
    BY <1>1, <1>3, <1>4 DEF IndInv, TypeOK, OneCycleInv
  <1>7. \A k \in 0..(N - 1) : entry'[k].latest >= entry[k].latest
    <2>1. \A k \in 0..(N - 1) : entry[k].latest \in Int
      BY KeysArePositive DEF IndInv, TypeOK, Entry
    <2> QED
      <3>1. CASE entry' = entry
        BY <2>1, <3>1
      <3>2. CASE entry' = [entry EXCEPT ![i] = s] /\ ~Stale(entry[i], key)
        BY <1>1, <1>3, <2>1, <3>2 DEF IndInv, TypeOK
      <3> QED
        BY <1>4, <3>1, <3>2
  <1>8. Stored(key)'
    <2>1. entry'[i].latest >= key
      <3>1. CASE entry' = entry /\ Stale(entry[i], key)
        BY <1>1, <1>2, <3>1 DEF Stale
      <3>2. CASE entry' = [entry EXCEPT ![i] = s] /\ ~Stale(entry[i], key)
        BY <1>1, <1>3, <3>2 DEF IndInv, TypeOK
      <3> QED
        BY <1>4, <3>1, <3>2
    <2> QED
      BY <2>1 DEF Stored, i
  <1>9. StoredInv'
    <2>1. Stored(latest_)' /\ Stored(last_received)'
      <3>1. latest_' = latest_ /\ last_received' = last_received
        BY DEF Ingest, readerVars
      <3>2. latest_ \in Keys \cup {0} /\ last_received \in Keys \cup {0}
        BY DEF IndInv, TypeOK
      <3>3. Stored(latest_) /\ Stored(last_received)
        BY DEF IndInv, StoredInv
      <3> QED
        BY <1>5, <1>7, <3>1, <3>2, <3>3, StoredIsStable DEF IndInv, Stored
    <2>2. ASSUME NEW u \in Threads, tpc'[u] # "idle"
          PROVE  tkey'[u] # 0 /\ Stored(tkey[u])'
      <3>1. CASE u = t
        BY <1>1, <1>8, <3>1 DEF Ingest, IndInv, TypeOK, Stored
      <3>2. CASE u # t
        <4>1. tkey'[u] = tkey[u] /\ tpc'[u] = tpc[u]
          BY <3>2 DEF Ingest, IndInv, TypeOK
        <4>2. tkey[u] # 0 /\ Stored(tkey[u]) /\ tkey[u] \in Keys \cup {0}
          BY <2>2, <4>1 DEF IndInv, StoredInv, TypeOK
        <4> QED
          BY <1>5, <1>7, <4>1, <4>2, StoredIsStable DEF IndInv, Stored
      <3> QED
        BY <3>1, <3>2
    <2> QED
      BY <2>1, <2>2 DEF StoredInv
  <1>10. OrderInv'
    BY DEF IndInv, OrderInv, Ingest, readerVars, process_at
  <1> QED
    BY <1>5, <1>6, <1>9, <1>10 DEF IndInv

\* The load of latest_ leaves the entries, latest_ and the main loop alone.
LEMMA LoadLatestInv ==
  ASSUME IndInv, NEW t \in Threads, LoadLatest(t)
  PROVE  IndInv'
  <1>1. TypeOK'
    BY DEF IndInv, TypeOK, LoadLatest, bufferVars, readerVars
  <1>2. OneCycleInv'
    BY DEF IndInv, OneCycleInv, LoadLatest, bufferVars
  <1>3. StoredInv'
    BY DEF IndInv, TypeOK, StoredInv, Stored, LoadLatest, bufferVars, readerVars
  <1>4. OrderInv'
    BY DEF IndInv, OrderInv, LoadLatest, readerVars, process_at
  <1> QED
    BY <1>1, <1>2, <1>3, <1>4 DEF IndInv

\* The swap replaces latest_ by a key that is stored and greater.
LEMMA CasLatestInv ==
  ASSUME IndInv, NEW t \in Threads, CasLatest(t)
  PROVE  IndInv'
  <1>1. TypeOK'
    BY DEF IndInv, TypeOK, CasLatest, bufferVars, readerVars
  <1>2. OneCycleInv'
    BY DEF IndInv, OneCycleInv, CasLatest, bufferVars
  <1>3. StoredInv'
    BY DEF IndInv, TypeOK, StoredInv, Stored, CasLatest, bufferVars, readerVars
  <1>4. latest_' >= latest_ /\ latest_ \in Int /\ latest_' \in Int
    BY KeysArePositive DEF IndInv, TypeOK, CasLatest
  <1>5. OrderInv'
    <2>1. last_received \in Int
      BY KeysArePositive DEF IndInv, TypeOK
    <2> QED
      BY <1>4, <2>1 DEF IndInv, OrderInv, CasLatest, readerVars, process_at
  <1> QED
    BY <1>1, <1>2, <1>3, <1>5 DEF IndInv

\* The main loop takes a newer key, so all it has handed on is older.
LEMMA PollInv ==
  ASSUME IndInv, Poll
  PROVE  IndInv'
  <1>1. TypeOK'
    BY DEF IndInv, TypeOK, Poll, bufferVars, threadVars
  <1>2. OneCycleInv'
    BY DEF IndInv, OneCycleInv, Poll, bufferVars
  <1>3. StoredInv'
    BY DEF IndInv, StoredInv, Stored, Poll, bufferVars, threadVars
  <1>4. OrderInv'
    <2>1. latest_ \in Nat /\ last_received \in Nat /\ BufferCycles \in Int
      BY KeysArePositive, SizesAssumption DEF IndInv, TypeOK
    <2>2. last_received < latest_ /\ process_at < process_at'
      BY <2>1 DEF IndInv, OrderInv, Poll, process_at
    <2>3. \A i \in 1..Len(delivered) : delivered[i].key \in Int
      <3>1. \A i \in 1..Len(delivered) : delivered[i] \in SliceType
        BY DEF IndInv, OrderInv
      <3> QED
        BY <3>1 DEF SliceType
    <2>5. ASSUME NEW i \in 1..Len(delivered) PROVE delivered[i].key < process_at'
      <3>1. delivered[i].key \in Int /\ delivered[i].key <= process_at
        BY <2>3 DEF IndInv, OrderInv
      <3> QED
        BY <2>1, <2>2, <3>1 DEF process_at, Poll
    <2>4. delivered' = delivered /\ last_received' = latest_ /\ latest_' = latest_
      BY DEF Poll
    <2>6. process_at' \in Int
      BY <2>1, <2>4, SizesAssumption DEF process_at
    <2> QED
      BY <2>1, <2>2, <2>3, <2>4, <2>5, <2>6 DEF IndInv, OrderInv
  <1> QED
    BY <1>1, <1>2, <1>3, <1>4 DEF IndInv

\* What the main loop hands on is acceptable to the channel.
LEMMA SliceIsAcceptable ==
  ASSUME IndInv, ProcessSlice
  PROVE  \/ delivered' = delivered
         \/ \E i \in 0..(N - 1) :
                /\ Slice(i) \in SliceType
                /\ delivered' = Append(delivered, Slice(i))
                /\ Channel!Acceptable(Slice(i))
  <1> DEFINE i == Index(process_at)
             s == Slice(i)
  <1>1. process_at \in Int
    BY KeysArePositive, SizesAssumption DEF IndInv, TypeOK, process_at
  <1>2. i \in 0..(N - 1)
    BY <1>1, IndexInRange
  <1>3. entry[i] \in Entry
    BY <1>2 DEF IndInv, TypeOK
  <1>4. s \in SliceType
    BY <1>1, <1>3 DEF Entry, SliceType, Slice
  <1>5. SUFFICES ASSUME delivered' # delivered
        PROVE  delivered' = Append(delivered, s) /\ Channel!Acceptable(s)
    BY <1>2, <1>4
  <1>6. entry[i].latest = process_at /\ delivered' = Append(delivered, s)
    BY <1>5 DEF ProcessSlice
  <1>7. \A j \in 1..Len(delivered) : delivered[j].key < process_at
    BY DEF ProcessSlice, IndInv, OrderInv
  <1>8. \A j \in 1..Len(entry[i].models) : entry[i].models[j].key = process_at
    BY <1>2, <1>6 DEF IndInv, OneCycleInv
  <1>9. Channel!Acceptable(s)
    BY <1>7, <1>8 DEF Channel!Acceptable, Slice
  <1> QED
    BY <1>6, <1>9

\* Handing a slice on keeps the order of what was handed on (process_slice_at).
LEMMA ProcessSliceInv ==
  ASSUME IndInv, ProcessSlice
  PROVE  IndInv'
  <1>1. process_at \in Int /\ process_at' = process_at
    BY KeysArePositive, SizesAssumption DEF IndInv, TypeOK, process_at,
       ProcessSlice
  <1>2. TypeOK'
    BY DEF IndInv, TypeOK, ProcessSlice, bufferVars, threadVars
  <1>3. OneCycleInv'
    BY DEF IndInv, OneCycleInv, ProcessSlice, bufferVars
  <1>4. StoredInv'
    BY DEF IndInv, StoredInv, Stored, ProcessSlice, bufferVars, threadVars
  <1>5. OrderInv'
    <2>1. /\ rpc' \in {"emplace", "stats"}
          /\ last_received' = last_received /\ latest_' = latest_
      BY DEF ProcessSlice
    <2>2. last_received # 0
      BY DEF ProcessSlice, IndInv, OrderInv
    <2>3. CASE delivered' = delivered
      BY <1>1, <2>1, <2>2, <2>3 DEF IndInv, OrderInv
    <2>4. CASE delivered' # delivered
      <3>1. PICK s \in SliceType :
                delivered' = Append(delivered, s) /\ s.key = process_at
        BY <2>4, SliceIsAcceptable DEF Slice
      <3>2. delivered \in Seq(SliceType)
        BY DEF IndInv, OrderInv
      <3>3. /\ delivered' \in Seq(SliceType)
            /\ \A j \in 1..Len(delivered') :
                delivered'[j] = IF j <= Len(delivered) THEN delivered[j] ELSE s
        BY <3>1, <3>2
      <3>4. \A j \in 1..Len(delivered') : delivered'[j].key <= process_at
        BY <1>1, <3>1, <3>2, <3>3 DEF IndInv, OrderInv
      <3> QED
        BY <1>1, <2>1, <2>2, <3>3, <3>4 DEF IndInv, OrderInv
    <2> QED
      BY <2>3, <2>4
  <1> QED
    BY <1>2, <1>3, <1>4, <1>5 DEF IndInv

\* Marking an entry as late leaves its cycle and its headers alone.
LEMMA EmplaceInv ==
  ASSUME IndInv, Emplace
  PROVE  IndInv'
  <1> DEFINE i == Index(process_at)
  <1>1. process_at \in Int
    BY KeysArePositive, SizesAssumption DEF IndInv, TypeOK, process_at
  <1>2. i \in 0..(N - 1)
    BY <1>1, IndexInRange
  <1>3. entry' = [entry EXCEPT ![i] = Processed(entry[i])]
    BY DEF Emplace
  <1>4. entry[i] \in Entry
    BY <1>2 DEF IndInv, TypeOK
  <1>5. /\ Processed(entry[i]) \in Entry
        /\ Processed(entry[i]).latest = entry[i].latest
        /\ Processed(entry[i]).models = entry[i].models
    BY <1>4 DEF Processed, Entry
  <1> HIDE DEF i
  <1>6. entry' \in [0..(N - 1) -> Entry]
    BY <1>2, <1>3, <1>5 DEF IndInv, TypeOK
  <1>7. \A k \in 0..(N - 1) : /\ entry'[k].latest = entry[k].latest
                              /\ entry'[k].models = entry[k].models
    BY <1>2, <1>3, <1>5 DEF IndInv, TypeOK
  <1>8. TypeOK'
    <2>1. queued' \in 0..QueueSize
      BY SizesAssumption DEF IndInv, TypeOK, Emplace
    <2> QED
      BY <1>6, <1>7, <2>1 DEF IndInv, TypeOK, Emplace, threadVars
  <1>9. OneCycleInv'
    BY <1>7 DEF IndInv, OneCycleInv
  <1>10. StoredInv'
    <2>1. \A key \in Keys \cup {0} : Stored(key) => Stored(key)'
      <3> SUFFICES ASSUME NEW key \in Keys \cup {0}, Stored(key)
                   PROVE  Stored(key)'
        OBVIOUS
      <3>1. Index(key) \in 0..(N - 1)
        BY IndexInRange, KeysArePositive
      <3> QED
        BY <1>7, <3>1 DEF Stored
    <2>2. /\ latest_' = latest_ /\ last_received' = last_received
          /\ tpc' = tpc /\ tkey' = tkey
      BY DEF Emplace, threadVars
    <2> QED
      BY <2>1, <2>2 DEF IndInv, StoredInv, TypeOK, Stored
  <1>11. OrderInv'
    BY DEF IndInv, OrderInv, Emplace, process_at
  <1> QED
    BY <1>8, <1>9, <1>10, <1>11 DEF IndInv

\* The statistics thread changes the queue only (DCStats::get_message).
LEMMA PopInv ==
  ASSUME IndInv, Pop
  PROVE  IndInv'
  <1>1. TypeOK'
    BY SizesAssumption DEF IndInv, TypeOK, Pop, bufferVars, threadVars
  <1>2. OneCycleInv'
    BY DEF IndInv, OneCycleInv, Pop, bufferVars
  <1>3. StoredInv'
    BY DEF IndInv, StoredInv, Stored, Pop, bufferVars, threadVars
  <1>4. OrderInv'
    BY DEF IndInv, OrderInv, Pop, process_at
  <1> QED
    BY <1>1, <1>2, <1>3, <1>4 DEF IndInv

\* Moving the counters to the totals leaves the buffer alone.
LEMMA ReportInv ==
  ASSUME IndInv, Report
  PROVE  IndInv'
  <1>1. TypeOK'
    BY DEF IndInv, TypeOK, Report, threadVars
  <1>2. OneCycleInv'
    BY DEF IndInv, OneCycleInv, Report
  <1>3. StoredInv'
    BY DEF IndInv, StoredInv, Stored, Report, threadVars
  <1>4. OrderInv'
    BY DEF IndInv, OrderInv, Report, process_at
  <1> QED
    BY <1>1, <1>2, <1>3, <1>4 DEF IndInv

\* Time alone changes nothing in the receiver.
LEMMA TickInv ==
  ASSUME IndInv, Tick
  PROVE  IndInv'
  <1>1. TypeOK'
    BY SizesAssumption DEF IndInv, TypeOK, Tick, Keys, bufferVars, threadVars,
       readerVars
  <1>2. OneCycleInv'
    BY DEF IndInv, OneCycleInv, Tick, bufferVars
  <1>3. StoredInv'
    BY DEF IndInv, StoredInv, Stored, Tick, bufferVars, threadVars, readerVars
  <1>4. OrderInv'
    BY DEF IndInv, OrderInv, Tick, process_at, readerVars
  <1> QED
    BY <1>1, <1>2, <1>3, <1>4 DEF IndInv

\* Every step of the receiver keeps the invariant.
LEMMA NextInv == IndInv /\ [Next]_vars => IndInv'
  <1> SUFFICES ASSUME IndInv, [Next]_vars PROVE IndInv'
    OBVIOUS
  <1>1. CASE Tick
    BY <1>1, TickInv
  <1>2. ASSUME NEW t \in Threads, NEW p \in Publishers, NEW key \in Keys,
               Ingest(t, p, key)
        PROVE  IndInv'
    BY <1>2, IngestInv
  <1>3. ASSUME NEW t \in Threads, LoadLatest(t) PROVE IndInv'
    BY <1>3, LoadLatestInv
  <1>4. ASSUME NEW t \in Threads, CasLatest(t) PROVE IndInv'
    BY <1>4, CasLatestInv
  <1>5. CASE Poll
    BY <1>5, PollInv
  <1>6. CASE ProcessSlice
    BY <1>6, ProcessSliceInv
  <1>7. CASE Report
    BY <1>7, ReportInv
  <1>8. CASE Emplace
    BY <1>8, EmplaceInv
  <1>9. CASE Pop
    BY <1>9, PopInv
  <1>10. CASE UNCHANGED vars
    BY <1>10 DEF vars, bufferVars, threadVars, readerVars, IndInv, TypeOK,
       OneCycleInv, StoredInv, Stored, OrderInv, process_at
  <1> QED
    BY <1>1, <1>2, <1>3, <1>4, <1>5, <1>6, <1>7, <1>8, <1>9,
       <1>10 DEF Next

-----------------------------------------------------------------------------
(* Theorems *)

\* In every reachable state IndInv holds.
THEOREM RecvInvariance == Spec => []IndInv
  BY InitInv, NextInv, PTL DEF Spec

\* Types, and the room in an entry, whatever the messages (TypeOK).
THEOREM RecvTypeCorrect == Spec => []TypeOK
  <1>1. IndInv => TypeOK
    BY DEF IndInv
  <1> QED
    BY <1>1, RecvInvariance, PTL

\* The main loop is never woken for a cycle that no entry has seen: the
\* callback stores a message before it announces its key.
THEOREM StoredBeforeAnnounced == Spec => []WokenForStoredCycle
  <1>1. IndInv => WokenForStoredCycle
    BY DEF IndInv, StoredInv, Stored, WokenForStoredCycle
  <1> QED
    BY <1>1, RecvInvariance, PTL

\* The receiver implements the channel: the slices the recorder gets are in
\* strictly increasing order of their cycles and of one cycle each.
THEOREM Refinement == Spec => ImplementsChannel
  <1>1. Init => Channel!Init
    BY DEF Init, Channel!Init
  <1>2. IndInv /\ [Next]_vars => [Channel!Deliver]_delivered
    <2> SUFFICES ASSUME IndInv, [Next]_vars, delivered' # delivered
                 PROVE  Channel!Deliver
      OBVIOUS
    <2>1. ProcessSlice
      BY DEF Next, Tick, Ingest, LoadLatest, CasLatest, Poll, Emplace, Pop,
         Report, vars
    <2>2. PICK s \in SliceType : /\ delivered' = Append(delivered, s)
                             /\ Channel!Acceptable(s)
      BY <2>1, SliceIsAcceptable
    <2>3. delivered \in Seq(SliceType)
      BY DEF IndInv, OrderInv
    <2>4. /\ Len(delivered') = Len(delivered) + 1
          /\ delivered'[Len(delivered')] = s
      BY <2>2, <2>3
    <2> QED
      BY <2>2, <2>4 DEF Channel!Deliver
  <1> QED
    BY <1>1, <1>2, RecvInvariance, PTL DEF Spec, ImplementsChannel, Channel!Spec

-----------------------------------------------------------------------------
(* Counting messages *)

\* Copies, with the history of arrivals as a parameter.
CopiesIn(a, K) ==
    {m \in (Publishers \X K) \X (1..MaxCopies) : m[2] <= a[m[1][1]][m[1][2]]}

\* There are finitely many messages, and more cycles have more of them.
LEMMA CopiesFinite ==
    ASSUME NEW a, NEW K \in SUBSET Keys
    PROVE  /\ IsFiniteSet(CopiesIn(a, K))
           /\ Cardinality(CopiesIn(a, K)) \in Nat
           /\ \A L \in SUBSET K :
                Cardinality(CopiesIn(a, L)) <= Cardinality(CopiesIn(a, K))
<1>1. IsFiniteSet(Keys)
  BY SizesAssumption, FS_Interval DEF Keys
<1>2. IsFiniteSet(K)
  BY <1>1, FS_Subset
<1>3. IsFiniteSet(Publishers \X K)
  BY <1>2, ModelsAssumption, FS_Product
<1>4. IsFiniteSet(1..MaxCopies)
  BY SizesAssumption, FS_Interval
<1>5. IsFiniteSet((Publishers \X K) \X (1..MaxCopies))
  BY <1>3, <1>4, FS_Product
<1>6. CopiesIn(a, K) \in SUBSET ((Publishers \X K) \X (1..MaxCopies))
  BY DEF CopiesIn
<1>7. IsFiniteSet(CopiesIn(a, K))
  BY <1>5, <1>6, FS_Subset
<1>8. ASSUME NEW L \in SUBSET K
      PROVE  Cardinality(CopiesIn(a, L)) <= Cardinality(CopiesIn(a, K))
  <2>1. CopiesIn(a, L) \in SUBSET CopiesIn(a, K)
    BY DEF CopiesIn
  <2> QED BY <1>7, <2>1, FS_Subset
<1> QED BY <1>7, <1>8, FS_CardinalityType

\* The messages of one more cycle come on top of the others.
LEMMA CopiesOfOneMore ==
    ASSUME NEW a, NEW K \in SUBSET Keys, NEW key \in Keys, key \notin K
    PROVE  Cardinality(CopiesIn(a, K \cup {key}))
             = Cardinality(CopiesIn(a, K)) + Cardinality(CopiesIn(a, {key}))
<1>1. {key} \in SUBSET Keys
  OBVIOUS
<1>2. /\ IsFiniteSet(CopiesIn(a, K)) /\ Cardinality(CopiesIn(a, K)) \in Nat
      /\ IsFiniteSet(CopiesIn(a, {key})) /\ Cardinality(CopiesIn(a, {key})) \in Nat
  BY <1>1, CopiesFinite
<1>3. CopiesIn(a, K \cup {key}) = CopiesIn(a, K) \cup CopiesIn(a, {key})
  BY DEF CopiesIn
<1>4. CopiesIn(a, K) \cap CopiesIn(a, {key}) = {}
  BY DEF CopiesIn
<1>5. Cardinality(CopiesIn(a, K) \cup CopiesIn(a, {key}))
        = Cardinality(CopiesIn(a, K)) + Cardinality(CopiesIn(a, {key})) - Cardinality({})
  BY <1>2, <1>4, FS_Union
<1>6. Cardinality({}) = 0
  BY FS_EmptySet
<1> DEFINE x == Cardinality(CopiesIn(a, K))
           y == Cardinality(CopiesIn(a, {key}))
           z == Cardinality(CopiesIn(a, K \cup {key}))
<1>7. x \in Nat /\ y \in Nat /\ z = x + y - 0
  BY <1>2, <1>3, <1>5, <1>6
<1> HIDE DEF x, y, z
<1>8. z = x + y
  BY <1>7
<1> QED BY <1>8 DEF x, y, z

Bumped(a, p, key) == [a EXCEPT ![p][key] = @ + 1]

\* An arrival adds one message to its cycle and none to another.
LEMMA CopiesAfterArrival ==
    ASSUME NEW a \in [Publishers -> [Keys -> 0..MaxCopies]],
           NEW p \in Publishers, NEW key \in Keys, a[p][key] < MaxCopies
    PROVE  LET b == Bumped(a, p, key) IN
           /\ b \in [Publishers -> [Keys -> 0..MaxCopies]]
           /\ \A K \in SUBSET Keys :
                /\ key \notin K => CopiesIn(b, K) = CopiesIn(a, K)
                /\ key \in K => /\ CopiesIn(b, K) # {}
                                /\ Cardinality(CopiesIn(b, K))
                                     = Cardinality(CopiesIn(a, K)) + 1
<1> DEFINE b == Bumped(a, p, key)
<1>1. a[p][key] \in 0..MaxCopies /\ MaxCopies \in Nat
  BY SizesAssumption
<1>2. /\ b \in [Publishers -> [Keys -> 0..MaxCopies]]
      /\ \A q \in Publishers, k \in Keys :
            b[q][k] = IF q = p /\ k = key THEN a[p][key] + 1 ELSE a[q][k]
  BY <1>1 DEF Bumped
<1> HIDE DEF b
<1>3. ASSUME NEW K \in SUBSET Keys, key \notin K
      PROVE  CopiesIn(b, K) = CopiesIn(a, K)
  <2>1. \A q \in Publishers, k \in K : b[q][k] = a[q][k]
    BY <1>2, <1>3
  <2> QED BY <2>1 DEF CopiesIn
<1>4. ASSUME NEW K \in SUBSET Keys, key \in K
      PROVE  /\ CopiesIn(b, K) # {}
             /\ Cardinality(CopiesIn(b, K)) = Cardinality(CopiesIn(a, K)) + 1
  <2> DEFINE m == <<<<p, key>>, a[p][key] + 1>>
  <2>1. a[p][key] + 1 \in 1..MaxCopies
    BY <1>1
  <2>2. m \notin CopiesIn(a, K)
    BY <1>1 DEF CopiesIn
  <2>3. CopiesIn(b, K) = CopiesIn(a, K) \cup {m}
    <3>1. ASSUME NEW q \in Publishers, NEW k \in K, NEW n \in 1..MaxCopies
          PROVE  n <= b[q][k] <=> n <= a[q][k] \/ <<<<q, k>>, n>> = m
      <4>1. CASE q = p /\ k = key
        <5>1. b[q][k] = a[p][key] + 1
          BY <1>2, <4>1
        <5>2. n <= a[p][key] + 1 <=> n <= a[p][key] \/ n = a[p][key] + 1
          <6>1. \A c, d \in Int : d <= c + 1 <=> d <= c \/ d = c + 1
            OBVIOUS
          <6>2. a[p][key] \in Int /\ n \in Int
            BY <1>1
          <6> QED BY <6>1, <6>2
        <5> QED BY <4>1, <5>1, <5>2
      <4>2. CASE ~(q = p /\ k = key)
        <5>1. b[q][k] = a[q][k]
          BY <1>2, <4>2
        <5> QED BY <4>2, <5>1
      <4> QED BY <4>1, <4>2
    <3>2. ASSUME NEW x
          PROVE  x \in CopiesIn(b, K) <=> x \in CopiesIn(a, K) \cup {m}
      <4>1. CASE \E q \in Publishers, k \in K, n \in 1..MaxCopies : x = <<<<q, k>>, n>>
        <5>1. PICK q \in Publishers, k \in K, n \in 1..MaxCopies : x = <<<<q, k>>, n>>
          BY <4>1
        <5>2. x \in (Publishers \X K) \X (1..MaxCopies)
              /\ x[2] = n /\ x[1][1] = q /\ x[1][2] = k
          BY <5>1
        <5>3. x \in CopiesIn(b, K) <=> n <= b[q][k]
          BY <5>2 DEF CopiesIn
        <5>4. x \in CopiesIn(a, K) <=> n <= a[q][k]
          BY <5>2 DEF CopiesIn
        <5> QED BY <3>1, <5>1, <5>3, <5>4
      <4>2. CASE ~\E q \in Publishers, k \in K, n \in 1..MaxCopies : x = <<<<q, k>>, n>>
        <5>1. x \notin (Publishers \X K) \X (1..MaxCopies)
          BY <4>2
        <5>2. x # m
          BY <1>4, <2>1, <4>2
        <5> QED BY <5>1, <5>2 DEF CopiesIn
      <4> QED BY <4>1, <4>2
    <3> QED BY <3>2
  <2>4. IsFiniteSet(CopiesIn(a, K)) /\ Cardinality(CopiesIn(a, K)) \in Nat
    BY CopiesFinite
  <2> HIDE DEF m
  <2> QED BY <2>2, <2>3, <2>4, FS_AddElement
<1> QED BY <1>2, <1>3, <1>4 DEF b

-----------------------------------------------------------------------------
(* Every step keeps the accounts *)

\* At the start nothing has arrived and nothing is counted.
LEMMA InitAccount == Init => AccountInv
<1> SUFFICES ASSUME Init PROVE AccountInv
  OBVIOUS
<1>1. /\ arrived \in [Publishers -> [Keys -> 0..MaxCopies]]
      /\ \A K \in SUBSET Keys : Copies(K) = {}
  <2>1. /\ arrived \in [Publishers -> [Keys -> 0..MaxCopies]]
        /\ \A p \in Publishers, k \in Keys : arrived[p][k] = 0
    BY SizesAssumption DEF Init
  <2> QED BY <2>1, SizesAssumption DEF Copies
<1>2. \A i \in 0..(N - 1) : entry[i].latest = 0 /\ ~entry[i].is_late_
  BY DEF Init, EmptyEntry
<1>3. \A key \in Keys : Index(key) \in 0..(N - 1) /\ key # 0
  BY IndexInRange, KeysArePositive
<1>4. DeliveredKeys = {} /\ InSlices = {} /\ rpc = "poll"
  BY DEF Init, DeliveredKeys, InSlices, Delivered
<1>5. TakenInv
  BY <1>1, <1>2, <1>3 DEF TakenInv
<1>6. LateInv
  BY <1>2, <1>4 DEF LateInv
<1>7. CountInv
  <2>1. /\ Copies(DeliveredKeys) = {} /\ Copies(Keys \ Pending) = {}
    BY <1>1, <1>4
  <2>2. Counted = 0
    BY DEF Init, Counted
  <2>3. /\ late_entries_ \in Nat /\ discarded_entries_ \in Nat
        /\ late_messages \in Nat /\ very_late_messages \in Nat
    BY DEF Init
  <2>4. IsFiniteSet({}) /\ Cardinality({}) = 0
    BY FS_EmptySet
  <2> QED BY <1>4, <2>1, <2>2, <2>3, <2>4 DEF CountInv
<1> QED BY <1>5, <1>6, <1>7 DEF AccountInv

\* Steps that touch neither entries nor slices nor what is counted in all.
LEMMA QuietAccount ==
    ASSUME AccountInv, UNCHANGED <<entry, delivered, arrived>>,
           late_entries_' \in Nat /\ discarded_entries_' \in Nat,
           late_messages' \in Nat /\ very_late_messages' \in Nat,
           Counted' = Counted,
           \/ rpc # "emplace" /\ rpc' # "emplace"
           \/ UNCHANGED <<rpc, last_received>>
    PROVE  AccountInv'
<1>1. /\ DeliveredKeys' = DeliveredKeys /\ InSlices' = InSlices
      /\ Pending' = Pending
      /\ \A K : Copies(K)' = Copies(K)
  BY DEF DeliveredKeys, InSlices, Pending, Copies, Delivered
<1>2. TakenInv'
  BY <1>1 DEF AccountInv, TakenInv
<1>3. LateInv'
  BY <1>1 DEF AccountInv, LateInv, process_at
<1>4. CountInv'
  BY <1>1 DEF AccountInv, CountInv
<1> QED BY <1>2, <1>3, <1>4 DEF AccountInv

\* Once a second Report moves the counters to the totals, none gets lost.
LEMMA ReportAccount ==
    ASSUME AccountInv, Report
    PROVE  AccountInv'
<1>1. /\ late_entries_ \in Nat /\ discarded_entries_ \in Nat
      /\ late_messages \in Nat /\ very_late_messages \in Nat
  BY DEF AccountInv, CountInv
<1>2. /\ late_entries_' \in Nat /\ discarded_entries_' \in Nat
      /\ late_messages' \in Nat /\ very_late_messages' \in Nat
      /\ Counted' = Counted
  BY <1>1 DEF Report, Counted
<1> QED BY <1>2, QuietAccount DEF Report

\* The main loop marks the entry it has handed on and unlocks it.
LEMMA EmplaceAccount ==
    ASSUME IndInv, AccountInv, Emplace
    PROVE  AccountInv'
<1> DEFINE i == Index(process_at)
<1>1. process_at \in Int /\ i \in 0..(N - 1)
  <2>1. process_at \in Int
    BY KeysArePositive, SizesAssumption DEF IndInv, TypeOK, process_at
  <2> QED BY <2>1, IndexInRange
<1>2. entry' = [entry EXCEPT ![i] = Processed(entry[i])] /\ rpc = "emplace" /\ rpc' = "stats"
  BY DEF Emplace
<1>3. process_at \in DeliveredKeys /\ entry[i].latest = process_at
  BY <1>2 DEF AccountInv, LateInv
<1>4. \A k \in 0..(N - 1) :
        /\ entry'[k].latest = entry[k].latest /\ entry'[k].msgs = entry[k].msgs
        /\ k # i => entry'[k] = entry[k]
        /\ k = i => entry'[k].is_late_
  <2>1. entry \in [0..(N - 1) -> Entry]
    BY DEF IndInv, TypeOK
  <2> HIDE DEF i
  <2> QED BY <1>1, <1>2, <2>1 DEF Processed
<1>5. DeliveredKeys' = DeliveredKeys /\ InSlices' = InSlices /\ Counted' = Counted
      /\ \A K : Copies(K)' = Copies(K)
  BY DEF DeliveredKeys, InSlices, Copies, Delivered, Emplace, Counted
<1>6. \A key \in Keys : Index(key) \in 0..(N - 1)
  BY IndexInRange, KeysArePositive
<1>7. Pending' = Pending
  BY <1>4, <1>5, <1>6 DEF Pending
<1> HIDE DEF i
<1>8. TakenInv'
  BY <1>4, <1>5, <1>6 DEF AccountInv, TakenInv, Emplace
<1>9. LateInv'
  <2>1. ASSUME NEW k \in 0..(N - 1), entry'[k].is_late_
        PROVE  entry'[k].latest \in DeliveredKeys
    BY <1>3, <1>4, <2>1 DEF AccountInv, LateInv
  <2>2. ASSUME NEW key \in DeliveredKeys
        PROVE  /\ key \in Keys /\ entry'[Index(key)].latest >= key
               /\ entry'[Index(key)].latest = key => entry'[Index(key)].is_late_
    <3>1. /\ key \in Keys /\ entry[Index(key)].latest >= key
          /\ entry[Index(key)].latest = key =>
                entry[Index(key)].is_late_ \/ key = process_at
      BY DEF AccountInv, LateInv
    <3> QED BY <1>4, <1>6, <3>1 DEF i
  <2> QED BY <1>2, <1>5, <2>1, <2>2 DEF LateInv
<1>10. CountInv'
  BY <1>5, <1>7 DEF AccountInv, CountInv, Emplace
<1> QED BY <1>8, <1>9, <1>10 DEF AccountInv

\* Another slice adds its messages to those in slices.
LEMMA SliceAdds ==
    ASSUME delivered \in Seq(SliceType), NEW s \in SliceType,
           delivered' = Append(delivered, s), IsFiniteSet(InSlices)
    PROVE  /\ IsFiniteSet(InSlices')
           /\ Cardinality(InSlices') = Cardinality(InSlices) + s.msgs
           /\ DeliveredKeys' = DeliveredKeys \cup {s.key}
<1> DEFINE n == Len(delivered) + 1
           T == {n} \X (1..s.msgs)
<1>1. n \in Nat /\ s.msgs \in Nat /\ Len(delivered) \in Nat
  BY DEF SliceType
<1>2. /\ 1..Len(delivered') = (1..Len(delivered)) \cup {n}
      /\ \A i \in 1..Len(delivered) : delivered'[i] = delivered[i]
      /\ delivered'[n] = s
  BY <1>1
<1>3. DeliveredKeys' = DeliveredKeys \cup {s.key}
  BY <1>2 DEF DeliveredKeys, Delivered
<1>4. InSlices' = InSlices \cup T
  BY <1>2 DEF InSlices, Delivered
<1>5. InSlices \cap T = {}
  <2>1. n \notin 1..Len(delivered)
    BY <1>1
  <2> QED BY <2>1 DEF InSlices, Delivered
<1>6. IsFiniteSet(T) /\ Cardinality(T) = s.msgs
  <2>1. IsFiniteSet(1..s.msgs) /\ Cardinality(1..s.msgs) = s.msgs
    <3>1. \A m \in Nat : IsFiniteSet(1..m) /\ Cardinality(1..m) = m
      BY FS_Interval
    <3> QED BY <1>1, <3>1
  <2>2. IsFiniteSet({n}) /\ Cardinality({n}) = 1
    BY FS_Singleton
  <2>3. IsFiniteSet(T) /\ Cardinality(T) = 1 * s.msgs
    BY <2>1, <2>2, FS_Product
  <2> QED BY <1>1, <2>3
<1> HIDE DEF T
<1>7. IsFiniteSet(InSlices') /\
      Cardinality(InSlices') = Cardinality(InSlices) + s.msgs - Cardinality({})
  BY <1>4, <1>5, <1>6, FS_Union
<1>8. Cardinality({}) = 0 /\ Cardinality(InSlices) \in Nat
  BY FS_EmptySet, FS_CardinalityType
<1> QED BY <1>1, <1>3, <1>7, <1>8

\* A slice that is handed on holds every message of its cycle that has arrived,
\* and none of them has been counted.
LEMMA ProcessSliceAccount ==
    ASSUME IndInv, AccountInv, ProcessSlice
    PROVE  AccountInv'
<1> DEFINE k == process_at
           i == Index(k)
           s == Slice(i)
<1>1. CASE entry[i].latest # k
  <2>1. delivered' = delivered /\ rpc' = "stats" /\ rpc = "delay"
    BY <1>1 DEF ProcessSlice
  <2>2. UNCHANGED <<entry, arrived, late_entries_, discarded_entries_,
                    late_messages, very_late_messages>>
    BY DEF ProcessSlice, bufferVars
  <2>3. Counted' = Counted /\
        late_entries_' \in Nat /\ discarded_entries_' \in Nat
        /\ late_messages' \in Nat /\ very_late_messages' \in Nat
    BY <2>2 DEF AccountInv, CountInv, Counted
  <2> QED BY <2>1, <2>2, <2>3, QuietAccount
<1>2. CASE entry[i].latest = k
  <2>1. delivered' = Append(delivered, s) /\ rpc = "delay" /\ rpc' = "emplace"
    BY <1>2 DEF ProcessSlice
  <2>2. UNCHANGED <<entry, arrived, last_received, late_entries_,
                    discarded_entries_, late_messages, very_late_messages>>
    BY DEF ProcessSlice, bufferVars
  <2>3. k \in Int /\ k # 0 /\ k' = k
    BY <2>1, <2>2, KeysArePositive, SizesAssumption
       DEF IndInv, TypeOK, OrderInv, process_at, Keys
  <2>4. i \in 0..(N - 1)
    BY <2>3, IndexInRange
  <2>5. entry[i] \in Entry
    BY <2>4 DEF IndInv, TypeOK
  <2>6. k \in Keys
    BY <1>2, <2>3, <2>5 DEF Entry
  <2>7. delivered \in Seq(SliceType) /\ \A d \in DeliveredKeys : d # k
    <3>1. delivered \in Seq(SliceType)
          /\ \A j \in 1..Len(delivered) : delivered[j].key < k
      BY <2>1 DEF IndInv, OrderInv
    <3>2. \A j \in 1..Len(delivered) : delivered[j].key \in Int
      <4>1. \A j \in 1..Len(delivered) : delivered[j] \in SliceType
        BY <3>1
      <4> QED BY <4>1 DEF SliceType
    <3> QED BY <2>3, <3>1, <3>2 DEF DeliveredKeys, Delivered
  <2>8. s \in SliceType /\ s.key = k /\ s.msgs = Cardinality(Copies({k}))
    BY <1>2, <2>3, <2>5, <2>6 DEF Slice, SliceType, Entry, AccountInv, TakenInv
  <2>9. IsFiniteSet(InSlices) /\ Cardinality(InSlices) \in Nat
    BY FS_CardinalityType DEF AccountInv, CountInv
  <2> HIDE DEF s
  <2>10. /\ IsFiniteSet(InSlices')
         /\ Cardinality(InSlices') = Cardinality(InSlices) + s.msgs
         /\ DeliveredKeys' = DeliveredKeys \cup {k}
    BY <2>1, <2>7, <2>8, <2>9, SliceAdds
  <2>11. \A K : Copies(K)' = Copies(K)
    BY <2>2 DEF Copies
  <2>12. TakenInv'
    BY <2>2, <2>11 DEF AccountInv, TakenInv
  <2>13. LateInv'
    <3>1. ASSUME NEW d \in DeliveredKeys
          PROVE  /\ d \in Keys /\ entry'[Index(d)].latest >= d
                 /\ entry'[Index(d)].latest = d => entry'[Index(d)].is_late_
      BY <2>1, <2>2 DEF AccountInv, LateInv
    <3>2. k \in Keys /\ entry'[Index(k)].latest = k /\ entry'[Index(k)].latest >= k
      BY <1>2, <2>2, <2>3, <2>6
    <3>3. \A j \in 0..(N - 1) : entry'[j].is_late_ => entry'[j].latest \in DeliveredKeys
      BY <2>2 DEF AccountInv, LateInv
    <3> QED BY <2>1, <2>3, <2>10, <3>1, <3>2, <3>3 DEF LateInv
  <2>14. CountInv'
    <3> DEFINE dk == DeliveredKeys
               open == Keys \ Pending
    <3>1. dk \in SUBSET Keys /\ k \notin dk
      BY <2>7 DEF AccountInv, LateInv
    <3>2. k \in Pending /\ Pending' = Pending \ {k}
      BY <1>2, <2>2, <2>6, <2>7, <2>10 DEF Pending
    <3>3. open \in SUBSET Keys /\ k \notin open /\ (Keys \ Pending') = open \cup {k}
      BY <2>6, <3>2
    <3> HIDE DEF k, i, dk, open
    <3>4. /\ Cardinality(Copies(dk)) \in Nat /\ Cardinality(Copies(open)) \in Nat
          /\ Cardinality(Copies({k})) \in Nat
          /\ Cardinality(Copies(dk \cup {k}))
               = Cardinality(Copies(dk)) + Cardinality(Copies({k}))
          /\ Cardinality(Copies(open \cup {k}))
               = Cardinality(Copies(open)) + Cardinality(Copies({k}))
      <4>1. \A K : Copies(K) = CopiesIn(arrived, K)
        BY DEF Copies, CopiesIn
      <4>2. {k} \in SUBSET Keys
        BY <2>6
      <4> QED BY <2>6, <3>1, <3>3, <4>1, <4>2, CopiesFinite, CopiesOfOneMore
    <3>5. Counted' = Counted /\ Counted \in Nat
          /\ late_entries_' \in Nat /\ discarded_entries_' \in Nat
          /\ late_messages' \in Nat /\ very_late_messages' \in Nat
      BY <2>2 DEF AccountInv, CountInv, Counted
    <3>6. /\ Cardinality(Copies(dk)) <= Cardinality(InSlices) + Counted
          /\ Counted + Cardinality(InSlices) <= Cardinality(Copies(open))
      BY DEF AccountInv, CountInv, dk, open
    <3>7. Copies(DeliveredKeys)' = Copies(dk \cup {k})
          /\ Copies(Keys \ Pending)' = Copies(open \cup {k})
      BY <2>2, <2>10, <3>3 DEF Copies, dk
    <3>8. /\ Cardinality(Copies(dk \cup {k})) <= Cardinality(InSlices') + Counted'
          /\ Counted' + Cardinality(InSlices') <= Cardinality(Copies(open \cup {k}))
      BY <2>8, <2>9, <2>10, <3>4, <3>5, <3>6
    <3> QED BY <2>10, <3>5, <3>7, <3>8 DEF CountInv
  <2> QED BY <2>12, <2>13, <2>14 DEF AccountInv
<1> QED BY <1>1, <1>2

\* What Ingest does to the entry of its key: nothing, or one message more at the
\* key it is at, or a new start at a later key.
LEMMA IngestEffect ==
    ASSUME IndInv, NEW t \in Threads, NEW p \in Publishers, NEW key \in Keys,
           Ingest(t, p, key)
    PROVE  LET i == Index(key) IN
           /\ i \in 0..(N - 1) /\ entry[i] \in Entry /\ entry[i].latest \in Nat
           /\ \A j \in 0..(N - 1) : j # i => entry'[j] = entry[j]
           /\ key < entry[i].latest =>
                 /\ entry' = entry
                 /\ late_entries_' = late_entries_
                 /\ discarded_entries_' = discarded_entries_ + 1
           /\ key = entry[i].latest =>
                 /\ entry'[i].latest = key
                 /\ entry'[i].is_late_ = entry[i].is_late_
                 /\ entry'[i].msgs = entry[i].msgs + 1
                 /\ late_entries_' = late_entries_ + (IF entry[i].is_late_ THEN 1 ELSE 0)
                 /\ discarded_entries_' = discarded_entries_
           /\ key > entry[i].latest =>
                 /\ entry'[i].latest = key
                 /\ entry'[i].is_late_ = FALSE /\ entry'[i].msgs = 1
                 /\ late_entries_' = late_entries_ + 0
                 /\ discarded_entries_' = discarded_entries_
<1> DEFINE i == Index(key)
           e == IF key > entry[i].latest THEN clear(entry[i]) ELSE entry[i]
           s == Store(e, p, key)
<1>1. i \in 0..(N - 1) /\ key \in Nat
  BY IndexInRange, KeysArePositive
<1>2. entry[i] \in Entry /\ Len(entry[i].models) <= MaxDcu
      /\ entry \in [0..(N - 1) -> Entry]
  BY <1>1 DEF IndInv, TypeOK
<1>3. entry[i].latest \in Nat
  BY <1>2, KeysArePositive DEF Entry
<1>4. CASE Stale(entry[i], key)
  <2>1. key < entry[i].latest /\ entry' = entry /\ late_entries_' = late_entries_
        /\ discarded_entries_' = discarded_entries_ + 1
    BY <1>4 DEF Ingest, Stale
  <2> QED BY <1>1, <1>2, <1>3, <2>1
<1>5. CASE ~Stale(entry[i], key)
  <2>1. key >= entry[i].latest
    BY <1>1, <1>3, <1>5 DEF Stale
  <2>2. /\ entry' = [entry EXCEPT ![i] = s]
        /\ late_entries_' = late_entries_ + (IF e.is_late_ THEN 1 ELSE 0)
        /\ discarded_entries_' = discarded_entries_ /\ WellFormed(p)
    BY <1>5 DEF Ingest
  <2>3. e \in Entry /\ Len(e.models) <= MaxDcu /\ e.latest = entry[i].latest
        /\ (e.latest < key => e.models = <<>>)
    <3>1. CASE key > entry[i].latest
      BY <1>2, <3>1, SizesAssumption DEF clear, Entry
    <3>2. CASE key = entry[i].latest
      <4>1. e = entry[i]
        BY <1>1, <3>2
      <4> QED BY <1>1, <1>2, <3>2, <4>1
    <3> QED BY <1>1, <1>3, <2>1, <3>1, <3>2
  <2>4. s.latest = key
    BY <2>1, <2>2, <2>3, StoreType
  <2>5. s.is_late_ = e.is_late_ /\ s.msgs = e.msgs + 1
    BY DEF Store
  <2>6. entry'[i] = s /\ \A j \in 0..(N - 1) : j # i => entry'[j] = entry[j]
    BY <1>1, <1>2, <2>2
  <2>7. CASE key > entry[i].latest
    <3>1. e.is_late_ = FALSE /\ e.msgs = 0
      BY <2>7 DEF clear
    <3> HIDE DEF s, e
    <3> QED BY <1>1, <1>2, <1>3, <2>2, <2>4, <2>5, <2>6, <2>7, <3>1
  <2>8. CASE key = entry[i].latest
    <3>1. e = entry[i]
      BY <1>1, <2>8
    <3>2. late_entries_' = late_entries_ + (IF entry[i].is_late_ THEN 1 ELSE 0)
      BY <2>2, <3>1
    <3>3. s.is_late_ = entry[i].is_late_ /\ s.msgs = entry[i].msgs + 1
      BY <2>5, <3>1
    <3> HIDE DEF s, e, i
    <3>4. entry'[i].is_late_ = entry[i].is_late_ /\ entry'[i].msgs = entry[i].msgs + 1
          /\ entry'[i].latest = key
      BY <2>4, <2>6, <3>3
    <3>5. discarded_entries_' = discarded_entries_
      BY <2>2
    <3> QED BY <1>1, <1>2, <1>3, <2>6, <2>8, <3>2, <3>4, <3>5 DEF i
  <2>9. key > entry[i].latest \/ key = entry[i].latest
    BY <1>1, <1>3, <2>1
  <2> QED BY <2>7, <2>8, <2>9
<1> QED BY <1>4, <1>5

\* Every message that arrives is taken or counted, and is counted when its slice
\* has been handed on.
LEMMA IngestAccount ==
    ASSUME IndInv, AccountInv, NEW t \in Threads, NEW p \in Publishers,
           NEW key \in Keys, Ingest(t, p, key)
    PROVE  AccountInv'
<1> DEFINE i == Index(key)
           dk == DeliveredKeys
           open == Keys \ Pending
           a == arrived
           b == arrived'
           C(K) == Cardinality(CopiesIn(a, K))
           D(K) == Cardinality(CopiesIn(b, K))
<1>1. key \in Nat /\ \A k \in Keys : k \in Nat /\ Index(k) \in 0..(N - 1)
  BY IndexInRange, KeysArePositive
<1>2. /\ i \in 0..(N - 1) /\ entry[i] \in Entry /\ entry[i].latest \in Nat
      /\ \A j \in 0..(N - 1) : j # i => entry'[j] = entry[j]
  BY IngestEffect
<1>3. /\ UNCHANGED <<delivered, rpc, last_received, late_messages, very_late_messages>>
      /\ ~EntryLocked(i) /\ a[p][key] < MaxCopies
      /\ b = [a EXCEPT ![p][key] = @ + 1]
  BY DEF Ingest, readerVars
<1>4. DeliveredKeys' = dk /\ InSlices' = InSlices /\ process_at' = process_at
  BY <1>3 DEF DeliveredKeys, Delivered, InSlices, process_at
<1>5. a \in [Publishers -> [Keys -> 0..MaxCopies]]
  BY DEF AccountInv, TakenInv
<1>6. \A K : Copies(K) = CopiesIn(a, K) /\ Copies(K)' = CopiesIn(b, K)
  BY DEF Copies, CopiesIn
<1>7. /\ b \in [Publishers -> [Keys -> 0..MaxCopies]]
      /\ \A K \in SUBSET Keys :
            /\ key \notin K => CopiesIn(b, K) = CopiesIn(a, K)
            /\ key \in K => CopiesIn(b, K) # {} /\ D(K) = C(K) + 1
  <2>1. b = Bumped(a, p, key) /\ a[p][key] < MaxCopies
    BY <1>3 DEF Bumped
  <2>2. /\ b \in [Publishers -> [Keys -> 0..MaxCopies]]
        /\ \A K \in SUBSET Keys :
             /\ key \notin K => CopiesIn(b, K) = CopiesIn(a, K)
             /\ key \in K => /\ CopiesIn(b, K) # {}
                             /\ Cardinality(CopiesIn(b, K))
                                  = Cardinality(CopiesIn(a, K)) + 1
    BY <1>5, <2>1, CopiesAfterArrival
  <2> QED BY <2>2
<1>8. dk \in SUBSET Keys /\ open \in SUBSET Keys
  BY DEF AccountInv, LateInv
<1>9. \A K \in SUBSET Keys : C(K) \in Nat /\ D(K) \in Nat
  BY CopiesFinite
<1>10. \A k \in Keys : {k} \in SUBSET Keys
  OBVIOUS
<1>11. /\ late_entries_ \in Nat /\ discarded_entries_ \in Nat
       /\ late_messages \in Nat /\ very_late_messages \in Nat
       /\ IsFiniteSet(InSlices) /\ Cardinality(InSlices) \in Nat
       /\ C(dk) <= Cardinality(InSlices) + Counted
       /\ Counted + Cardinality(InSlices) <= C(open)
  BY <1>6, FS_CardinalityType DEF AccountInv, CountInv
<1>12. Counted \in Nat
  BY <1>11 DEF Counted
<1>13. /\ \A j \in 0..(N - 1) : entry[j].latest # 0 => Index(entry[j].latest) = j
       /\ \A k \in Keys :
            /\ CopiesIn(a, {k}) # {} => entry[Index(k)].latest >= k
            /\ entry[Index(k)].latest = k => entry[Index(k)].msgs = C({k})
  BY <1>6 DEF AccountInv, TakenInv
<1>14. /\ \A j \in 0..(N - 1) : entry[j].is_late_ => entry[j].latest \in dk
       /\ \A d \in dk :
            /\ d \in Keys /\ entry[Index(d)].latest >= d
            /\ entry[Index(d)].latest = d =>
                entry[Index(d)].is_late_ \/ (rpc = "emplace" /\ d = process_at)
       /\ rpc = "emplace" =>
            process_at \in dk /\ entry[Index(process_at)].latest = process_at
  BY DEF AccountInv, LateInv
<1>15. SUFFICES
         /\ \A j \in 0..(N - 1) : entry'[j].latest # 0 => Index(entry'[j].latest) = j
         /\ \A k \in Keys :
              /\ CopiesIn(b, {k}) # {} => entry'[Index(k)].latest >= k
              /\ entry'[Index(k)].latest = k => entry'[Index(k)].msgs = D({k})
         /\ \A j \in 0..(N - 1) : entry'[j].is_late_ => entry'[j].latest \in dk
         /\ \A d \in dk :
              /\ entry'[Index(d)].latest >= d
              /\ entry'[Index(d)].latest = d =>
                  entry'[Index(d)].is_late_ \/ (rpc = "emplace" /\ d = process_at)
         /\ rpc = "emplace" => entry'[Index(process_at)].latest = process_at
         /\ late_entries_' \in Nat /\ discarded_entries_' \in Nat
         /\ D(dk) <= Cardinality(InSlices) + Counted'
         /\ Counted' + Cardinality(InSlices) <= D(Keys \ Pending')
  <2>1. TakenInv'
    BY <1>6, <1>7, <1>15 DEF TakenInv
  <2>2. LateInv'
    BY <1>3, <1>4, <1>14, <1>15 DEF LateInv
  <2>3. CountInv'
    <3>1. Copies(Keys \ Pending)' = CopiesIn(b, Keys \ Pending')
      BY DEF Copies, CopiesIn
    <3>2. Copies(DeliveredKeys)' = CopiesIn(b, dk)
      BY <1>4 DEF Copies, CopiesIn
    <3> QED BY <1>3, <1>4, <1>11, <1>15, <3>1, <3>2 DEF CountInv
  <2> QED BY <2>1, <2>2, <2>3 DEF AccountInv
<1> HIDE DEF i, dk, open, a, b, C, D
<1>16. CASE key < entry[i].latest
  <2>1. /\ entry' = entry /\ late_entries_' = late_entries_
        /\ discarded_entries_' = discarded_entries_ + 1
    BY <1>16, IngestEffect DEF i
  <2>2. Counted' = Counted + 1 /\ late_entries_' \in Nat /\ discarded_entries_' \in Nat
    BY <1>3, <1>11, <2>1 DEF Counted
  <2>3. Pending' = Pending /\ key \in open
    <3>1. entry[Index(key)].latest # key
      BY <1>1, <1>2, <1>16 DEF i
    <3> QED BY <1>4, <2>1, <3>1 DEF Pending, open, dk
  <2>4. ASSUME NEW k \in Keys
        PROVE  /\ CopiesIn(b, {k}) # {} => entry'[Index(k)].latest >= k
               /\ entry'[Index(k)].latest = k => entry'[Index(k)].msgs = D({k})
    <3>1. CASE k = key
      BY <1>1, <1>2, <1>16, <2>1, <3>1 DEF i
    <3>2. CASE k # key
      <4>1. CopiesIn(b, {k}) = CopiesIn(a, {k})
        BY <1>7, <1>10, <3>2
      <4> QED BY <1>13, <2>1, <4>1 DEF C, D
    <3> QED BY <3>1, <3>2
  <2>5. D(dk) <= C(dk) + 1 /\ D(open) = C(open) + 1
    <3>1. D(open) = C(open) + 1
      BY <1>7, <1>8, <2>3
    <3>2. D(dk) = C(dk) \/ D(dk) = C(dk) + 1
      BY <1>7, <1>8 DEF C, D
    <3>3. C(dk) \in Nat
      BY <1>8, <1>9
    <3> QED BY <3>1, <3>2, <3>3
  <2>6. /\ D(dk) <= Cardinality(InSlices) + Counted'
        /\ Counted' + Cardinality(InSlices) <= D(open)
    BY <1>8, <1>9, <1>11, <1>12, <2>2, <2>5
  <2>7. (Keys \ Pending') = open
    BY <2>3 DEF open
  <2>8. D(Keys \ Pending') = D(open)
    BY <2>7
  <2> QED BY <1>13, <1>14, <2>1, <2>2, <2>4, <2>6, <2>8
<1>17. CASE key = entry[i].latest
  <2>1. /\ entry'[i].latest = key /\ entry'[i].is_late_ = entry[i].is_late_
        /\ entry'[i].msgs = entry[i].msgs + 1
        /\ late_entries_' = late_entries_ + (IF entry[i].is_late_ THEN 1 ELSE 0)
        /\ discarded_entries_' = discarded_entries_
    BY <1>17, IngestEffect DEF i
  <2>2. /\ \A j \in 0..(N - 1) : entry'[j].latest = entry[j].latest
        /\ \A j \in 0..(N - 1) : j # i => entry'[j].msgs = entry[j].msgs
    BY <1>2, <1>17, <2>1
  <2>14. \A j \in 0..(N - 1) : entry'[j].is_late_ <=> entry[j].is_late_
    BY <1>2, <2>1
  <2>3. Pending' = Pending
    BY <1>1, <1>4, <2>2 DEF Pending, dk
  <2>4. ASSUME NEW k \in Keys
        PROVE  /\ CopiesIn(b, {k}) # {} => entry'[Index(k)].latest >= k
               /\ entry'[Index(k)].latest = k => entry'[Index(k)].msgs = D({k})
    <3>1. CASE k = key
      <4>1. entry[i].msgs = C({key}) /\ D({key}) = C({key}) + 1
        BY <1>7, <1>10, <1>13, <1>17 DEF i
      <4> QED BY <1>1, <2>1, <3>1, <4>1 DEF i
    <3>2. CASE k # key
      <4>1. CopiesIn(b, {k}) = CopiesIn(a, {k})
        BY <1>7, <1>10, <3>2
      <4>2. CASE Index(k) = i
        BY <1>13, <1>17, <2>1, <3>2, <4>1, <4>2
      <4>3. CASE Index(k) # i
        <5>1. entry'[Index(k)].latest = entry[Index(k)].latest
              /\ entry'[Index(k)].msgs = entry[Index(k)].msgs
          BY <1>1, <2>2, <4>3
        <5> QED BY <1>13, <4>1, <5>1 DEF C, D
      <4> QED BY <4>2, <4>3
    <3> QED BY <3>1, <3>2
  <2>5. /\ late_entries_' \in Nat /\ discarded_entries_' \in Nat
        /\ D(dk) <= Cardinality(InSlices) + Counted'
        /\ Counted' + Cardinality(InSlices) <= D(open)
    <3>1. CASE entry[i].is_late_
      <4>1. late_entries_' = late_entries_ + 1
        BY <2>1, <3>1
      <4>2. Counted' = Counted + 1 /\ late_entries_' \in Nat /\ discarded_entries_' \in Nat
        BY <1>3, <1>11, <2>1, <4>1 DEF Counted
      <4>3. key \in dk
        BY <1>2, <1>14, <1>17, <3>1
      <4>4. key \in open
        BY <4>3 DEF Pending, open, dk
      <4>5. D(dk) = C(dk) + 1 /\ D(open) = C(open) + 1
        BY <1>7, <1>8, <4>3, <4>4
      <4> QED BY <1>8, <1>9, <1>11, <1>12, <4>2, <4>5
    <3>2. CASE ~entry[i].is_late_
      <4>1. late_entries_' = late_entries_ + 0
        BY <2>1, <3>2
      <4>2. Counted' = Counted /\ late_entries_' \in Nat /\ discarded_entries_' \in Nat
        BY <1>3, <1>11, <2>1, <4>1 DEF Counted
      <4>3. key \notin dk
        <5>1. SUFFICES ASSUME key \in dk PROVE FALSE
          OBVIOUS
        <5>2. rpc = "emplace" /\ key = process_at
          BY <1>14, <1>17, <3>2, <5>1 DEF i
        <5> QED BY <1>3, <5>2 DEF EntryLocked, i
      <4>4. key \notin open
        BY <1>17, <4>3 DEF Pending, open, dk, i
      <4>5. D(dk) = C(dk) /\ D(open) = C(open)
        BY <1>7, <1>8, <4>3, <4>4 DEF C, D
      <4> QED BY <1>11, <4>2, <4>5
    <3> QED BY <3>1, <3>2
  <2>6. (Keys \ Pending') = open
    BY <2>3 DEF open
  <2>7. \A d \in dk :
          /\ entry'[Index(d)].latest >= d
          /\ entry'[Index(d)].latest = d =>
               entry'[Index(d)].is_late_ \/ (rpc = "emplace" /\ d = process_at)
    <3>1. TAKE d \in dk
    <3>2. Index(d) \in 0..(N - 1)
      BY <1>1, <1>14
    <3>3. entry'[Index(d)].latest = entry[Index(d)].latest
      BY <2>2, <3>2
    <3>4. entry'[Index(d)].is_late_ <=> entry[Index(d)].is_late_
      BY <2>14, <3>2
    <3> QED BY <1>14, <3>3, <3>4
  <2>8. rpc = "emplace" => entry'[Index(process_at)].latest = process_at
    BY <1>1, <1>14, <2>2
  <2>9. \A j \in 0..(N - 1) :
          /\ entry'[j].latest # 0 => Index(entry'[j].latest) = j
          /\ entry'[j].is_late_ => entry'[j].latest \in dk
    <3>1. TAKE j \in 0..(N - 1)
    <3>2. entry'[j].latest = entry[j].latest
      BY <2>2
    <3>3. entry'[j].is_late_ <=> entry[j].is_late_
      BY <2>14
    <3> QED BY <1>13, <1>14, <3>2, <3>3
  <2>10. D(Keys \ Pending') = D(open)
    BY <2>6
  <2>11. \A j \in 0..(N - 1) : entry'[j].latest # 0 => Index(entry'[j].latest) = j
    BY <2>9
  <2>12. \A j \in 0..(N - 1) : entry'[j].is_late_ => entry'[j].latest \in dk
    BY <2>9
  <2>13. late_entries_' \in Nat /\ discarded_entries_' \in Nat
        /\ D(dk) <= Cardinality(InSlices) + Counted'
        /\ Counted' + Cardinality(InSlices) <= D(Keys \ Pending')
    BY <2>5, <2>10
  <2> QED BY <2>4, <2>7, <2>8, <2>11, <2>12, <2>13
<1>18. CASE key > entry[i].latest
  <2>1. /\ entry'[i].latest = key /\ entry'[i].is_late_ = FALSE
        /\ entry'[i].msgs = 1
        /\ late_entries_' = late_entries_ + 0
        /\ discarded_entries_' = discarded_entries_
    BY <1>18, IngestEffect DEF i
  <2>2. CopiesIn(a, {key}) = {}
    <3>1. ~(entry[Index(key)].latest >= key)
      BY <1>1, <1>2, <1>18 DEF i
    <3> QED BY <1>13, <3>1
  <2>3. ASSUME NEW k \in Keys
        PROVE  /\ CopiesIn(b, {k}) # {} => entry'[Index(k)].latest >= k
               /\ entry'[Index(k)].latest = k => entry'[Index(k)].msgs = D({k})
    <3>1. CASE k = key
      <4>1. C({key}) = 0 /\ D({key}) = C({key}) + 1
        BY <1>7, <1>10, <2>2, FS_EmptySet DEF C
      <4> QED BY <1>1, <2>1, <3>1, <4>1 DEF i
    <3>2. CASE k # key
      <4>1. CopiesIn(b, {k}) = CopiesIn(a, {k})
        BY <1>7, <1>10, <3>2
      <4>2. CASE Index(k) = i
        <5>1. CopiesIn(a, {k}) # {} => entry[i].latest >= k
          BY <1>13, <4>2
        <5>2. entry[i].latest \in Nat /\ k \in Nat /\ key \in Nat
          BY <1>1, <1>2
        <5>3. CopiesIn(b, {k}) # {} => key >= k
          BY <1>18, <4>1, <5>1, <5>2
        <5> QED BY <2>1, <3>2, <4>2, <5>3
      <4>3. CASE Index(k) # i
        <5>1. entry'[Index(k)] = entry[Index(k)]
          BY <1>1, <1>2, <4>3
        <5> QED BY <1>13, <4>1, <5>1 DEF C, D
      <4> QED BY <4>2, <4>3
    <3> QED BY <3>1, <3>2
  <2>4. key \notin dk
    BY <1>1, <1>2, <1>14, <1>18 DEF i
  <2>5. \A d \in dk :
          /\ entry'[Index(d)].latest >= d
          /\ entry'[Index(d)].latest = d =>
               entry'[Index(d)].is_late_ \/ (rpc = "emplace" /\ d = process_at)
    <3>1. TAKE d \in dk
    <3>2. d \in Keys /\ d \in Nat
      BY <1>1, <1>14
    <3>3. CASE Index(d) = i
      BY <1>1, <1>2, <1>14, <1>18, <2>1, <3>2, <3>3
    <3>4. CASE Index(d) # i
      <4>1. entry'[Index(d)] = entry[Index(d)]
        BY <1>1, <1>2, <3>2, <3>4
      <4> QED BY <1>14, <4>1
    <3> QED BY <3>3, <3>4
  <2>6. rpc = "emplace" => entry'[Index(process_at)].latest = process_at
    <3>1. SUFFICES ASSUME rpc = "emplace"
                   PROVE  entry'[Index(process_at)].latest = process_at
      OBVIOUS
    <3>2. process_at \in Keys /\ Index(process_at) # i
      BY <1>3, <1>14, <3>1 DEF EntryLocked
    <3>3. entry'[Index(process_at)] = entry[Index(process_at)]
      BY <1>1, <1>2, <3>2
    <3> QED BY <1>14, <3>1, <3>3
  <2>7. \A j \in 0..(N - 1) :
          /\ entry'[j].latest # 0 => Index(entry'[j].latest) = j
          /\ entry'[j].is_late_ => entry'[j].latest \in dk
    <3>1. TAKE j \in 0..(N - 1)
    <3>2. CASE j = i
      BY <2>1, <3>2 DEF i
    <3>3. CASE j # i
      BY <1>2, <1>13, <1>14, <3>3
    <3> QED BY <3>2, <3>3
  <2>8. Counted' = Counted /\ late_entries_' \in Nat /\ discarded_entries_' \in Nat
    BY <1>3, <1>11, <2>1 DEF Counted
  <2>9. D(dk) = C(dk)
    BY <1>7, <1>8, <2>4 DEF C, D
  <2>10. C(open) <= D(Keys \ Pending')
    <3> DEFINE rest == open \ {key}
               open2 == Keys \ Pending'
    <3>1. CopiesIn(a, open) = CopiesIn(a, rest)
      <4>1. \A m \in (Publishers \X open) \X (1..MaxCopies) :
               m[1][2] = key => m \notin CopiesIn(a, open)
        BY <2>2 DEF CopiesIn
      <4> QED BY <4>1 DEF CopiesIn
    <3>2. CopiesIn(b, rest) = CopiesIn(a, rest)
      BY <1>7, <1>8
    <3>3. rest \subseteq open2
      <4>1. ASSUME NEW k \in rest, k \in Pending' PROVE FALSE
        <5>1. k \in Keys /\ k # key /\ k \notin Pending /\ k \notin dk
          BY <1>4, <4>1 DEF open, Pending
        <5>2. entry[Index(k)].latest # k /\ entry'[Index(k)].latest = k
          BY <4>1, <5>1 DEF Pending, dk
        <5>3. Index(k) = i
          BY <1>1, <1>2, <5>1, <5>2
        <5> QED BY <2>1, <5>1, <5>2, <5>3
      <4> QED BY <1>8, <4>1
    <3>4. open2 \in SUBSET Keys /\ rest \in SUBSET open2
      BY <3>3
    <3>5. D(rest) <= D(open2)
      <4> HIDE DEF rest, open2
      <4> QED BY <3>4, CopiesFinite DEF D
    <3> QED BY <3>1, <3>2, <3>5 DEF C, D
  <2>11. Keys \ Pending' \in SUBSET Keys
    OBVIOUS
  <2>12. /\ D(dk) <= Cardinality(InSlices) + Counted'
         /\ Counted' + Cardinality(InSlices) <= D(Keys \ Pending')
    BY <1>8, <1>9, <1>11, <1>12, <2>8, <2>9, <2>10, <2>11
  <2>13. \A j \in 0..(N - 1) : entry'[j].latest # 0 => Index(entry'[j].latest) = j
    BY <2>7
  <2>14. \A j \in 0..(N - 1) : entry'[j].is_late_ => entry'[j].latest \in dk
    BY <2>7
  <2> QED BY <2>3, <2>5, <2>6, <2>8, <2>12, <2>13, <2>14
<1>19. key < entry[i].latest \/ key = entry[i].latest \/ key > entry[i].latest
  BY <1>1, <1>2
<1> QED BY <1>16, <1>17, <1>18, <1>19

\* Every step keeps the accounts.
LEMMA NextAccount == IndInv /\ AccountInv /\ [Next]_vars => AccountInv'
<1> SUFFICES ASSUME IndInv, AccountInv, [Next]_vars PROVE AccountInv'
  OBVIOUS
<1>1. /\ late_entries_ \in Nat /\ discarded_entries_ \in Nat
      /\ late_messages \in Nat /\ very_late_messages \in Nat
  BY DEF AccountInv, CountInv
<1>2. ASSUME UNCHANGED <<entry, delivered, arrived, late_entries_,
                         discarded_entries_, late_messages, very_late_messages>>,
             \/ rpc # "emplace" /\ rpc' # "emplace"
             \/ UNCHANGED <<rpc, last_received>>
      PROVE  AccountInv'
  <2>1. Counted' = Counted
    BY <1>2 DEF Counted
  <2> QED BY <1>1, <1>2, <2>1, QuietAccount
<1>3. CASE Tick
  BY <1>2, <1>3 DEF Tick, bufferVars, readerVars
<1>4. ASSUME NEW t \in Threads, NEW p \in Publishers, NEW key \in Keys,
             Ingest(t, p, key)
      PROVE  AccountInv'
  BY <1>4, IngestAccount
<1>5. ASSUME NEW t \in Threads, LoadLatest(t) PROVE AccountInv'
  BY <1>2, <1>5 DEF LoadLatest, bufferVars, readerVars
<1>6. ASSUME NEW t \in Threads, CasLatest(t) PROVE AccountInv'
  BY <1>2, <1>6 DEF CasLatest, bufferVars, readerVars
<1>7. CASE Poll
  BY <1>2, <1>7 DEF Poll, bufferVars
<1>8. CASE ProcessSlice
  BY <1>8, ProcessSliceAccount
<1>9. CASE Emplace
  BY <1>9, EmplaceAccount
<1>10. CASE Pop
  BY <1>2, <1>10 DEF Pop, bufferVars
<1>11. CASE Report
  BY <1>11, ReportAccount
<1>12. CASE UNCHANGED vars
  BY <1>2, <1>12 DEF vars, bufferVars, readerVars
<1> QED BY <1>3, <1>4, <1>5, <1>6, <1>7, <1>8, <1>9, <1>10, <1>11, <1>12 DEF Next

\* In every reachable state the accounts are right (AccountInv).
THEOREM Accounts == Spec => []AccountInv
<1>1. Init => AccountInv
  BY InitAccount
<1> QED BY <1>1, NextAccount, RecvInvariance, PTL DEF Spec

\* No message that reached an entry is lost without a trace, and none that is
\* counted as late or discarded is in a slice, however many publishers, threads,
\* copies and cycles there are (EveryMessageAccounted).
THEOREM MessagesAreAccounted == Spec => []EveryMessageAccounted
<1>1. AccountInv => EveryMessageAccounted
  <2> SUFFICES ASSUME AccountInv PROVE EveryMessageAccounted
    OBVIOUS
  <2>1. \A K : Copies(K) = CopiesIn(arrived, K)
    BY DEF Copies, CopiesIn
  <2>2. Keys \ Pending \in SUBSET Keys /\ DeliveredKeys \in SUBSET Keys
        /\ Keys \in SUBSET Keys
    BY DEF AccountInv, LateInv
  <2>3. Cardinality(CopiesIn(arrived, Keys \ Pending))
          <= Cardinality(CopiesIn(arrived, Keys))
        /\ Cardinality(CopiesIn(arrived, Keys)) \in Nat
        /\ Cardinality(CopiesIn(arrived, Keys \ Pending)) \in Nat
    BY <2>2, CopiesFinite
  <2>4. Counted \in Nat /\ Cardinality(InSlices) \in Nat
    BY FS_CardinalityType DEF AccountInv, CountInv, Counted
  <2>5. /\ Cardinality(Copies(DeliveredKeys)) <= Cardinality(InSlices) + Counted
        /\ Counted + Cardinality(InSlices) <= Cardinality(Copies(Keys \ Pending))
    BY DEF AccountInv, CountInv
  <2>6. Counted + Cardinality(InSlices) <= Cardinality(Copies(Keys))
    BY <2>1, <2>3, <2>4, <2>5
  <2> QED BY <2>5, <2>6 DEF EveryMessageAccounted
<1> QED BY <1>1, Accounts, PTL
=============================================================================
