--------------------------- MODULE ModelIpcProofs ---------------------------
(***************************************************************************)
(* Proofs about the signals between models, for any rates, number of       *)
(* places, latency of the network, lateness of the sender and number of    *)
(* restarts: IndInv is inductive, and TakenIsCurrent and PresentIsTaken    *)
(* are parts of it.                                                        *)
(***************************************************************************)
EXTENDS ModelIpc, NumberLemmas, TLAPS

-----------------------------------------------------------------------------
(* Ticks, sync words and places *)

\* A stride divides the second into whole cycles.
LEMMA StrideFacts ==
    ASSUME NEW s \in Strides
    PROVE  /\ s \in Nat \ {0} /\ Rate(s) \in Nat \ {0}
           /\ MaxRate \in Nat \ {0} /\ MaxRate = s * Rate(s)
<1>1. s \in Nat \ {0} /\ MaxRate \in Nat \ {0} /\ MaxRate % s = 0
  BY RatesAssumption
<1> DEFINE q == MaxRate \div s
<1>2. q \in Int /\ MaxRate = s * q + 0
  BY <1>1, DivMod
<1> HIDE DEF q
<1>3. MaxRate = s * q
  BY <1>1, <1>2
<1>4. q > 0
  <2>1. CASE q <= 0
    <3>1. s * q <= 0
      BY <1>1, <1>2, <2>1
    <3> QED BY <1>1, <1>3, <3>1
  <2> QED BY <1>2, <2>1
<1> QED BY <1>1, <1>2, <1>3, <1>4 DEF Rate, q

\* A second is a whole number of turns of the places.
LEMMA BlocksFacts ==
    /\ Blocks \in Nat \ {0} /\ MaxRate \in Nat \ {0}
    /\ MaxRate \div Blocks \in Int /\ MaxRate = Blocks * (MaxRate \div Blocks)
<1>1. Blocks \in Nat \ {0} /\ MaxRate \in Nat \ {0} /\ MaxRate % Blocks = 0
  BY RatesAssumption
<1> DEFINE q == MaxRate \div Blocks
<1>2. q \in Int /\ MaxRate = Blocks * q + 0
  BY <1>1, DivMod
<1> HIDE DEF q
<1>3. MaxRate = Blocks * q
  BY <1>1, <1>2
<1> QED BY <1>1, <1>2, <1>3 DEF q

\* A tick of the second and the same tick of a later second have one place.
LEMMA PlaceOfSecond ==
    ASSUME NEW x \in Int, NEW y \in Int
    PROVE  (MaxRate * x + y) % Blocks = y % Blocks
<1> DEFINE q == MaxRate \div Blocks
<1>1. q \in Int /\ MaxRate = Blocks * q /\ Blocks \in Nat \ {0} /\ MaxRate \in Nat
  BY BlocksFacts
<1> HIDE DEF q
<1>2. MaxRate * x + y = Blocks * (q * x) + y /\ q * x \in Int
  BY <1>1
<1>3. (Blocks * (q * x) + y) % Blocks = y % Blocks
  BY <1>1, <1>2, ModShift
<1> QED BY <1>2, <1>3

\* Cycle n of a model with stride s, as a second and a tick of it.
LEMMA CycleTick ==
    ASSUME NEW s \in Strides, NEW n \in Nat
    PROVE  /\ TimeSec(n, s) \in Nat /\ CycleOf(n, s) \in 0..(Rate(s) - 1)
           /\ n * s = MaxRate * TimeSec(n, s) + CycleOf(n, s) * s
           /\ CycleOf(n, s) * s \in 0..(MaxRate - s)
<1> DEFINE q == TimeSec(n, s)
           c == CycleOf(n, s)
           R == Rate(s)
<1>1. s \in Nat \ {0} /\ R \in Nat \ {0} /\ MaxRate = s * R
  BY StrideFacts
<1>2. q \in Int /\ c \in 0..(R - 1) /\ n = R * q + c
  <2>1. n \in Int /\ R \in Nat \ {0}
    BY <1>1
  <2>2. n \div R \in Int /\ n % R \in 0..(R - 1) /\ n = R * (n \div R) + (n % R)
    BY <2>1, DivMod
  <2> QED BY <2>2 DEF TimeSec, CycleOf
<1> HIDE DEF q, c, R
<1>3. n * s = (s * R) * q + c * s
  BY <1>1, <1>2
<1>4. q >= 0
  <2>1. CASE q <= -1
    <3>1. R * q <= -R
      BY <1>1, <1>2, <2>1
    <3> QED BY <1>1, <1>2, <3>1
  <2> QED BY <1>2, <2>1
<1>5. c * s >= 0 /\ c * s \in Int
  BY <1>1, <1>2
<1>6. c * s <= s * R - s
  <2>1. c <= R - 1
    BY <1>1, <1>2
  <2>2. c * s <= (R - 1) * s
    BY <1>1, <1>2, <2>1
  <2> QED BY <1>1, <1>2, <2>2
<1>7. c * s \in 0..(MaxRate - s)
  BY <1>1, <1>5, <1>6
<1>8. n * s = MaxRate * q + c * s
  BY <1>1, <1>3
<1> QED BY <1>2, <1>4, <1>7, <1>8 DEF q, c, R

\* The sync word and the place of the receiver are those of its tick.
LEMMA ReceiverWord ==
    ASSUME NEW s \in Strides, NEW n \in Nat
    PROVE  /\ <<TimeSec(n, s), CycleOf(n, s) * s>> = Word(n * s)
           /\ (CycleOf(n, s) * s) % Blocks = Place(n * s)
<1> DEFINE q == TimeSec(n, s)
           t == CycleOf(n, s) * s
<1>1. /\ q \in Nat /\ n * s = MaxRate * q + t /\ t \in 0..(MaxRate - s)
      /\ s \in Nat \ {0} /\ MaxRate \in Nat \ {0}
  <2>1. q \in Nat /\ n * s = MaxRate * q + t /\ t \in 0..(MaxRate - s)
    BY CycleTick
  <2>2. s \in Nat \ {0} /\ MaxRate \in Nat \ {0}
    BY StrideFacts
  <2> QED BY <2>1, <2>2
<1> HIDE DEF q, t
<1>2. t \in 0..(MaxRate - 1) /\ t \in Int /\ q \in Int /\ n * s \in Int
  BY <1>1
<1>3. (n * s) \div MaxRate = q /\ (n * s) % MaxRate = t
  BY <1>1, <1>2, DivModUnique
<1>4. (n * s) % Blocks = t % Blocks
  <2>1. (MaxRate * q + t) % Blocks = t % Blocks
    BY <1>2, PlaceOfSecond
  <2> QED BY <1>1, <2>1
<1> QED BY <1>3, <1>4 DEF q, t, Word, Place

\* The second and the tick of a count.
LEMMA SecondAndTick ==
    ASSUME NEW a \in Int, NEW q \in Int, NEW r \in 0..(MaxRate - 1), a = MaxRate * q + r
    PROVE  a \div MaxRate = q /\ a % MaxRate = r
<1>1. MaxRate \in Nat \ {0}
  BY RatesAssumption
<1> QED BY <1>1, DivModUnique

\* The sync word and the place of the sender are those of the tick it sends for,
\* across the end of a second and one block ahead or two.
LEMMA SenderWord ==
    ASSUME NEW s \in Strides, NEW n \in Nat, NEW A \in {1, 2}, A <= Rate(s)
    PROVE  LET t == ((CycleOf(n, s) + A) * s) % MaxRate
               c == IF t \in {i * s : i \in 0..(A - 1)} THEN 1 ELSE 0
           IN  /\ <<TimeSec(n, s) + c, t>> = Word((n + A) * s)
               /\ ((CycleOf(n, s) + A) * s) % Blocks = Place((n + A) * s)
<1> DEFINE q == TimeSec(n, s)
           y == CycleOf(n, s)
           R == Rate(s)
           x == (y + A) * s
           t == x % MaxRate
           c == IF t \in {i * s : i \in 0..(A - 1)} THEN 1 ELSE 0
<1>1. s \in Nat \ {0} /\ R \in Nat \ {0} /\ MaxRate = s * R /\ MaxRate \in Nat \ {0}
  BY StrideFacts
<1>2. q \in Nat /\ y \in 0..(R - 1) /\ n * s = MaxRate * q + y * s
  BY CycleTick
<1>3. A \in Nat /\ A >= 1 /\ A <= R
  OBVIOUS
<1> HIDE DEF q, y, R
<1>4. (n + A) * s = MaxRate * q + x /\ x \in Int
  <2>1. (n + A) * s = n * s + A * s
    BY <1>1, <1>3
  <2>2. (y + A) * s = y * s + A * s
    BY <1>1, <1>2, <1>3
  <2>3. x \in Int /\ y * s \in Int /\ A * s \in Int /\ MaxRate * q \in Int
    BY <1>1, <1>2, <1>3
  <2> QED BY <1>2, <2>1, <2>2, <2>3
<1>5. x % Blocks = Place((n + A) * s)
  <2>1. (MaxRate * q + x) % Blocks = x % Blocks
    BY <1>2, <1>4, PlaceOfSecond
  <2> QED BY <1>4, <2>1 DEF Place
<1>6. CASE y + A < R
  <2>1. x \in 0..(MaxRate - 1)
    <3>1. y + A <= R - 1 /\ y + A >= 0 /\ y + A \in Int
      BY <1>1, <1>2, <1>3, <1>6
    <3>2. (y + A) * s <= (R - 1) * s
      BY <1>1, <3>1
    <3>3. (R - 1) * s = s * R - s
      BY <1>1
    <3>4. x >= 0
      BY <1>1, <3>1
    <3> QED BY <1>1, <1>4, <3>2, <3>3, <3>4
  <2>2. t = x
    <3>1. x = MaxRate * 0 + x
      BY <1>1, <1>4
    <3>2. 0 \in Int /\ x \in Int
      BY <1>4
    <3> HIDE DEF x
    <3>3. x % MaxRate = x
      BY <2>1, <3>1, <3>2, SecondAndTick
    <3> QED BY <3>3
  <2>3. ((n + A) * s) \div MaxRate = q /\ ((n + A) * s) % MaxRate = x
    <3> DEFINE a == (n + A) * s
    <3>1. a \in Int /\ q \in Int
      BY <1>1, <1>2, <1>3
    <3>2. a = MaxRate * q + x
      BY <1>4
    <3> HIDE DEF x, a
    <3>3. a \div MaxRate = q /\ a % MaxRate = x
      BY <2>1, <3>1, <3>2, SecondAndTick
    <3> QED BY <3>3 DEF a
  <2>4. c = 0
    <3>1. SUFFICES ASSUME NEW i \in 0..(A - 1), x = i * s PROVE FALSE
      BY <2>2
    <3>2. i <= y + A - 1 /\ i \in Int
      BY <1>2, <1>3
    <3>3. i * s <= (y + A - 1) * s
      BY <1>1, <1>2, <1>3, <3>2
    <3>4. (y + A - 1) * s = (y + A) * s - s
      BY <1>1, <1>2, <1>3
    <3> QED BY <1>1, <1>4, <3>1, <3>3, <3>4
  <2>5. <<q + c, t>> = Word((n + A) * s)
    <3>1. q + c = q
      BY <1>2, <2>4
    <3> QED BY <2>2, <2>3, <3>1 DEF Word
  <2> QED BY <1>5, <2>5 DEF q, y
<1>7. CASE ~(y + A < R)
  <2> DEFINE z == y + A - R
  <2>1. z \in 0..(A - 1) /\ z \in 0..(R - 1) /\ z \in Int
    BY <1>1, <1>2, <1>3, <1>7
  <2>2. x = MaxRate * 1 + z * s
    BY <1>1, <1>2, <1>3
  <2> HIDE DEF z, x
  <2>3. z * s \in 0..(MaxRate - 1)
    <3>1. z * s <= (R - 1) * s
      BY <1>1, <2>1
    <3>2. (R - 1) * s = s * R - s
      BY <1>1
    <3>3. z * s >= 0 /\ z * s \in Int
      BY <1>1, <2>1
    <3> QED BY <1>1, <3>1, <3>2, <3>3
  <2>4. t = z * s
    <3> DEFINE w == z * s
    <3>1. x \in Int /\ 1 \in Int /\ w \in 0..(MaxRate - 1) /\ x = MaxRate * 1 + w
      BY <1>4, <2>2, <2>3
    <3> HIDE DEF w
    <3>2. x % MaxRate = w
      BY <3>1, SecondAndTick
    <3> QED BY <3>2 DEF w
  <2>5. (n + A) * s = MaxRate * (q + 1) + z * s /\ (n + A) * s \in Int
    <3>1. MaxRate * q + (MaxRate * 1 + z * s) = MaxRate * (q + 1) + z * s
      BY <1>1, <1>2, <2>3
    <3> QED BY <1>1, <1>3, <1>4, <2>2, <3>1
  <2>6. ((n + A) * s) \div MaxRate = q + 1 /\ ((n + A) * s) % MaxRate = z * s
    <3> DEFINE w == z * s
               u == q + 1
               a == (n + A) * s
    <3>1. a \in Int /\ u \in Int /\ w \in 0..(MaxRate - 1) /\ a = MaxRate * u + w
      BY <1>2, <2>3, <2>5
    <3> HIDE DEF w, u, a
    <3>2. a \div MaxRate = u /\ a % MaxRate = w
      BY <3>1, SecondAndTick
    <3> QED BY <3>2 DEF w, u, a
  <2>7. c = 1
    BY <2>1, <2>4
  <2>8. <<q + c, t>> = Word((n + A) * s)
    BY <2>4, <2>6, <2>7 DEF Word
  <2> QED BY <1>5, <2>8 DEF q, y, x
<1> QED BY <1>6, <1>7

\* Words of different ticks differ.
LEMMA WordsDiffer ==
    ASSUME NEW a \in Int, NEW b \in Int, Word(a) = Word(b)
    PROVE  a = b
<1>1. MaxRate \in Nat \ {0}
  BY RatesAssumption
<1>2. a = MaxRate * (a \div MaxRate) + (a % MaxRate)
  BY <1>1, DivMod
<1>3. b = MaxRate * (b \div MaxRate) + (b % MaxRate)
  BY <1>1, DivMod
<1>4. a \div MaxRate = b \div MaxRate /\ a % MaxRate = b % MaxRate
  BY DEF Word
<1> QED BY <1>2, <1>3, <1>4

\* A word is one of a second that has begun, and a place is one of the places.
LEMMA WordType ==
    ASSUME NEW a \in Nat
    PROVE  /\ Word(a) \in Int \X Int /\ Word(a)[2] \in 0..(MaxRate - 1)
           /\ Word(a) # Empty.timestamp
           /\ Place(a) \in 0..(Blocks - 1)
<1> DEFINE q == a \div MaxRate
           t == a % MaxRate
<1>1. MaxRate \in Nat \ {0} /\ Blocks \in Nat \ {0}
  BY RatesAssumption
<1>2. q \in Int /\ t \in 0..(MaxRate - 1) /\ a = MaxRate * q + t
  BY <1>1, DivMod
<1>3. a % Blocks \in 0..(Blocks - 1)
  BY <1>1, DivMod
<1>4. Word(a) = <<q, t>>
  BY DEF Word
<1> HIDE DEF q, t
<1>5. q >= 0
  <2>1. CASE q <= -1
    <3>1. MaxRate * q <= -MaxRate
      BY <1>1, <1>2, <2>1
    <3> QED BY <1>1, <1>2, <3>1
  <2> QED BY <1>2, <2>1
<1>6. Empty.timestamp = <<-1, 0>>
  BY DEF Empty
<1>7. q # -1
  BY <1>2, <1>5
<1> QED BY <1>2, <1>3, <1>4, <1>6, <1>7 DEF Place

-----------------------------------------------------------------------------
(* What the configuration gives the two models *)

\* The sender's block and word, and the receiver's, are those of a tick.
LEMMA Configured ==
    ASSUME CountInv
    PROVE  /\ sendStride \in Nat \ {0} /\ rcvStride \in Nat \ {0}
           /\ Blocks \in Nat \ {0} /\ MaxRate \in Nat \ {0}
           /\ Ahead \in {1, 2} /\ Ahead * sendStride \in Nat
           /\ Ahead * sendStride + rcvStride <= Blocks
           /\ Value \in Nat /\ Value = k * sendStride + Ahead * sendStride
           /\ k * sendStride \in Nat /\ j * rcvStride \in Nat
           /\ (j + 1) * rcvStride = j * rcvStride + rcvStride
           /\ SyncWord = Word(Value) /\ sendBlock = Place(Value)
           /\ <<TimeSec(j, rcvStride), Cycle * rcvStride>> = Word(j * rcvStride)
           /\ rcvBlock = Place(j * rcvStride)
<1> DEFINE s == sendStride
           r == rcvStride
           R == Rate(sendStride)
<1>1. s \in Strides /\ r \in Strides /\ k \in Nat /\ j \in Nat
  BY DEF CountInv
<1>2. /\ s \in Nat \ {0} /\ R \in Nat \ {0} /\ MaxRate \in Nat \ {0} /\ MaxRate = s * R
  BY <1>1, StrideFacts
<1>3. r \in Nat \ {0}
  BY <1>1, StrideFacts
<1>4. Blocks \in Nat \ {0} /\ Blocks <= MaxRate
  <2> DEFINE q == MaxRate \div Blocks
  <2>1. Blocks \in Nat \ {0} /\ q \in Int /\ MaxRate = Blocks * q /\ MaxRate \in Nat \ {0}
    BY BlocksFacts
  <2> HIDE DEF q
  <2>2. CASE q >= 1
    BY <2>1, <2>2
  <2>3. CASE q <= 0
    <3>1. Blocks * q <= 0
      BY <2>1, <2>3
    <3> QED BY <2>1, <3>1
  <2> QED BY <2>1, <2>2, <2>3
<1>5. Ahead \in {1, 2} /\ Ahead = (IF link = "rfm_delay" THEN 2 ELSE 1)
  BY DEF Ahead
<1>6. Ahead * s + r <= Blocks
  BY <1>5 DEF CountInv, PlacesSuffice
<1> HIDE DEF s, r, R
<1>7. Ahead * s \in Nat /\ k * s \in Nat /\ j * r \in Nat
  BY <1>1, <1>2, <1>3, <1>5
<1>8. (k + Ahead) * s = k * s + Ahead * s
  BY <1>1, <1>2, <1>5
<1>9. (j + 1) * r = j * r + r
  BY <1>1, <1>3
<1>10. Ahead <= R
  <2>1. CASE Ahead >= R + 1
    <3>1. Ahead * s >= (R + 1) * s
      BY <1>2, <1>5, <2>1
    <3>2. (R + 1) * s = s * R + s
      BY <1>2
    <3> QED BY <1>2, <1>3, <1>4, <1>6, <1>7, <3>1, <3>2
  <2> QED BY <1>2, <1>5, <2>1
<1>11. Value = (k + Ahead) * s
  BY DEF Value, s
<1>12. SyncWord = Word(Value) /\ sendBlock = Place(Value)
  <2> DEFINE A == Ahead
             t == ((CycleOf(k, s) + A) * s) % MaxRate
             c == IF t \in {i * s : i \in 0..(A - 1)} THEN 1 ELSE 0
  <2>1. A \in {1, 2} /\ A <= Rate(s)
    BY <1>5, <1>10 DEF R, s
  <2>2. SyncWord = <<TimeSec(k, s) + c, t>> /\ sendBlock = ((CycleOf(k, s) + A) * s) % Blocks
    BY DEF SyncWord, sendBlock, dataCycle, SendCycle, s
  <2>3. Value = (k + A) * s
    BY <1>11
  <2> HIDE DEF A
  <2>4. <<TimeSec(k, s) + c, t>> = Word((k + A) * s)
        /\ ((CycleOf(k, s) + A) * s) % Blocks = Place((k + A) * s)
    BY <1>1, <2>1, SenderWord
  <2> QED BY <2>2, <2>3, <2>4
<1>13. <<TimeSec(j, r), CycleOf(j, r) * r>> = Word(j * r)
       /\ (CycleOf(j, r) * r) % Blocks = Place(j * r)
  BY <1>1, ReceiverWord
<1> QED BY <1>2, <1>3, <1>4, <1>5, <1>6, <1>7, <1>8, <1>9, <1>11, <1>12, <1>13
        DEF s, r, Cycle, rcvBlock

\* Two ticks of one place, neither later than the sender may have stored for,
\* the one that the receiver is at and a later one: they are the same.  This is
\* what PlacesSuffice is for.
LEMMA OnePlaceOneTick ==
    ASSUME CountInv, NEW n, Sent(n), Place(n) = rcvBlock, n >= j * rcvStride
    PROVE  n = j * rcvStride
<1> DEFINE t == j * rcvStride
           a == Ahead * sendStride
<1>1. /\ Blocks \in Nat \ {0} /\ rcvStride \in Nat \ {0} /\ t \in Nat /\ a \in Nat
      /\ a + rcvStride <= Blocks /\ (j + 1) * rcvStride = t + rcvStride
      /\ rcvBlock = Place(t)
  BY Configured
<1>2. n \in Nat /\ n <= now + a /\ now \in Nat /\ now < (j + 1) * rcvStride /\ n >= t
  BY DEF Sent, CountInv
<1> HIDE DEF t, a
<1>3. n - t < Blocks /\ t - n < Blocks
  BY <1>1, <1>2
<1>4. n % Blocks = t % Blocks
  BY <1>1 DEF Place
<1>5. n \in Int /\ t \in Int
  BY <1>1, <1>2
<1>6. n = t
  BY <1>1, <1>3, <1>4, <1>5, ModUnique
<1> QED BY <1>6 DEF t

\* The sender's cycles and time only grow.
Forward ==
    UNCHANGED config /\ k' \in Nat /\ k' >= k /\ now' \in Nat /\ now' >= now

\* What may have been stored for may have been stored for later on.
LEMMA SentKeeps ==
    ASSUME CountInv, Forward, NEW n, Sent(n)
    PROVE  Sent(n)'
<1>1. sendStride' = sendStride /\ Ahead' = Ahead
  BY DEF Forward, config, Ahead
<1>2. sendStride \in Nat /\ Ahead \in Int /\ Ahead * sendStride \in Nat
  BY Configured
<1>3. k \in Int /\ k' \in Int /\ k <= k'
  BY DEF Forward, CountInv
<1>4. now \in Int /\ now' \in Int /\ now <= now'
  BY DEF Forward, CountInv
<1>5. \A x, y, a \in Int : x <= y => x + a \in Int /\ y + a \in Int /\ x + a <= y + a
  OBVIOUS
<1>6. k + Ahead \in Int /\ k' + Ahead \in Int /\ k + Ahead <= k' + Ahead
  BY <1>2, <1>3, <1>5
<1>7. /\ (k + Ahead) * sendStride <= (k' + Ahead) * sendStride
      /\ (k' + Ahead) * sendStride \in Int /\ (k + Ahead) * sendStride \in Int
  BY <1>2, <1>6, ProductOrder
<1>8. now + Ahead * sendStride <= now' + Ahead * sendStride
      /\ now + Ahead * sendStride \in Int /\ now' + Ahead * sendStride \in Int
  <2> DEFINE a == Ahead * sendStride
  <2>1. a \in Int
    BY <1>2
  <2> HIDE DEF a
  <2>2. now + a <= now' + a /\ now + a \in Int /\ now' + a \in Int
    BY <1>4, <1>5, <2>1
  <2> QED BY <2>2 DEF a
<1>9. n \in Nat /\ n <= (k + Ahead) * sendStride /\ n <= now + Ahead * sendStride
  BY DEF Sent, Value
<1>10. \A x, y \in Int : n <= x /\ x <= y => n <= y
  BY <1>9
<1>11. n <= (k' + Ahead) * sendStride /\ n <= now' + Ahead * sendStride
  BY <1>7, <1>8, <1>9, <1>10
<1> QED BY <1>1, <1>9, <1>11 DEF Sent, Value

-----------------------------------------------------------------------------
(* One store *)

\* A store the sender may make now.
Proper(f, n) ==
    /\ f \in {"data", "timestamp"} /\ Sent(n)
    /\ \A b \in 0..(Blocks - 1) : mem[b].whole <= n
    /\ f = "timestamp" => mem[Place(n)].data = n

\* What is stored.
Content(f, n) == IF f = "data" THEN n ELSE Word(n)

\* A store to the memory changes one half of one pair.
LEMMA StoreChanges ==
    ASSUME CountInv, MemInv, NEW f, NEW n, Proper(f, n),
           Store(f, Place(n), Content(f, n), n)
    PROVE  /\ mem' \in [0..(Blocks - 1) -> Pair]
           /\ Place(n) \in 0..(Blocks - 1)
           /\ \A b \in 0..(Blocks - 1) : b # Place(n) => mem'[b] = mem[b]
           /\ f = "data" => /\ mem'[Place(n)].data = n
                            /\ mem'[Place(n)].timestamp = mem[Place(n)].timestamp
                            /\ mem'[Place(n)].whole = mem[Place(n)].whole
           /\ f = "timestamp" => /\ mem'[Place(n)].data = mem[Place(n)].data
                                 /\ mem'[Place(n)].timestamp = Word(n)
                                 /\ mem'[Place(n)].whole = n
<1> DEFINE p == Place(n)
           D == 0..(Blocks - 1)
           w == Word(n)
<1>1. mem \in [D -> Pair] /\ f \in {"data", "timestamp"} /\ n \in Nat
  BY DEF MemInv, Proper, Sent
<1>2. p \in D /\ w \in Int \X Int
  BY <1>1, WordType
<1>3. mem' = [mem EXCEPT ![p] = IF f = "data" THEN [@ EXCEPT !.data = Content(f, n)]
                                ELSE [data |-> @.data, timestamp |-> Content(f, n), whole |-> n]]
  BY DEF Store
<1> HIDE DEF p, D, w
<1>4. mem[p] \in Pair
  BY <1>1, <1>2
<1>5. CASE f = "data"
  <2>1. Content(f, n) = n
    BY <1>5 DEF Content
  <2>2. mem' = [mem EXCEPT ![p] = [@ EXCEPT !.data = n]]
    BY <1>3, <1>5, <2>1
  <2>3. [mem[p] EXCEPT !.data = n] \in Pair
    BY <1>1, <1>4 DEF Pair
  <2>4. mem' \in [D -> Pair] /\ mem'[p] = [mem[p] EXCEPT !.data = n]
        /\ \A b \in D : b # p => mem'[b] = mem[b]
    BY <1>1, <1>2, <2>2, <2>3
  <2>5. mem'[p].data = n /\ mem'[p].timestamp = mem[p].timestamp
        /\ mem'[p].whole = mem[p].whole
    BY <1>4, <2>4 DEF Pair
  <2> QED BY <1>2, <1>5, <2>4, <2>5 DEF p, D
<1>6. CASE f = "timestamp"
  <2>1. Content(f, n) = w
    BY <1>6 DEF Content, w
  <2>2. mem' = [mem EXCEPT ![p] = [data |-> @.data, timestamp |-> w, whole |-> n]]
    BY <1>3, <1>6, <2>1
  <2>3. [data |-> mem[p].data, timestamp |-> w, whole |-> n] \in Pair
    BY <1>1, <1>2, <1>4 DEF Pair
  <2>4. mem' \in [D -> Pair] /\ mem'[p] = [data |-> mem[p].data, timestamp |-> w, whole |-> n]
        /\ \A b \in D : b # p => mem'[b] = mem[b]
    BY <1>1, <1>2, <2>2, <2>3
  <2>5. mem'[p].data = mem[p].data /\ mem'[p].timestamp = w /\ mem'[p].whole = n
    BY <1>4, <2>4 DEF Pair
  <2> QED BY <1>2, <1>6, <2>4, <2>5 DEF p, D, w
<1> QED BY <1>1, <1>5, <1>6

\* A place that is left alone keeps its pair's invariant.
LEMMA PlaceKeeps ==
    ASSUME CountInv, Forward, NEW b, PlaceInv(b), mem'[b] = mem[b]
    PROVE  PlaceInv(b)'
<1>1. \A n : Sent(n) => Sent(n)'
  BY SentKeeps
<1>2. CASE mem[b] = Empty
  BY <1>2 DEF PlaceInv, Empty
<1>3. CASE mem[b] # Empty
  <2>1. /\ Sent(mem[b].data) /\ Place(mem[b].data) = b
        /\ \/ mem[b].whole = -1 /\ mem[b].timestamp = Empty.timestamp
           \/ /\ Sent(mem[b].whole) /\ Place(mem[b].whole) = b
              /\ mem[b].timestamp = Word(mem[b].whole)
              /\ mem[b].whole <= mem[b].data
    BY <1>3 DEF PlaceInv
  <2>2. \A n : Sent(n) => n \in Nat /\ n <= Value' /\ n <= now' + Ahead' * sendStride'
    BY <1>1 DEF Sent
  <2> QED BY <2>1, <2>2 DEF PlaceInv, Sent, Empty, Place, Word
<1> QED BY <1>2, <1>3

\* A store keeps the invariant of the memory.
LEMMA StoreKeepsMem ==
    ASSUME CountInv, MemInv, Forward, NEW f, NEW n, Proper(f, n),
           Store(f, Place(n), Content(f, n), n)
    PROVE  MemInv'
<1> DEFINE p == Place(n)
           D == 0..(Blocks - 1)
<1>1. /\ mem' \in [D -> Pair] /\ p \in D
      /\ \A b \in D : b # p => mem'[b] = mem[b]
      /\ f = "data" => /\ mem'[p].data = n
                       /\ mem'[p].timestamp = mem[p].timestamp
                       /\ mem'[p].whole = mem[p].whole
      /\ f = "timestamp" => /\ mem'[p].data = mem[p].data
                            /\ mem'[p].timestamp = Word(n)
                            /\ mem'[p].whole = n
  BY StoreChanges
<1>2. \A b \in D : PlaceInv(b)
  BY DEF MemInv
<1>3. \A b \in D : b # p => PlaceInv(b)'
  BY <1>1, <1>2, PlaceKeeps
<1>4. PlaceInv(p)'
  <2>1. \A x : Sent(x) => x \in Nat /\ x <= Value' /\ x <= now' + Ahead' * sendStride'
    BY SentKeeps DEF Sent
  <2>2. Sent(n) /\ n \in Nat /\ f \in {"data", "timestamp"} /\ mem[p].whole <= n
    BY <1>1 DEF Proper, Sent
  <2>3. CASE f = "data"
    <3>1. \/ mem[p].whole = -1 /\ mem[p].timestamp = Empty.timestamp
          \/ /\ Sent(mem[p].whole) /\ Place(mem[p].whole) = p
             /\ mem[p].timestamp = Word(mem[p].whole)
      BY <1>1, <1>2 DEF PlaceInv, Empty
    <3> QED BY <1>1, <2>1, <2>2, <2>3, <3>1 DEF PlaceInv, Sent, Empty, Word
  <2>4. CASE f = "timestamp"
    <3>1. mem[p].data = n
      BY <2>4 DEF Proper
    <3> QED BY <1>1, <2>1, <2>2, <2>4, <3>1 DEF PlaceInv, Sent, Empty, Word
  <2> QED BY <2>2, <2>3, <2>4
<1> QED BY <1>1, <1>3, <1>4 DEF MemInv

\* A store keeps what holds between the receiver's two loads: a new value in the
\* receiver's place is noted, and a pair for its tick can only be stored again.
LEMMA StoreKeepsLoad ==
    ASSUME CountInv, MemInv, LoadInv, NEW f, NEW n, Proper(f, n),
           Store(f, Place(n), Content(f, n), n), UNCHANGED <<config, j, tmp, present>>
    PROVE  LoadInv'
<1> DEFINE p == Place(n)
           D == 0..(Blocks - 1)
<1>1. /\ p \in D /\ \A b \in D : b # p => mem'[b] = mem[b]
      /\ f = "data" => mem'[p].whole = mem[p].whole
      /\ f = "timestamp" => mem'[p].whole = n /\ mem'[p].data = mem[p].data
      /\ f \in {"data", "timestamp"}
  BY StoreChanges DEF Proper
<1>2. rcvBlock' = rcvBlock /\ Cycle' = Cycle /\ rcvCycle' = rcvCycle /\ link' = link
      /\ j' = j /\ rcvStride' = rcvStride
  BY DEF rcvBlock, Cycle, rcvCycle, config
<1>3. rcvBlock \in D /\ rcvBlock = Place(j * rcvStride)
  <2>1. j * rcvStride \in Nat /\ rcvBlock = Place(j * rcvStride)
    BY Configured
  <2> QED BY <2>1, WordType
<1>4. crossed' = (crossed \/ (f = "data" /\ tmp # NotLoaded /\ p = rcvBlock))
  BY DEF Store, rcvBlock, Cycle
<1>5. crossed' \in BOOLEAN /\ present' \in BOOLEAN /\ (tmp' = NotLoaded => ~crossed')
  BY <1>4 DEF LoadInv
<1>6. ASSUME tmp' # NotLoaded
      PROVE  /\ Cycle' % rcvCycle' = 0 /\ link' # "none"
             /\ ~crossed' => tmp' = mem'[rcvBlock].data
             /\ present' => mem'[rcvBlock].whole = j * rcvStride
  <2>1. /\ tmp # NotLoaded /\ Cycle % rcvCycle = 0 /\ link # "none"
        /\ ~crossed => tmp = mem[rcvBlock].data
        /\ present => mem[rcvBlock].whole = j * rcvStride
    BY <1>6 DEF LoadInv
  <2>2. ASSUME present PROVE mem'[rcvBlock].whole = j * rcvStride
    <3>1. CASE p # rcvBlock
      BY <1>1, <1>3, <2>1, <2>2, <3>1
    <3>2. CASE p = rcvBlock /\ f = "data"
      BY <1>1, <2>1, <2>2, <3>2
    <3>3. CASE p = rcvBlock /\ f = "timestamp"
      <4>1. mem[rcvBlock].whole <= n /\ Sent(n)
        BY <1>3 DEF Proper
      <4>2. j * rcvStride <= n
        BY <2>1, <2>2, <4>1
      <4>3. n = j * rcvStride
        BY <3>3, <4>1, <4>2, OnePlaceOneTick
      <4> QED BY <1>1, <3>3, <4>3
    <3> QED BY <1>1, <3>1, <3>2, <3>3
  <2>3. ASSUME ~crossed' PROVE tmp' = mem'[rcvBlock].data
    BY <1>1, <1>3, <1>4, <2>1, <2>3
  <2> QED BY <1>2, <2>1, <2>2, <2>3
<1> QED BY <1>2, <1>5, <1>6 DEF LoadInv

-----------------------------------------------------------------------------
(* Stores on their way *)

\* The stores on their way while neither they nor the memory change.
LEMMA NetKeeps ==
    ASSUME CountInv, NetInv, Forward, UNCHANGED <<net, mem>>,
           half' => half /\ k' = k
    PROVE  NetInv'
<1>1. \A x : Sent(x) => x \in Nat /\ x <= Value' /\ x <= now' + Ahead' * sendStride'
  BY SentKeeps DEF Sent
<1>2. link' = link /\ sendStride' = sendStride /\ (half' => Value' = Value)
  BY DEF Forward, config, Value, Ahead
<1>3. \A i \in 1..Len(net) : Queued(i)'
  <2>1. SUFFICES ASSUME NEW i \in 1..Len(net) PROVE Queued(i)'
    OBVIOUS
  <2>2. Queued(i)
    BY DEF NetInv
  <2>3. Sent(net[i].n)
    BY <2>2 DEF Queued
  <2>4. Sent(net[i].n)'
    BY <1>1, <2>3 DEF Sent
  <2> QED BY <2>2, <2>4 DEF Queued
<1> QED BY <1>2, <1>3 DEF NetInv

\* A store handed to the network goes to the end of what is on its way.
LEMMA NetAppends ==
    ASSUME CountInv, MemInv, NetInv, Forward, NEW f \in {"data", "timestamp"},
           link \notin {"shm", "none"}, now >= k * sendStride,
           net' = Append(net, [f |-> f, b |-> Place(Value), v |-> Content(f, Value),
                               n |-> Value, at |-> now]),
           mem' = mem, f = "timestamp" => half,
           half' => f = "data" /\ k' = k
    PROVE  NetInv'
<1> DEFINE m == [f |-> f, b |-> Place(Value), v |-> Content(f, Value),
                 n |-> Value, at |-> now]
           L == Len(net)
<1>1. /\ Value \in Nat /\ Value = k * sendStride + Ahead * sendStride
      /\ k * sendStride \in Nat /\ Ahead * sendStride \in Nat /\ now \in Nat
  BY Configured DEF CountInv
<1>2. Sent(Value)
  BY <1>1 DEF Sent
<1>3. m \in Message
  <2>1. Place(Value) \in 0..(Blocks - 1) /\ Word(Value) \in Int \X Int
    BY <1>1, WordType
  <2>2. Content(f, Value) \in Int \cup (Int \X Int)
    BY <1>1, <2>1 DEF Content
  <2> QED BY <1>1, <2>1, <2>2 DEF Message
<1>4. /\ m.f = f /\ m.b = Place(Value) /\ m.v = Content(f, Value) /\ m.n = Value
  OBVIOUS
<1>5. net \in Seq(Message) /\ net' = Append(net, m) /\ L \in Nat
  BY DEF NetInv
<1> HIDE DEF m
<1>6. /\ net' \in Seq(Message) /\ Len(net') = L + 1 /\ net'[L + 1] = m
      /\ \A i \in 1..L : net'[i] = net[i]
      /\ net' # <<>>
  BY <1>3, <1>5
<1>7. \A x : Sent(x) => x \in Nat /\ x <= Value' /\ x <= now' + Ahead' * sendStride'
  BY SentKeeps DEF Sent
<1>8. link' = link /\ sendStride' = sendStride /\ (half' => Value' = Value)
  BY DEF Forward, config, Value, Ahead
<1>9. \A i \in 1..L : Queued(i) /\ Sent(net[i].n)
  BY DEF NetInv, Queued
<1>10. \A i \in 1..L : Queued(i)'
  <2>1. SUFFICES ASSUME NEW i \in 1..L PROVE Queued(i)'
    OBVIOUS
  <2>2. Queued(i) /\ Sent(net[i].n)
    BY <1>9
  <2>3. net'[i] = net[i] /\ (i # 1 => net'[i - 1] = net[i - 1])
        /\ \A h \in 1..i : net'[h] = net[h]
    BY <1>5, <1>6
  <2>4. Sent(net[i].n)'
    <3>1. net[i].n \in Nat /\ net[i].n <= Value' /\ net[i].n <= now' + Ahead' * sendStride'
      BY <1>7, <2>2
    <3> QED BY <2>3, <3>1 DEF Sent
  <2> QED BY <2>2, <2>3, <2>4 DEF Queued
<1>11. ASSUME NEW z, z = L + 1 PROVE Queued(z)'
  <2>1. Sent(net[z].n)'
    <3>1. net'[z].n = Value
      BY <1>4, <1>6, <1>11
    <3> QED BY <1>2, <1>7, <3>1 DEF Sent
  <2>2. \A b \in 0..(Blocks - 1) : mem'[b].whole <= net'[L + 1].n
    <3>1. SUFFICES ASSUME NEW b \in 0..(Blocks - 1) PROVE mem[b].whole <= Value
      BY <1>4, <1>6
    <3>2. PlaceInv(b)
      BY DEF MemInv
    <3> QED BY <1>1, <3>2 DEF PlaceInv, Sent, Empty
  <2>3. \A h \in 1..(L + 1) : net'[h].n <= net'[L + 1].n
    <3>1. SUFFICES ASSUME NEW h \in 1..(L + 1) PROVE net'[h].n <= Value
      BY <1>4, <1>6
    <3>2. CASE h = L + 1
      BY <1>1, <1>4, <1>6, <3>2
    <3>3. CASE h # L + 1
      <4>1. h \in 1..L
        BY <1>5, <3>3
      <4> QED BY <1>6, <1>9, <4>1 DEF Sent
    <3> QED BY <3>2, <3>3
  <2>4. ASSUME f = "timestamp"
        PROVE  IF L + 1 = 1 THEN mem'[net'[L + 1].b].data = net'[L + 1].n
               ELSE net'[L].f = "data" /\ net'[L].n = net'[L + 1].n
    <3>1. IF net = <<>> THEN mem[Place(Value)].data = Value
          ELSE net[L].f = "data" /\ net[L].n = Value
      BY <2>4 DEF NetInv
    <3>2. CASE L = 0
      <4>1. net = <<>>
        BY <1>5, <3>2
      <4> QED BY <1>4, <1>6, <3>1, <3>2, <4>1
    <3>3. CASE L # 0
      <4>1. net # <<>> /\ L \in 1..L
        BY <1>5, <3>3
      <4>2. net'[L] = net[L]
        BY <1>6, <4>1
      <4>3. net[L].f = "data" /\ net[L].n = Value
        BY <3>1, <4>1
      <4> QED BY <1>4, <1>5, <1>6, <3>3, <4>2, <4>3
    <3> QED BY <3>2, <3>3
  <2>5. (L + 1) - 1 = L
    BY <1>5
  <2>6. net'[L + 1].b = Place(net'[L + 1].n) /\ net'[L + 1].f = f
        /\ net'[L + 1].v = (IF net'[L + 1].f = "data" THEN net'[L + 1].n
                            ELSE Word(net'[L + 1].n))
    BY <1>4, <1>6 DEF Content
  <2> QED BY <1>11, <2>1, <2>2, <2>3, <2>4, <2>5, <2>6 DEF Queued, Place, Word
<1>12. \A i \in 1..Len(net') : Queued(i)'
  <2>1. SUFFICES ASSUME NEW i \in 1..Len(net') PROVE Queued(i)'
    OBVIOUS
  <2>2. i \in 1..L \/ i = L + 1
    BY <1>5, <1>6
  <2> QED BY <1>10, <1>11, <2>2
<1>13. half' => net'[Len(net')].f = "data" /\ net'[Len(net')].n = Value'
  BY <1>4, <1>6, <1>8
<1> QED BY <1>6, <1>8, <1>12, <1>13 DEF NetInv

\* The store that is delivered is one the sender may make.
LEMMA DeliveredProper ==
    ASSUME CountInv, NetInv, Deliver
    PROVE  /\ 1 \in 1..Len(net) /\ Head(net) = net[1] /\ Proper(net[1].f, net[1].n)
           /\ Store(net[1].f, Place(net[1].n), Content(net[1].f, net[1].n), net[1].n)
<1>1. net \in Seq(Message) /\ net # <<>>
  BY DEF NetInv, Deliver
<1>2. 1 \in 1..Len(net) /\ Head(net) = net[1] /\ net[1] \in Message
  BY <1>1
<1>3. Queued(1) /\ net[1].f \in {"data", "timestamp"}
  BY <1>2 DEF NetInv, Message
<1>4. net[1].b = Place(net[1].n) /\ net[1].v = Content(net[1].f, net[1].n)
  BY <1>3 DEF Queued, Content
<1>5. Proper(net[1].f, net[1].n)
  BY <1>3, <1>4 DEF Queued, Proper
<1> QED BY <1>2, <1>4, <1>5 DEF Deliver

\* A store that is delivered leaves the others in order behind it.
LEMMA NetDelivers ==
    ASSUME CountInv, MemInv, NetInv, Deliver
    PROVE  NetInv'
<1> DEFINE L == Len(net)
           D == 0..(Blocks - 1)
<1>1. net \in Seq(Message) /\ net # <<>> /\ net' = Tail(net) /\ L \in Nat /\ L >= 1
  BY DEF NetInv, Deliver
<1>2. /\ net' \in Seq(Message) /\ Len(net') = L - 1
      /\ \A i \in 1..(L - 1) : net'[i] = net[i + 1] /\ i + 1 \in 1..L
  BY <1>1
<1>3. /\ Proper(net[1].f, net[1].n)
      /\ Store(net[1].f, Place(net[1].n), Content(net[1].f, net[1].n), net[1].n)
  BY DeliveredProper
<1> DEFINE p == Place(net[1].n)
<1>4. /\ p \in D /\ \A b \in D : b # p => mem'[b] = mem[b]
      /\ net[1].f \in {"data", "timestamp"}
      /\ net[1].f = "data" => mem'[p].data = net[1].n /\ mem'[p].whole = mem[p].whole
      /\ net[1].f = "timestamp" => mem'[p].whole = net[1].n
  BY <1>3, StoreChanges DEF Proper
<1>5. UNCHANGED <<sendStride, rcvStride, link, now, k, half>>
  BY DEF Deliver, config, sndVars
<1>6. Value' = Value /\ Ahead' = Ahead
  BY <1>5 DEF Value, Ahead
<1>7. \A i \in 1..L : Queued(i)
  BY DEF NetInv
<1>8. \A i \in 1..(L - 1) : Queued(i)'
  <2>1. SUFFICES ASSUME NEW i \in 1..(L - 1) PROVE Queued(i)'
    OBVIOUS
  <2> DEFINE z == i + 1
  <2>2. net'[i] = net[z] /\ z \in 1..L /\ Queued(z) /\ i \in Nat /\ z # 1
        /\ z - 1 = i /\ 1 \in 1..z
    BY <1>1, <1>2, <1>7
  <2>3. \A h \in 1..i : net'[h] = net[h + 1] /\ h + 1 \in 1..z
    BY <1>1, <1>2
  <2>4. i # 1 => net'[i - 1] = net[i]
    <3>1. SUFFICES ASSUME i # 1 PROVE net'[i - 1] = net[i]
      OBVIOUS
    <3>2. i - 1 \in 1..(L - 1) /\ (i - 1) + 1 = i
      BY <1>1, <3>1
    <3> QED BY <1>2, <3>2
  <2> HIDE DEF z
  <2>5. /\ Sent(net[z].n) /\ net[z].b = Place(net[z].n)
        /\ net[z].v = (IF net[z].f = "data" THEN net[z].n ELSE Word(net[z].n))
        /\ \A b \in D : mem[b].whole <= net[z].n
        /\ \A h \in 1..z : net[h].n <= net[z].n
        /\ net[z].f = "timestamp" => net[i].f = "data" /\ net[i].n = net[z].n
    BY <2>2 DEF Queued
  <2>6. Sent(net[i].n)'
    BY <1>5, <1>6, <2>2, <2>5 DEF Sent
  <2>7. \A b \in D : mem'[b].whole <= net[z].n
    <3>1. SUFFICES ASSUME NEW b \in D PROVE mem'[b].whole <= net[z].n
      OBVIOUS
    <3>2. net[1].n <= net[z].n
      BY <2>2, <2>5
    <3> HIDE DEF p, D
    <3> QED BY <1>4, <2>5, <3>2
  <2>8. \A h \in 1..i : net'[h].n <= net'[i].n
    BY <2>2, <2>3, <2>5
  <2>9. ASSUME net[z].f = "timestamp"
        PROVE  IF i = 1 THEN mem'[net'[i].b].data = net'[i].n
               ELSE net'[i - 1].f = "data" /\ net'[i - 1].n = net'[i].n
    <3>1. CASE i = 1
      BY <1>4, <2>2, <2>5, <2>9, <3>1
    <3>2. CASE i # 1
      BY <2>2, <2>4, <2>5, <2>9, <3>2
    <3> QED BY <3>1, <3>2
  <2>10. net'[i].b = Place(net'[i].n)
         /\ net'[i].v = (IF net'[i].f = "data" THEN net'[i].n ELSE Word(net'[i].n))
         /\ \A b \in D : mem'[b].whole <= net'[i].n
    BY <2>2, <2>5, <2>7
  <2> QED BY <2>2, <2>6, <2>8, <2>9, <2>10 DEF Queued, Place, Word
<1>9. ASSUME half', link' # "none"
      PROVE  IF net' = <<>> THEN mem'[Place(Value)].data = Value
             ELSE net'[Len(net')].f = "data" /\ net'[Len(net')].n = Value
  <2>1. net[L].f = "data" /\ net[L].n = Value
    BY <1>1, <1>5, <1>9 DEF NetInv
  <2>2. CASE L = 1
    <3>1. net' = <<>>
      BY <1>2, <2>2
    <3> QED BY <1>4, <2>1, <2>2, <3>1
  <2>3. CASE L # 1
    <3>1. L - 1 \in 1..(L - 1) /\ (L - 1) + 1 = L /\ L - 1 # 0
      <4>1. \A x \in Nat : x >= 1 /\ x # 1 =>
                             x - 1 \in 1..(x - 1) /\ (x - 1) + 1 = x /\ x - 1 # 0
        OBVIOUS
      <4>2. L \in Nat /\ L >= 1
        BY <1>1
      <4> HIDE DEF L
      <4> QED BY <2>3, <4>1, <4>2
    <3>2. net'[L - 1] = net[L]
      BY <1>2, <3>1
    <3>3. net' # <<>>
      <4>1. Len(net') # 0
        BY <1>2, <3>1
      <4> QED BY <4>1
    <3> QED BY <1>2, <2>1, <3>2, <3>3
  <2> QED BY <2>2, <2>3
<1>10. link \notin {"shm", "none"}
  BY <1>1 DEF NetInv
<1> QED BY <1>2, <1>5, <1>6, <1>8, <1>9, <1>10 DEF NetInv, Place

-----------------------------------------------------------------------------
(* Counts and time *)

\* The cycle count wraps at the end of a second.
LEMMA NextCycle ==
    ASSUME NEW s \in Strides, NEW n \in Nat
    PROVE  CycleOf(n + 1, s) = IF CycleOf(n, s) = Rate(s) - 1 THEN 0 ELSE CycleOf(n, s) + 1
<1> DEFINE R == Rate(s)
           q == n \div R
           c == n % R
           a == n + 1
           u == q + 1
           d == c + 1
<1>1. R \in Nat \ {0}
  BY StrideFacts
<1>2. n \in Int /\ a \in Int
  OBVIOUS
<1>3. q \in Int /\ c \in 0..(R - 1) /\ n = R * q + c
  <2> HIDE DEF R
  <2> QED BY <1>1, <1>2, DivMod
<1> HIDE DEF R, q, c
<1>4. CASE c = R - 1
  <2>1. a = R * u + 0 /\ u \in Int /\ 0 \in 0..(R - 1)
    BY <1>1, <1>3, <1>4
  <2> HIDE DEF a, u
  <2>2. a % R = 0
    BY <1>1, <1>2, <2>1, DivModUnique
  <2> QED BY <1>4, <2>2 DEF CycleOf, R, c, a
<1>5. CASE c # R - 1
  <2>1. a = R * q + d /\ d \in 0..(R - 1)
    BY <1>1, <1>3, <1>5
  <2> HIDE DEF a, d
  <2>2. a % R = d
    BY <1>1, <1>2, <1>3, <2>1, DivModUnique
  <2> QED BY <1>5, <2>2 DEF CycleOf, R, c, a, d
<1> QED BY <1>4, <1>5

\* The seconds up to now.
LEMMA SecondsToNow ==
    ASSUME NEW t \in Nat
    PROVE  /\ t \div MaxRate \in Nat /\ MaxRate \in Nat \ {0}
           /\ t < (t \div MaxRate + 1) * MaxRate
           /\ (t \div MaxRate + 1) * MaxRate <= ((t + 1) \div MaxRate + 1) * MaxRate
<1> DEFINE d == t \div MaxRate
           e == (t + 1) \div MaxRate
           x == t % MaxRate
           y == (t + 1) % MaxRate
<1>1. MaxRate \in Nat \ {0} /\ t \in Int /\ t + 1 \in Int
  BY RatesAssumption
<1>2. d \in Int /\ x \in 0..(MaxRate - 1) /\ t = MaxRate * d + x
  BY <1>1, DivMod
<1>3. e \in Int /\ y \in 0..(MaxRate - 1) /\ t + 1 = MaxRate * e + y
  BY <1>1, DivMod
<1> HIDE DEF d, e, x, y
<1>4. (d + 1) * MaxRate = MaxRate * d + MaxRate /\ (e + 1) * MaxRate = MaxRate * e + MaxRate
      /\ MaxRate * d \in Int /\ MaxRate * e \in Int
  BY <1>1, <1>2, <1>3
<1>5. t < (d + 1) * MaxRate
  BY <1>1, <1>2, <1>4
<1>6. d >= 0
  <2>1. CASE d <= -1
    <3>1. MaxRate * d <= -MaxRate
      BY <1>1, <1>2, <2>1
    <3> QED BY <1>1, <1>2, <3>1
  <2> QED BY <1>2, <2>1
<1>7. d <= e
  <2>1. CASE e + 1 <= d
    <3>1. (e + 1) * MaxRate <= d * MaxRate /\ d * MaxRate = MaxRate * d
      BY <1>1, <1>2, <1>3, <2>1
    <3> QED BY <1>1, <1>2, <1>3, <1>4, <3>1
  <2> QED BY <1>2, <1>3, <2>1
<1>8. (d + 1) * MaxRate <= (e + 1) * MaxRate
  <2>1. d + 1 \in Int /\ e + 1 \in Int /\ d + 1 <= e + 1
    BY <1>2, <1>3, <1>7
  <2> QED BY <1>1, <2>1, ProductOrder
<1>9. d \in Nat
  BY <1>2, <1>6
<1> QED BY <1>1, <1>5, <1>8, <1>9 DEF d, e

\* The end of a receive counts at most one error in a cycle.
LEMMA ReceiveCounts ==
    ASSUME CountInv, NEW e \in {0, 1}, EndReceive(e)
    PROVE  CountInv' /\ Forward
<1> DEFINE R == Rate(rcvStride)
<1>1. /\ UNCHANGED <<sendStride, rcvStride, link, now, up, stops, k, half>> /\ j' = j + 1
      /\ UNCHANGED config
  BY DEF EndReceive, config, sndVars
<1>2. /\ j \in Nat /\ rcvStride \in Strides /\ errFlag \in Nat /\ errFlag < R
      /\ Cycle # 0 => errFlag < Cycle
      /\ errTotal \in 0..R
  BY DEF CountInv
<1>3. R \in Nat \ {0} /\ rcvStride \in Nat \ {0}
  BY <1>2, StrideFacts
<1>4. Cycle \in 0..(R - 1)
  BY <1>2, CycleTick DEF Cycle
<1>5. Cycle' = IF Cycle = R - 1 THEN 0 ELSE Cycle + 1
  BY <1>1, <1>2, NextCycle DEF Cycle
<1>6. /\ errFlag' = (IF Cycle = 0 THEN 0 ELSE errFlag + e)
      /\ errTotal' = (IF Cycle = 0 THEN errFlag + e ELSE errTotal)
  BY DEF EndReceive, Report
<1> HIDE DEF R
<1>7. /\ errFlag' \in Nat /\ errFlag' < R
      /\ Cycle' # 0 => errFlag' < Cycle'
      /\ errTotal' \in 0..R
  BY <1>2, <1>3, <1>4, <1>5, <1>6
<1>8. now < (j' + 1) * rcvStride
  <2>1. now \in Nat /\ now < (j + 1) * rcvStride
    BY DEF CountInv
  <2>2. j + 1 \in Int /\ (j + 1) + 1 \in Int /\ j + 1 <= (j + 1) + 1
    BY <1>2
  <2>3. (j + 1) * rcvStride <= ((j + 1) + 1) * rcvStride
        /\ (j + 1) * rcvStride \in Int /\ ((j + 1) + 1) * rcvStride \in Int
    BY <1>3, <2>2, ProductOrder
  <2> QED BY <1>1, <2>1, <2>3
<1>9. j' \in Nat
  BY <1>1, <1>2
<1>10. Forward
  BY <1>1 DEF Forward, CountInv
<1>11. R' = R
  BY <1>1 DEF R, Rate
<1> QED BY <1>1, <1>7, <1>8, <1>9, <1>10, <1>11 DEF CountInv, R

\* The sender's cycles stay within the second that now is in, so that a restart,
\* which begins with the next, never takes them back.
LEMMA SenderCounts ==
    ASSUME CountInv, \/ SendData \/ SendSync \/ SendStop \/ SendStart
    PROVE  CountInv' /\ Forward
<1> DEFINE s == sendStride
           d == now \div MaxRate
           R == Rate(sendStride)
<1>1. /\ UNCHANGED <<sendStride, rcvStride, link, now, j, errFlag, errTotal>>
      /\ UNCHANGED config
  BY DEF SendData, SendSync, SendStop, SendStart, config, sndVars, rcvVars
<1>2. /\ k \in Nat /\ now \in Nat /\ s \in Strides
      /\ k * s <= (d + 1) * MaxRate
      /\ half => up /\ now >= k * s
      /\ up \in BOOLEAN /\ half \in BOOLEAN
  BY DEF CountInv
<1>3. /\ s \in Nat \ {0} /\ R \in Nat \ {0} /\ MaxRate = s * R /\ MaxRate \in Nat \ {0}
  BY <1>2, StrideFacts
<1>4. d \in Nat /\ now < (d + 1) * MaxRate
  BY <1>2, SecondsToNow
<1>5. Cycle' = Cycle /\ Rate(rcvStride)' = Rate(rcvStride) /\ d' = d
  BY <1>1 DEF Cycle, CycleOf, Rate
<1>6. ASSUME /\ k' \in Nat /\ k' >= k /\ up' \in BOOLEAN /\ half' \in BOOLEAN
             /\ k' * s <= (d + 1) * MaxRate
             /\ half' => up' /\ now >= k' * s
      PROVE  CountInv' /\ Forward
  <2>1. Forward
    BY <1>1, <1>2, <1>6 DEF Forward
  <2>2. k' * sendStride' <= (now' \div MaxRate + 1) * MaxRate
    BY <1>1, <1>6
  <2> QED BY <1>1, <1>5, <1>6, <2>1, <2>2 DEF CountInv
<1>7. CASE SendData
  <2>1. k' = k /\ up /\ up' = up /\ half' = TRUE /\ now >= k * s
    BY <1>7 DEF SendData
  <2>2. k' \in Nat /\ k' >= k /\ k' * s <= (d + 1) * MaxRate
    BY <1>2, <2>1
  <2> HIDE DEF s, d
  <2> QED BY <1>2, <1>6, <2>1, <2>2
<1>8. CASE SendSync
  <2>1. k' = k + 1 /\ up' = up /\ half' = FALSE /\ half
    BY <1>8 DEF SendSync
  <2>2. k * s < (d + 1) * MaxRate
    <3>1. k * s \in Int /\ (d + 1) * MaxRate \in Int
      BY <1>2, <1>3, <1>4
    <3> HIDE DEF s, d
    <3> QED BY <1>2, <1>4, <2>1, <3>1
  <2> HIDE DEF s, d, R
  <2>3. (d + 1) * MaxRate = ((d + 1) * R) * s /\ (d + 1) * R \in Int
    BY <1>3, <1>4
  <2>4. k + 1 <= (d + 1) * R
    <3>1. CASE (d + 1) * R <= k
      <4>1. ((d + 1) * R) * s <= k * s /\ ((d + 1) * R) * s \in Int /\ k * s \in Int
        BY <1>2, <1>3, <2>3, <3>1, ProductOrder
      <4> QED BY <2>2, <2>3, <4>1
    <3> QED BY <1>2, <2>3, <3>1
  <2>5. (k + 1) * s <= ((d + 1) * R) * s
    BY <1>2, <1>3, <2>3, <2>4, ProductOrder
  <2>6. k' * s <= (d + 1) * MaxRate
    BY <2>1, <2>3, <2>5
  <2>7. k' \in Nat /\ k' >= k
    BY <1>2, <2>1
  <2> QED BY <1>2, <1>6, <2>1, <2>6, <2>7
<1>9. CASE SendStop
  <2>1. k' = k /\ up' = FALSE /\ half' = FALSE
    BY <1>9 DEF SendStop
  <2>2. k' \in Nat /\ k' >= k /\ k' * s <= (d + 1) * MaxRate
    BY <1>2, <2>1
  <2> HIDE DEF s, d
  <2> QED BY <1>6, <2>1, <2>2
<1>10. CASE SendStart
  <2>1. ~half /\ half' = half /\ up' = TRUE /\ k' = (d + 1) * R
    BY <1>2, <1>10 DEF SendStart
  <2> HIDE DEF s, d, R
  <2>2. (d + 1) * MaxRate = ((d + 1) * R) * s /\ (d + 1) * R \in Nat
    BY <1>3, <1>4
  <2>3. (d + 1) * R >= k
    <3>1. CASE (d + 1) * R + 1 <= k
      <4>1. ((d + 1) * R + 1) * s <= k * s
        BY <1>2, <1>3, <2>2, <3>1, ProductOrder
      <4>2. ((d + 1) * R + 1) * s = ((d + 1) * R) * s + s
        BY <1>3, <2>2
      <4>3. k * s \in Int /\ ((d + 1) * R) * s \in Int
        BY <1>2, <1>3, <2>2
      <4> QED BY <1>2, <1>3, <2>2, <4>1, <4>2, <4>3
    <3> QED BY <1>2, <2>2, <3>1
  <2>4. k' * s <= (d + 1) * MaxRate /\ k' \in Nat /\ k' >= k
    <3>1. ((d + 1) * R) * s \in Int
      BY <1>3, <2>2
    <3> QED BY <2>1, <2>2, <2>3, <3>1
  <2> QED BY <1>2, <1>6, <2>1, <2>4
<1> QED BY <1>7, <1>8, <1>9, <1>10

\* A delivery and a load count nothing, and a tick keeps the receiver in its cycle.
LEMMA OthersCount ==
    ASSUME CountInv, \/ Deliver \/ RcvData \/ Tick
    PROVE  CountInv' /\ Forward
<1>1. /\ UNCHANGED <<sendStride, rcvStride, link, up, half, k, j, errFlag, errTotal>>
      /\ UNCHANGED config
  BY DEF Deliver, RcvData, Tick, config, sndVars, rcvVars
<1>2. Cycle' = Cycle /\ Rate(rcvStride)' = Rate(rcvStride)
  BY <1>1 DEF Cycle, CycleOf, Rate
<1>3. CASE Deliver \/ RcvData
  <2>1. now' = now
    BY <1>3 DEF Deliver, RcvData
  <2> QED BY <1>1, <1>2, <2>1 DEF CountInv, Forward
<1>4. CASE Tick
  <2>1. now' = now + 1 /\ now \in Nat /\ now' \in 0..Horizon /\ now' < (j + 1) * rcvStride
    BY <1>4, RatesAssumption DEF CountInv, Tick
  <2>2. k * sendStride <= (now' \div MaxRate + 1) * MaxRate
    <3> DEFINE d == now \div MaxRate
               e == (now + 1) \div MaxRate
               x == (d + 1) * MaxRate
               y == (e + 1) * MaxRate
    <3>1. x <= y /\ d \in Nat
      BY <2>1, SecondsToNow
    <3>2. e \in Nat /\ MaxRate \in Nat
      BY <2>1, SecondsToNow, RatesAssumption
    <3>3. k * sendStride \in Int /\ k * sendStride <= x
      BY Configured DEF CountInv
    <3>4. x \in Int /\ y \in Int
      <4> HIDE DEF d, e
      <4> QED BY <3>1, <3>2
    <3>5. k * sendStride <= y
      <4> HIDE DEF x, y
      <4> QED BY <3>1, <3>3, <3>4
    <3> QED BY <2>1, <3>5
  <2>3. Forward
    BY <1>1, <2>1 DEF Forward, CountInv
  <2>4. half => up /\ now' >= k * sendStride
    <3>1. SUFFICES ASSUME half PROVE up /\ now' >= k * sendStride
      OBVIOUS
    <3> DEFINE z == k * sendStride
    <3>2. z \in Int
      BY Configured
    <3>3. up /\ now >= z
      BY <3>1 DEF CountInv
    <3> HIDE DEF z
    <3>4. now' >= z
      BY <2>1, <3>2, <3>3
    <3> QED BY <3>3, <3>4 DEF z
  <2> QED BY <1>1, <1>2, <2>1, <2>2, <2>3, <2>4 DEF CountInv
<1> QED BY <1>3, <1>4

-----------------------------------------------------------------------------
(* The steps *)

\* The memory that is left alone keeps its invariant.
LEMMA MemKeeps ==
    ASSUME CountInv, MemInv, Forward, mem' = mem
    PROVE  MemInv'
<1>1. \A b \in 0..(Blocks - 1) : PlaceInv(b)'
  BY PlaceKeeps DEF MemInv
<1> QED BY <1>1 DEF MemInv

\* So does what holds between the two loads.
LEMMA LoadKeeps ==
    ASSUME LoadInv, UNCHANGED <<config, j, tmp, present, crossed, mem>>
    PROVE  LoadInv'
  BY DEF LoadInv, config, Cycle, rcvCycle, rcvBlock

\* A store of the sender, in shared memory, on a network or without a card.
LEMMA PutKeeps ==
    ASSUME CountInv, MemInv, NetInv, LoadInv, Forward,
           NEW f \in {"data", "timestamp"}, Put(f, Content(f, Value)),
           UNCHANGED <<j, tmp, present>>, now >= k * sendStride,
           f = "timestamp" => half, half' => f = "data" /\ k' = k
    PROVE  MemInv' /\ NetInv' /\ LoadInv'
<1>1. /\ Value \in Nat /\ Value = k * sendStride + Ahead * sendStride
      /\ k * sendStride \in Nat /\ Ahead * sendStride \in Nat /\ now \in Nat
      /\ sendBlock = Place(Value)
  BY Configured DEF CountInv
<1>2. Sent(Value)
  BY <1>1 DEF Sent
<1>3. UNCHANGED config /\ link' = link /\ (half' => Value' = Value)
  BY DEF Forward, config, Value, Ahead
<1>4. CASE link = "shm"
  <2>1. Store(f, Place(Value), Content(f, Value), Value) /\ net' = net /\ net = <<>>
    BY <1>1, <1>4 DEF Put, NetInv
  <2>2. Proper(f, Value)
    <3>1. ASSUME NEW b \in 0..(Blocks - 1) PROVE mem[b].whole <= Value
      <4>1. PlaceInv(b)
        BY DEF MemInv
      <4> QED BY <1>1, <4>1 DEF PlaceInv, Sent, Empty
    <3>2. f = "timestamp" => mem[Place(Value)].data = Value
      BY <1>4, <2>1 DEF NetInv
    <3> QED BY <1>2, <3>1, <3>2 DEF Proper
  <2>3. MemInv'
    BY <2>1, <2>2, StoreKeepsMem
  <2>4. LoadInv'
    BY <1>3, <2>1, <2>2, StoreKeepsLoad
  <2>5. half' => mem'[Place(Value)].data = Value
    BY <2>1, <2>2, StoreChanges
  <2>6. \A i \in 1..Len(net') : Queued(i)'
    BY <2>1
  <2>7. net' \in Seq(Message)
    BY <2>1
  <2> QED BY <1>3, <2>1, <2>3, <2>4, <2>5, <2>6, <2>7 DEF NetInv, Place
<1>5. CASE link = "none"
  <2>1. UNCHANGED <<mem, net, crossed>> /\ net = <<>>
    BY <1>5 DEF Put, NetInv
  <2>2. MemInv'
    BY <2>1, MemKeeps
  <2>3. LoadInv'
    BY <1>3, <2>1, LoadKeeps
  <2>4. net' = <<>> /\ net' \in Seq(Message) /\ \A i \in 1..Len(net') : Queued(i)'
    BY <2>1
  <2> QED BY <1>3, <1>5, <2>2, <2>3, <2>4 DEF NetInv
<1>6. CASE link \notin {"shm", "none"}
  <2>1. /\ net' = Append(net, [f |-> f, b |-> Place(Value), v |-> Content(f, Value),
                               n |-> Value, at |-> now])
        /\ UNCHANGED <<mem, crossed>>
    BY <1>1, <1>6 DEF Put
  <2>2. MemInv'
    BY <2>1, MemKeeps
  <2>3. LoadInv'
    BY <1>3, <2>1, LoadKeeps
  <2>4. NetInv'
    BY <1>6, <2>1, NetAppends
  <2> QED BY <2>2, <2>3, <2>4
<1> QED BY <1>4, <1>5, <1>6

\* A value that passes the receiver's test is that of its tick.
LEMMA GoodIsCurrent ==
    ASSUME CountInv, MemInv, Good
    PROVE  mem[rcvBlock].data = j * rcvStride
<1> DEFINE t == j * rcvStride
           b == rcvBlock
<1>1. t \in Nat /\ b = Place(t) /\ <<TimeSec(j, rcvStride), Cycle * rcvStride>> = Word(t)
  BY Configured
<1>2. mem[b].timestamp = Word(t)
  BY <1>1 DEF Good
<1>3. b \in 0..(Blocks - 1) /\ Word(t) # Empty.timestamp
  BY <1>1, WordType
<1>4. PlaceInv(b)
  BY <1>3 DEF MemInv
<1>5. /\ Sent(mem[b].data) /\ Place(mem[b].data) = b
      /\ Sent(mem[b].whole) /\ mem[b].timestamp = Word(mem[b].whole)
      /\ mem[b].whole <= mem[b].data
  BY <1>2, <1>3, <1>4 DEF PlaceInv
<1>6. mem[b].whole = t
  <2>1. mem[b].whole \in Int /\ t \in Int
    BY <1>1, <1>5 DEF Sent
  <2> QED BY <1>2, <1>5, <2>1, WordsDiffer
<1>7. mem[b].data >= t
  BY <1>5, <1>6 DEF Sent
<1> QED BY <1>5, <1>7, OnePlaceOneTick

\* A pair for the receiver's tick passes the test.
LEMMA PresentIsGood ==
    ASSUME CountInv, MemInv, mem[rcvBlock].whole = j * rcvStride
    PROVE  Good
<1> DEFINE t == j * rcvStride
           b == rcvBlock
<1>1. t \in Nat /\ b = Place(t) /\ <<TimeSec(j, rcvStride), Cycle * rcvStride>> = Word(t)
  BY Configured
<1>2. b \in 0..(Blocks - 1)
  BY <1>1, WordType
<1>3. PlaceInv(b) /\ mem[b].whole # -1
  BY <1>1, <1>2 DEF MemInv
<1>4. mem[b].timestamp = Word(mem[b].whole)
  BY <1>3 DEF PlaceInv, Empty
<1> QED BY <1>1, <1>4 DEF Good

\* The end of a receive: j moves on, nothing is loaded, the memory stays.
LEMMA ReceiveKeeps ==
    ASSUME CountInv, MemInv, NetInv, NEW e \in {0, 1}, EndReceive(e),
           tmp' = NotLoaded, ~crossed', crossed' \in BOOLEAN, present' \in BOOLEAN
    PROVE  CountInv' /\ MemInv' /\ NetInv' /\ LoadInv'
<1>1. CountInv' /\ Forward
  BY ReceiveCounts
<1>2. UNCHANGED <<net, mem, half, k>>
  BY DEF EndReceive, sndVars
<1>3. MemInv'
  BY <1>1, <1>2, MemKeeps
<1>4. NetInv'
  BY <1>1, <1>2, NetKeeps
<1>5. LoadInv'
  BY DEF LoadInv
<1> QED BY <1>1, <1>3, <1>4, <1>5

\* The first load notes the value, and whether the pair for the tick is there.
LEMMA FirstLoad ==
    ASSUME CountInv, MemInv, NetInv, LoadInv, RcvData
    PROVE  CountInv' /\ MemInv' /\ NetInv' /\ LoadInv'
<1>1. CountInv' /\ Forward
  BY OthersCount
<1>2. UNCHANGED <<net, mem, half, k, j, crossed>> /\ UNCHANGED config
  BY DEF RcvData, sndVars, config
<1>3. MemInv'
  BY <1>1, <1>2, MemKeeps
<1>4. NetInv'
  BY <1>1, <1>2, NetKeeps
<1>5. rcvBlock' = rcvBlock /\ Cycle' = Cycle /\ rcvCycle' = rcvCycle /\ link' = link
      /\ rcvStride' = rcvStride
  BY <1>2 DEF rcvBlock, Cycle, rcvCycle, config
<1>6. tmp' = mem[rcvBlock].data /\ Cycle % rcvCycle = 0 /\ link # "none" /\ ~crossed
      /\ crossed \in BOOLEAN
      /\ present' = (\E b \in DOMAIN mem : mem[b].whole = j * rcvStride)
  BY DEF RcvData, LoadInv
<1>7. ASSUME present' PROVE mem[rcvBlock].whole = j * rcvStride
  <2>1. PICK b \in 0..(Blocks - 1) : mem[b].whole = j * rcvStride
    BY <1>6, <1>7 DEF MemInv
  <2>2. PlaceInv(b) /\ j * rcvStride \in Nat /\ rcvBlock = Place(j * rcvStride)
    BY Configured DEF MemInv
  <2>3. Place(mem[b].whole) = b
    BY <2>1, <2>2 DEF PlaceInv, Empty
  <2> QED BY <2>1, <2>2, <2>3
<1>8. LoadInv'
  BY <1>2, <1>5, <1>6, <1>7 DEF LoadInv
<1> QED BY <1>1, <1>3, <1>4, <1>8

\* Every step keeps the invariant.
LEMMA IndStep ==
    ASSUME IndInv, [Next]_vars
    PROVE  IndInv'
<1>1. CountInv /\ MemInv /\ NetInv /\ LoadInv /\ TakenIsCurrent /\ PresentIsTaken
  BY DEF IndInv
<1>2. ASSUME UNCHANGED <<data, outcome>>
      PROVE  TakenIsCurrent' /\ PresentIsTaken'
  BY <1>1, <1>2 DEF TakenIsCurrent, PresentIsTaken
<1>3. CASE SendData
  <2>1. CountInv' /\ Forward
    BY <1>1, <1>3, SenderCounts
  <2>2. /\ Put("data", Content("data", Value)) /\ now >= k * sendStride /\ k' = k
        /\ UNCHANGED <<j, tmp, present, data, outcome>>
    BY <1>3 DEF SendData, Content, rcvVars
  <2>3. MemInv' /\ NetInv' /\ LoadInv'
    BY <1>1, <2>1, <2>2, PutKeeps
  <2> QED BY <1>2, <2>1, <2>2, <2>3 DEF IndInv
<1>4. CASE SendSync
  <2>1. CountInv' /\ Forward
    BY <1>1, <1>4, SenderCounts
  <2>2. SyncWord = Word(Value)
    BY <1>1, Configured
  <2>3. /\ Put("timestamp", Content("timestamp", Value)) /\ half /\ half' = FALSE
        /\ UNCHANGED <<j, tmp, present, data, outcome>>
    BY <1>4, <2>2 DEF SendSync, Content, rcvVars
  <2>4. now >= k * sendStride
    BY <1>1, <2>3 DEF CountInv
  <2>5. MemInv' /\ NetInv' /\ LoadInv'
    BY <1>1, <2>1, <2>3, <2>4, PutKeeps
  <2> QED BY <1>2, <2>1, <2>3, <2>5 DEF IndInv
<1>5. CASE SendStop \/ SendStart
  <2>1. CountInv' /\ Forward
    BY <1>1, <1>5, SenderCounts
  <2>2. /\ UNCHANGED <<net, mem, crossed, j, tmp, present, data, outcome>>
        /\ UNCHANGED config
    BY <1>5 DEF SendStop, SendStart, rcvVars
  <2>3. half' => half /\ k' = k
    BY <1>1, <1>5 DEF SendStop, SendStart, CountInv
  <2>4. MemInv' /\ NetInv' /\ LoadInv'
    BY <1>1, <2>1, <2>2, <2>3, MemKeeps, NetKeeps, LoadKeeps
  <2> QED BY <1>2, <2>1, <2>2, <2>4 DEF IndInv
<1>6. CASE Deliver
  <2>1. CountInv' /\ Forward
    BY <1>1, <1>6, OthersCount
  <2>2. UNCHANGED config /\ UNCHANGED <<j, tmp, present, data, outcome>>
    BY <1>6 DEF Deliver, rcvVars
  <2>3. /\ Proper(net[1].f, net[1].n)
        /\ Store(net[1].f, Place(net[1].n), Content(net[1].f, net[1].n), net[1].n)
    BY <1>1, <1>6, DeliveredProper
  <2>4. MemInv'
    BY <1>1, <2>1, <2>3, StoreKeepsMem
  <2>5. LoadInv'
    BY <1>1, <2>2, <2>3, StoreKeepsLoad
  <2>6. NetInv'
    BY <1>1, <1>6, NetDelivers
  <2> QED BY <1>2, <2>1, <2>2, <2>4, <2>5, <2>6 DEF IndInv
<1>7. CASE RcvSkip \/ RcvNoCard
  <2>1. PICK e \in {0, 1} : EndReceive(e)
    BY <1>7 DEF RcvSkip, RcvNoCard
  <2>2. UNCHANGED <<tmp, crossed, present, data, outcome>>
        /\ (Cycle % rcvCycle # 0 \/ link = "none")
    BY <1>7 DEF RcvSkip, RcvNoCard
  <2>3. tmp' = NotLoaded /\ ~crossed' /\ crossed' \in BOOLEAN /\ present' \in BOOLEAN
    BY <1>1, <2>2 DEF LoadInv
  <2>4. CountInv' /\ MemInv' /\ NetInv' /\ LoadInv'
    BY <1>1, <2>1, <2>3, ReceiveKeeps
  <2> QED BY <1>2, <2>2, <2>4 DEF IndInv
<1>8. CASE RcvData
  <2>1. CountInv' /\ MemInv' /\ NetInv' /\ LoadInv'
    BY <1>1, <1>8, FirstLoad
  <2>2. UNCHANGED <<data, outcome>>
    BY <1>8 DEF RcvData
  <2> QED BY <1>2, <2>1, <2>2 DEF IndInv
<1>9. CASE RcvSync
  <2>1. PICK e \in {0, 1} : EndReceive(e)
    BY <1>9 DEF RcvSync
  <2>2. /\ tmp # NotLoaded /\ tmp' = NotLoaded /\ crossed' = FALSE /\ present' = FALSE
        /\ data' = (IF Good THEN tmp ELSE data)
        /\ outcome' = [tick |-> j * rcvStride, good |-> Good, crossed |-> crossed,
                       present |-> present]
    BY <1>9 DEF RcvSync
  <2>3. CountInv' /\ MemInv' /\ NetInv' /\ LoadInv'
    BY <1>1, <2>1, <2>2, ReceiveKeeps
  <2>4. /\ ~crossed => tmp = mem[rcvBlock].data
        /\ present => mem[rcvBlock].whole = j * rcvStride
    BY <1>1, <2>2 DEF LoadInv
  <2>5. TakenIsCurrent'
    <3>1. ASSUME Good, ~crossed PROVE data' = j * rcvStride
      BY <1>1, <2>2, <2>4, <3>1, GoodIsCurrent
    <3> QED BY <2>2, <3>1 DEF TakenIsCurrent
  <2>6. PresentIsTaken'
    <3>1. present => Good
      BY <1>1, <2>4, PresentIsGood
    <3> QED BY <2>2, <3>1 DEF PresentIsTaken
  <2> QED BY <2>3, <2>5, <2>6 DEF IndInv
<1>10. CASE Tick
  <2>1. CountInv' /\ Forward
    BY <1>1, <1>10, OthersCount
  <2>2. /\ UNCHANGED <<net, mem, crossed, half, k, j, tmp, present, data, outcome>>
        /\ UNCHANGED config
    BY <1>10 DEF Tick, rcvVars, sndVars
  <2>3. MemInv' /\ NetInv' /\ LoadInv'
    BY <1>1, <2>1, <2>2, MemKeeps, NetKeeps, LoadKeeps
  <2> QED BY <1>2, <2>1, <2>2, <2>3 DEF IndInv
<1>11. CASE UNCHANGED vars
  <2>1. /\ UNCHANGED config /\ UNCHANGED <<now, up, stops, k, half, net, mem, crossed>>
        /\ UNCHANGED <<j, tmp, data, errFlag, errTotal, present, outcome>>
    BY <1>11 DEF vars, sndVars, rcvVars
  <2>2. Forward
    BY <1>1, <2>1 DEF Forward, CountInv
  <2>3. CountInv'
    BY <1>1, <2>1 DEF CountInv, config, Cycle
  <2>4. MemInv' /\ NetInv' /\ LoadInv'
    BY <1>1, <2>1, <2>2, MemKeeps, NetKeeps, LoadKeeps
  <2> QED BY <1>2, <2>1, <2>3, <2>4 DEF IndInv
<1> QED BY <1>3, <1>4, <1>5, <1>6, <1>7, <1>8, <1>9, <1>10, <1>11 DEF Next

\* It holds at the start.
LEMMA IndStart ==
    ASSUME Init
    PROVE  IndInv
<1>1. sendStride \in Strides /\ rcvStride \in Strides /\ k = 0 /\ j = 0 /\ now = 0
  BY DEF Init
<1>2. sendStride \in Nat \ {0} /\ rcvStride \in Nat \ {0} /\ Rate(rcvStride) \in Nat \ {0}
      /\ MaxRate \in Nat \ {0}
  BY <1>1, StrideFacts
<1>3. CycleOf(0, rcvStride) = 0
  <2> DEFINE R == Rate(rcvStride)
  <2>1. R \in Nat \ {0} /\ 0 \in 0..(R - 1) /\ 0 \in Int /\ 0 = R * 0 + 0
    BY <1>2
  <2> HIDE DEF R
  <2>2. 0 % R = 0
    BY <2>1, DivModUnique
  <2> QED BY <2>2 DEF CycleOf, R
<1>4. 0 \div MaxRate = 0
  <2>1. 0 \in 0..(MaxRate - 1) /\ 0 \in Int /\ 0 = MaxRate * 0 + 0
    BY <1>2
  <2> QED BY <1>2, <2>1, DivModUnique
<1>5. CountInv
  <2>1. 0 * sendStride = 0 /\ (0 + 1) * rcvStride = rcvStride /\ (0 + 1) * MaxRate = MaxRate
    BY <1>2
  <2>2. Cycle = 0
    BY <1>1, <1>3 DEF Cycle
  <2>3. errFlag = 0 /\ errTotal = 0 /\ up = TRUE /\ half = FALSE /\ link \in Links
        /\ PlacesSuffice(sendStride, rcvStride, link)
    BY DEF Init
  <2>4. now \in 0..Horizon /\ k \in Nat /\ j \in Nat /\ errTotal \in 0..Rate(rcvStride)
        /\ errFlag \in Nat /\ errFlag < Rate(rcvStride)
    BY <1>1, <1>2, <2>3, RatesAssumption
  <2>5. k * sendStride <= (now \div MaxRate + 1) * MaxRate
    BY <1>1, <1>2, <1>4, <2>1
  <2>6. now < (j + 1) * rcvStride
    BY <1>1, <1>2, <2>1
  <2> QED BY <1>1, <2>2, <2>3, <2>4, <2>5, <2>6 DEF CountInv
<1>6. MemInv
  <2>1. Empty \in Pair
    BY DEF Empty, Pair
  <2> QED BY <2>1 DEF Init, MemInv, PlaceInv
<1>7. NetInv
  BY DEF Init, NetInv
<1>8. LoadInv /\ TakenIsCurrent /\ PresentIsTaken
  BY DEF Init, LoadInv, TakenIsCurrent, PresentIsTaken
<1> QED BY <1>5, <1>6, <1>7, <1>8 DEF IndInv

-----------------------------------------------------------------------------
(* Theorems *)

\* IndInv is an invariant: counts, memory, stores on their way and loads agree.
THEOREM IpcInvariance == Spec => []IndInv
<1>1. Init => IndInv
  BY IndStart
<1>2. IndInv /\ [Next]_vars => IndInv'
  BY IndStep
<1> QED BY <1>1, <1>2, PTL DEF Spec

\* The words in memory are ticks of a second, and the receiver counts no more
\* errors in a second than it has cycles.
THEOREM IpcTypes == Spec => []TypeOK
<1>1. IndInv => TypeOK
  <2>1. SUFFICES ASSUME IndInv PROVE TypeOK
    OBVIOUS
  <2>2. CountInv /\ MemInv /\ Rate(rcvStride) \in Nat \ {0} /\ MaxRate \in Nat \ {0}
    BY <2>1, StrideFacts DEF IndInv, CountInv
  <2>3. ASSUME NEW b \in DOMAIN mem PROVE mem[b].timestamp[2] \in 0..(MaxRate - 1)
    <3>1. PlaceInv(b)
      BY <2>2 DEF MemInv
    <3>2. CASE mem[b].timestamp = Empty.timestamp
      BY <2>2, <3>2 DEF Empty
    <3>3. CASE mem[b].timestamp # Empty.timestamp
      <4>1. Sent(mem[b].whole) /\ mem[b].timestamp = Word(mem[b].whole)
        BY <3>1, <3>3 DEF PlaceInv
      <4> QED BY <4>1, WordType DEF Sent
    <3> QED BY <3>2, <3>3
  <2> QED BY <2>2, <2>3 DEF TypeOK, CountInv
<1> QED BY <1>1, IpcInvariance, PTL

\* commData3Receive takes only the value for its own cycle, unless this value is
\* stored into its place between the two loads.
THEOREM ValuesAreCurrent == Spec => []TakenIsCurrent
<1>1. IndInv => TakenIsCurrent
  BY DEF IndInv
<1> QED BY <1>1, IpcInvariance, PTL

\* commData3Receive takes a value that is there with its sync word: sender and
\* receiver count seconds, cycles and blocks alike at every pair of rates that
\* PlacesSuffice allows, which with 64 places are all but a sender at 2048 Hz
\* with RFM_DELAY.
THEOREM ValuesAreTaken == Spec => []PresentIsTaken
<1>1. IndInv => PresentIsTaken
  BY DEF IndInv
<1> QED BY <1>1, IpcInvariance, PTL
=============================================================================
