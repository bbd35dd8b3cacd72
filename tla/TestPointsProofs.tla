-------------------------- MODULE TestPointsProofs --------------------------
(***************************************************************************)
(* Proofs about TestPoints, for any number of clients, test points,        *)
(* interfaces, slots and users of a slot, and any lists and timeouts.      *)
(***************************************************************************)
EXTENDS TestPoints, FiniteSetTheorems, NumberLemmas

-----------------------------------------------------------------------------
(* The inductive invariant *)

\* A test point is in one slot of an index at most.
Single(x) == \A t \in TPs : \A r, s \in Matching(x, t) : r = s

\* The users of a slot that are this client's, without timeout.
Mine(users, c) ==
    {k \in DOMAIN users : users[k].clnt = c /\ users[k].timeout = 0}

\* An index and the history of uses agree.
Agree(x, h) ==
    \A c \in Holders, t \in TPs :
        /\ Matching(x, t) = {} => h[c][t] = 0
        /\ \A s \in Matching(x, t) :
            Cardinality(Mine(x[InterfaceOf[t]][s].users, c)) = h[c][t]

\* A test point that is held is in the index, also when the service is stuck.
HoldInv ==
    /\ Single(indx)
    /\ rpc # "stuck" => Agree(indx, held)
    /\ \A c \in Holders, t \in TPs :
        held[c][t] > 0 => Matching(indx, t) # {}

\* Promises are made for what is held, from the beginning of a second on.
PromiseInv ==
    /\ \A c \in Holders, t \in TPs :
        promise[c][t] # Never => held[c][t] > 0 /\ promise[c][t] % 2 = 0
    /\ rpc = "reply" /\ call.timeout = 0 =>
        \A t \in Range(call.list) \cap TPs : held[call.clnt][t] > 0

\* The update begins anew in the middle of a second, and a test point whose
\* promise is due by the end of this half second is in every copy it has taken
\* in it; unless the service is stuck, and the update waits.
UpdateInv ==
    /\ copied # NoCopy => now % 2 = 1
    /\ rpc # "stuck" /\ now % 2 # 1 => upd = 0
    /\ rpc # "stuck" =>
        \A c \in Holders, t \in TPs : promise[c][t] <= now + 1 =>
            /\ now % 2 = 1 /\ InterfaceOf[t] < upd =>
                t \in Range(published[InterfaceOf[t]])
            /\ copied # NoCopy /\ InterfaceOf[t] = upd => t \in Range(copied)

IndInv == TypeOK /\ HoldInv /\ PromiseInv /\ UpdateInv /\ ActivationKept

-----------------------------------------------------------------------------
(* The loops: each turn starts from the result of the one before *)

\* The recursion of SetTurns has a solution, so SetTurns is one.
LEMMA SetTurnsEquation ==
    ASSUME NEW x, NEW h, NEW list, Len(list) \in Nat, NEW use
    PROVE  LET g == SetTurns(x, h, list, use) IN
           /\ g[0] = [indx |-> x, status |-> 0, held |-> h]
           /\ \A k \in 1..Len(list) : g[k] = SetOne(g[k - 1], list[k], use)
<1> DEFINE base == [indx |-> x, status |-> 0, held |-> h]
           n == Len(list)
           Sol(f, m) == f = [k \in 0..m |-> IF k = 0 THEN base
                                            ELSE SetOne(f[k - 1], list[k], use)]
           Bad == {m \in 0..n : ~(\E f : Sol(f, m))}
<1>1. \E f : Sol(f, 0)
  <2> DEFINE f == [k \in 0..0 |-> base]
  <2>1. Sol(f, 0)
    <3>1. \A k \in 0..0 : k = 0
      OBVIOUS
    <3> HIDE DEF base
    <3> QED BY <3>1
  <2> QED BY <2>1
<1>2. ASSUME NEW m \in 0..n, m + 1 \in 0..n, NEW f, Sol(f, m)
      PROVE  \E g : Sol(g, m + 1)
  <2> DEFINE g == [k \in 0..(m + 1) |->
                     IF k \in 0..m THEN f[k] ELSE SetOne(f[m], list[m + 1], use)]
  <2>1. \A k \in 0..(m + 1) : k \in 0..m \/ k = m + 1
    OBVIOUS
  <2>2. m \in 0..m /\ m + 1 \notin 0..m /\ m + 1 # 0 /\ (m + 1) - 1 = m
    OBVIOUS
  <2>3. \A k \in 0..m : k # 0 => k - 1 \in 0..m /\ k - 1 \in 0..(m + 1)
    OBVIOUS
  <2>3a. \A k \in 0..m : k \in 0..(m + 1)
    OBVIOUS
  <2> HIDE DEF base, n
  <2>4. \A k \in 0..m : g[k] = f[k]
    BY <2>3a
  <2>5. \A k \in 0..m : f[k] = IF k = 0 THEN base ELSE SetOne(f[k - 1], list[k], use)
    BY <1>2, Zenon
  <2>6. ASSUME NEW k \in 0..m
        PROVE  g[k] = IF k = 0 THEN base ELSE SetOne(g[k - 1], list[k], use)
    <3> HIDE DEF g
    <3>1. k # 0 => g[k - 1] = f[k - 1]
      BY <2>3, <2>4
    <3>2. g[k] = f[k] /\ f[k] = IF k = 0 THEN base ELSE SetOne(f[k - 1], list[k], use)
      BY <2>4, <2>5
    <3> QED BY <3>1, <3>2, Zenon
  <2>7. g[m + 1] = SetOne(g[(m + 1) - 1], list[m + 1], use)
    <3>1. m + 1 \in 0..(m + 1)
      OBVIOUS
    <3>2. g[m + 1] = SetOne(f[m], list[m + 1], use)
      BY <2>2, <3>1, Zenon
    <3>3. g[m] = f[m]
      BY <2>2, <2>4, Zenon
    <3> HIDE DEF g
    <3> QED BY <2>2, <3>2, <3>3, Zenon
  <2>8. \A k \in 0..(m + 1) :
            g[k] = IF k = 0 THEN base ELSE SetOne(g[k - 1], list[k], use)
    <3> HIDE DEF g
    <3> QED BY <2>1, <2>2, <2>6, <2>7, Zenon
  <2>9. g = [k \in 0..(m + 1) |-> g[k]]
    OBVIOUS
  <2>10. Sol(g, m + 1)
    <3> HIDE DEF g
    <3> QED BY <2>8, <2>9, Zenon
  <2> HIDE DEF g
  <2> QED BY <2>10
<1>3. Bad = {}
  <2> HIDE DEF Sol
  <2> SUFFICES ASSUME Bad # {} PROVE FALSE
    OBVIOUS
  <2>0. Bad \in SUBSET Nat
    OBVIOUS
  <2>1. PICK b \in Bad : \A a \in Bad : b <= a
    <3> HIDE DEF Bad
    <3> QED BY <2>0, LeastElement
  <2>2. b \in 0..n /\ b # 0 /\ ~(\E f : Sol(f, b))
    BY <1>1, <2>1
  <2>3. b - 1 \in 0..n /\ (b - 1) + 1 = b /\ ~(b <= b - 1)
    BY <2>2
  <2>4. \E f : Sol(f, b - 1)
    BY <2>1, <2>3
  <2>5. \E f : Sol(f, (b - 1) + 1)
    BY <1>2, <2>2, <2>3, <2>4, Zenon
  <2> QED BY <2>2, <2>3, <2>5
<1>4. n \in 0..n
  OBVIOUS
<1>5. PICK f : Sol(f, n)
  BY <1>3, <1>4
<1> DEFINE g == SetTurns(x, h, list, use)
<1>6. g = [k \in 0..Len(list) |->
             IF k = 0 THEN [indx |-> x, status |-> 0, held |-> h]
             ELSE SetOne(g[k - 1], list[k], use)]
  BY <1>5, Zenon DEF SetTurns
<1> HIDE DEF g
<1>7. 0 \in 0..Len(list) /\ \A k \in 1..Len(list) : k \in 0..Len(list) /\ k # 0
  OBVIOUS
<1>8. /\ g[0] = base
      /\ \A k \in 1..Len(list) : g[k] = SetOne(g[k - 1], list[k], use)
  BY <1>6, <1>7, Zenon
<1> QED BY <1>8, Zenon DEF g

\* The recursion of ClearTurns has a solution, so ClearTurns is one.
LEMMA ClearTurnsEquation ==
    ASSUME NEW x, NEW h, NEW list, Len(list) \in Nat, NEW c
    PROVE  LET g == ClearTurns(x, h, list, c) IN
           /\ g[0] = [indx |-> x, held |-> h]
           /\ \A k \in 1..Len(list) :
                g[k] = [indx |-> ClearOne(g[k - 1].indx, list[k], c),
                        held |-> GiveBack(g[k - 1].held, list[k], c)]
<1> DEFINE Turn(acc, t) == [indx |-> ClearOne(acc.indx, t, c),
                            held |-> GiveBack(acc.held, t, c)]
<1> DEFINE base == [indx |-> x, held |-> h]
           n == Len(list)
           Sol(f, m) == f = [k \in 0..m |-> IF k = 0 THEN base
                                            ELSE Turn(f[k - 1], list[k])]
           Bad == {m \in 0..n : ~(\E f : Sol(f, m))}
<1>1. \E f : Sol(f, 0)
  <2> DEFINE f == [k \in 0..0 |-> base]
  <2>1. Sol(f, 0)
    <3>1. \A k \in 0..0 : k = 0
      OBVIOUS
    <3> HIDE DEF base
    <3> QED BY <3>1
  <2> QED BY <2>1
<1>2. ASSUME NEW m \in 0..n, m + 1 \in 0..n, NEW f, Sol(f, m)
      PROVE  \E g : Sol(g, m + 1)
  <2> DEFINE g == [k \in 0..(m + 1) |->
                     IF k \in 0..m THEN f[k] ELSE Turn(f[m], list[m + 1])]
  <2>1. \A k \in 0..(m + 1) : k \in 0..m \/ k = m + 1
    OBVIOUS
  <2>2. m \in 0..m /\ m + 1 \notin 0..m /\ m + 1 # 0 /\ (m + 1) - 1 = m
    OBVIOUS
  <2>3. \A k \in 0..m : k # 0 => k - 1 \in 0..m /\ k - 1 \in 0..(m + 1)
    OBVIOUS
  <2>3a. \A k \in 0..m : k \in 0..(m + 1)
    OBVIOUS
  <2> HIDE DEF base, n
  <2>4. \A k \in 0..m : g[k] = f[k]
    BY <2>3a
  <2>5. \A k \in 0..m : f[k] = IF k = 0 THEN base ELSE Turn(f[k - 1], list[k])
    BY <1>2, Zenon
  <2>6. ASSUME NEW k \in 0..m
        PROVE  g[k] = IF k = 0 THEN base ELSE Turn(g[k - 1], list[k])
    <3> HIDE DEF g
    <3>1. k # 0 => g[k - 1] = f[k - 1]
      BY <2>3, <2>4
    <3>2. g[k] = f[k] /\ f[k] = IF k = 0 THEN base ELSE Turn(f[k - 1], list[k])
      BY <2>4, <2>5
    <3> QED BY <3>1, <3>2, Zenon
  <2>7. g[m + 1] = Turn(g[(m + 1) - 1], list[m + 1])
    <3>1. m + 1 \in 0..(m + 1)
      OBVIOUS
    <3>2. g[m + 1] = Turn(f[m], list[m + 1])
      BY <2>2, <3>1, Zenon
    <3>3. g[m] = f[m]
      BY <2>2, <2>4, Zenon
    <3> HIDE DEF g
    <3> QED BY <2>2, <3>2, <3>3, Zenon
  <2>8. \A k \in 0..(m + 1) :
            g[k] = IF k = 0 THEN base ELSE Turn(g[k - 1], list[k])
    <3> HIDE DEF g
    <3> QED BY <2>1, <2>2, <2>6, <2>7, Zenon
  <2>9. g = [k \in 0..(m + 1) |-> g[k]]
    OBVIOUS
  <2>10. Sol(g, m + 1)
    <3> HIDE DEF g
    <3> QED BY <2>8, <2>9, Zenon
  <2> HIDE DEF g
  <2> QED BY <2>10
<1>3. Bad = {}
  <2> HIDE DEF Sol
  <2> SUFFICES ASSUME Bad # {} PROVE FALSE
    OBVIOUS
  <2>0. Bad \in SUBSET Nat
    OBVIOUS
  <2>1. PICK b \in Bad : \A a \in Bad : b <= a
    <3> HIDE DEF Bad
    <3> QED BY <2>0, LeastElement
  <2>2. b \in 0..n /\ b # 0 /\ ~(\E f : Sol(f, b))
    BY <1>1, <2>1
  <2>3. b - 1 \in 0..n /\ (b - 1) + 1 = b /\ ~(b <= b - 1)
    BY <2>2
  <2>4. \E f : Sol(f, b - 1)
    BY <2>1, <2>3
  <2>5. \E f : Sol(f, (b - 1) + 1)
    BY <1>2, <2>2, <2>3, <2>4, Zenon
  <2> QED BY <2>2, <2>3, <2>5
<1>4. n \in 0..n
  OBVIOUS
<1>5. PICK f : Sol(f, n)
  BY <1>3, <1>4
<1> DEFINE g == ClearTurns(x, h, list, c)
<1>6. g = [k \in 0..Len(list) |->
             IF k = 0 THEN [indx |-> x, held |-> h]
             ELSE Turn(g[k - 1], list[k])]
  BY <1>5, Zenon DEF ClearTurns
<1> HIDE DEF g
<1>7. 0 \in 0..Len(list) /\ \A k \in 1..Len(list) : k \in 0..Len(list) /\ k # 0
  OBVIOUS
<1>8. /\ g[0] = base
      /\ \A k \in 1..Len(list) : g[k] = Turn(g[k - 1], list[k])
  BY <1>6, <1>7, Zenon
<1> QED BY <1>8, Zenon DEF g

-----------------------------------------------------------------------------
(* The index *)

\* Test points have an interface, interfaces and slots are numbers.
LEMMA TpFacts ==
    /\ \A t \in TPs : t # NoTp /\ InterfaceOf[t] \in Interfaces
    /\ Interfaces \in SUBSET Nat
    /\ \A j \in Interfaces : Slots(j) \in SUBSET Nat /\ -1 \notin Slots(j)
    /\ \A x, t : t \in TPs =>
        Matching(x, t) \in SUBSET Slots(InterfaceOf[t])
          /\ Vacant(x, t) \in SUBSET Slots(InterfaceOf[t])
<1>1. \A t \in TPs : t # NoTp /\ InterfaceOf[t] \in Interfaces
  BY TpAssumption
<1>2. Interfaces \in SUBSET Nat
  <2>1. Cardinality(Interfaces) \in Nat
    BY TpAssumption, FS_CardinalityType
  <2>2. Interfaces = 0..(Cardinality(Interfaces) - 1)
    BY TpAssumption
  <2> HIDE DEF Interfaces
  <2>3. \A m \in Nat : 0..(m - 1) \in SUBSET Nat
    OBVIOUS
  <2> QED BY <2>1, <2>2, <2>3
<1>3. \A j \in Interfaces : Slots(j) \in SUBSET Nat /\ -1 \notin Slots(j)
  BY TpAssumption DEF Slots
<1>4. \A x, t : t \in TPs =>
        Matching(x, t) \in SUBSET Slots(InterfaceOf[t])
          /\ Vacant(x, t) \in SUBSET Slots(InterfaceOf[t])
  BY Zenon DEF Matching, Vacant
<1> QED BY <1>1, <1>2, <1>3, <1>4

\* Min is the least element.
LEMMA MinFacts ==
    ASSUME NEW S \in SUBSET Nat, S # {}
    PROVE  Min(S) \in S /\ \A i \in S : Min(S) <= i
<1>1. \E s \in S : \A t \in S : s <= t
  BY LeastElement
<1> QED BY <1>1 DEF Min

\* What an index looks like at one slot.
LEMMA IndexFacts ==
    ASSUME NEW x, IndexOK(x), NEW j \in Interfaces, NEW s \in Slots(j)
    PROVE  /\ x[j][s] \in Entry
           /\ x[j][s].id \in TPs \cup {NoTp} /\ x[j][s].users \in Seq(Use)
           /\ Len(x[j][s].users) \in Nat /\ Len(x[j][s].users) <= MaxUser
           /\ x[j][s].id = NoTp <=> x[j][s].users = <<>>
<1>1. /\ x[j] \in [Slots(j) -> Entry]
      /\ Len(x[j][s].users) <= MaxUser
      /\ x[j][s].id = NoTp <=> x[j][s].users = <<>>
  BY DEF IndexOK
<1>2. x[j][s] \in Entry
  BY <1>1
<1>3. x[j][s].id \in TPs \cup {NoTp} /\ x[j][s].users \in Seq(Use)
  BY <1>2 DEF Entry
<1>4. Len(x[j][s].users) \in Nat
  BY <1>3
<1> QED BY <1>1, <1>2, <1>3, <1>4

\* An entry that an index may have; the index with an entry replaced.
EntryOK(e) ==
    /\ e \in Entry /\ Len(e.users) <= MaxUser
    /\ e.id = NoTp <=> e.users = <<>>
Put(x, j, s, e) == [x EXCEPT ![j][s] = e]

\* One slot gets a new entry.
LEMMA PutFacts ==
    ASSUME NEW x, IndexOK(x), NEW j \in Interfaces, NEW s \in Slots(j),
           NEW e, EntryOK(e)
    PROVE  /\ IndexOK(Put(x, j, s, e))
           /\ Put(x, j, s, e)[j][s] = e
           /\ \A i \in Interfaces : \A r \in Slots(i) :
                i # j \/ r # s => Put(x, j, s, e)[i][r] = x[i][r]
<1> DEFINE y == Put(x, j, s, e)
<1>0. /\ e \in Entry /\ Len(e.users) <= MaxUser
      /\ e.id = NoTp <=> e.users = <<>>
  BY Zenon DEF EntryOK
<1>1. x \in [Interfaces -> Indices] /\ \A i \in Interfaces : x[i] \in [Slots(i) -> Entry]
  BY Zenon DEF IndexOK
<1>2. y = [x EXCEPT ![j] = [x[j] EXCEPT ![s] = e]]
  BY <1>1 DEF Put
<1> HIDE DEF y
<1> DEFINE z == [x[j] EXCEPT ![s] = e]
<1>3. z \in [Slots(j) -> Entry] /\ z[s] = e /\ \A r \in Slots(j) : r # s => z[r] = x[j][r]
  BY <1>0, <1>1
<1> HIDE DEF z
<1>4. z \in Indices
  BY <1>3, Zenon DEF Indices
<1>5. y \in [Interfaces -> Indices] /\ y[j] = z /\ \A i \in Interfaces : i # j => y[i] = x[i]
  <2>1. y = [x EXCEPT ![j] = z]
    BY <1>2 DEF z
  <2> QED BY <1>1, <1>4, <2>1
<1>6. \A i \in Interfaces : y[i] \in [Slots(i) -> Entry]
  BY <1>1, <1>3, <1>5, Zenon
<1>7. y[j][s] = e
  BY <1>3, <1>5
<1>8. ASSUME NEW i \in Interfaces, NEW r \in Slots(i), i # j \/ r # s
      PROVE  y[i][r] = x[i][r]
  BY <1>3, <1>5, <1>8
<1>9. ASSUME NEW i \in Interfaces, NEW r \in Slots(i)
      PROVE  /\ Len(y[i][r].users) <= MaxUser
             /\ y[i][r].id = NoTp <=> y[i][r].users = <<>>
  <2>1. CASE i = j /\ r = s
    BY <1>0, <1>7, <2>1, Zenon
  <2>2. CASE i # j \/ r # s
    <3>1. y[i][r] = x[i][r]
      BY <1>8, <2>2
    <3>2. Len(x[i][r].users) <= MaxUser
      BY IndexFacts
    <3>3. x[i][r].id = NoTp <=> x[i][r].users = <<>>
      BY IndexFacts, Zenon
    <3> QED BY <3>1, <3>2, <3>3, Zenon
  <2> QED BY <2>1, <2>2
<1>10. IndexOK(y)
  BY <1>5, <1>6, <1>9, Zenon DEF IndexOK
<1>11. \A i \in Interfaces : \A r \in Slots(i) : i # j \/ r # s => y[i][r] = x[i][r]
  BY <1>8
<1> QED BY <1>7, <1>10, <1>11 DEF y

\* The slot had the test point or none, and gets it or none.
LEMMA MatchPut ==
    ASSUME NEW x, NEW y, NEW t \in TPs, NEW s \in Slots(InterfaceOf[t]),
           x[InterfaceOf[t]][s].id \in {t, NoTp},
           y[InterfaceOf[t]][s].id \in {t, NoTp},
           \A i \in Interfaces : \A r \in Slots(i) :
                i # InterfaceOf[t] \/ r # s => y[i][r] = x[i][r]
    PROVE  /\ Matching(y, t) = IF y[InterfaceOf[t]][s].id = t
                               THEN Matching(x, t) \cup {s} ELSE Matching(x, t) \ {s}
           /\ \A u \in TPs \ {t} :
                /\ Matching(y, u) = Matching(x, u)
                /\ \A r \in Matching(x, u) :
                     y[InterfaceOf[u]][r] = x[InterfaceOf[u]][r]
<1> DEFINE j == InterfaceOf[t]
<1>1. j \in Interfaces
  BY TpFacts
<1>2. \A r \in Slots(j) : r # s => (r \in Matching(y, t) <=> r \in Matching(x, t))
  BY <1>1 DEF Matching
<1>3. s \in Matching(y, t) <=> y[j][s].id = t
  BY DEF Matching
<1>4. Matching(y, t) \in SUBSET Slots(j) /\ Matching(x, t) \in SUBSET Slots(j)
  BY TpFacts
<1>5. Matching(y, t) = IF y[j][s].id = t THEN Matching(x, t) \cup {s} ELSE Matching(x, t) \ {s}
  <2> HIDE DEF j
  <2>1. CASE y[j][s].id = t
    BY <1>2, <1>3, <1>4, <2>1
  <2>2. CASE y[j][s].id # t
    BY <1>2, <1>3, <1>4, <2>2
  <2> QED BY <2>1, <2>2
<1>6. ASSUME NEW u \in TPs \ {t}
      PROVE  /\ Matching(y, u) = Matching(x, u)
             /\ \A r \in Matching(x, u) :
                     y[InterfaceOf[u]][r] = x[InterfaceOf[u]][r]
  <2> DEFINE i == InterfaceOf[u]
  <2>1. i \in Interfaces /\ u # NoTp /\ u # t
    BY TpFacts
  <2>2. ASSUME NEW r \in Slots(i) PROVE y[i][r].id = u <=> x[i][r].id = u
    <3>1. CASE i = j /\ r = s
      BY <2>1, <3>1
    <3>2. CASE i # j \/ r # s
      BY <2>1, <3>2
    <3> QED BY <3>1, <3>2
  <2>3. Matching(y, u) = Matching(x, u)
    BY <2>2 DEF Matching
  <2>4. ASSUME NEW r \in Slots(i), x[i][r].id = u PROVE y[i][r] = x[i][r]
    <3>1. i # j \/ r # s
      BY <2>1, <2>4
    <3> QED BY <2>1, <3>1
  <2>5. \A r \in Matching(x, u) : r \in Slots(i) /\ x[i][r].id = u
    BY DEF Matching
  <2> QED BY <2>3, <2>4, <2>5
<1> QED BY <1>5, <1>6

\* If the slot is the only one of the test point, the index stays in order.
LEMMA PutSingle ==
    ASSUME NEW x, IndexOK(x), Single(x), NEW t \in TPs,
           NEW s \in Slots(InterfaceOf[t]), Matching(x, t) \subseteq {s},
           x[InterfaceOf[t]][s].id \in {t, NoTp},
           NEW e, EntryOK(e), e.id \in {t, NoTp}
    PROVE  LET y == Put(x, InterfaceOf[t], s, e) IN
           /\ IndexOK(y) /\ Single(y)
           /\ y[InterfaceOf[t]][s] = e
           /\ Matching(y, t) = IF e.id = t THEN {s} ELSE {}
           /\ \A u \in TPs \ {t} :
                /\ Matching(y, u) = Matching(x, u)
                /\ \A r \in Matching(x, u) :
                     y[InterfaceOf[u]][r] = x[InterfaceOf[u]][r]
<1> DEFINE j == InterfaceOf[t]
           y == Put(x, j, s, e)
<1>1. j \in Interfaces /\ t # NoTp
  BY TpFacts
<1>2. /\ IndexOK(y)
      /\ y[j][s] = e
      /\ \A i \in Interfaces : \A r \in Slots(i) : i # j \/ r # s => y[i][r] = x[i][r]
  BY <1>1, PutFacts
<1> HIDE DEF y
<1>3. y[j][s].id \in {t, NoTp}
  BY <1>2
<1>4. /\ Matching(y, t) = IF y[j][s].id = t THEN Matching(x, t) \cup {s}
                          ELSE Matching(x, t) \ {s}
      /\ \A u \in TPs \ {t} :
          /\ Matching(y, u) = Matching(x, u)
          /\ \A r \in Matching(x, u) :
               y[InterfaceOf[u]][r] = x[InterfaceOf[u]][r]
  <2>1. x[j][s].id \in {t, NoTp} /\ s \in Slots(j)
    OBVIOUS
  <2> QED BY <1>2, <1>3, <2>1, MatchPut
<1>5. Matching(y, t) = IF e.id = t THEN {s} ELSE {}
  BY <1>2, <1>4
<1>6. Single(y)
  BY <1>4, <1>5 DEF Single
<1> QED BY <1>2, <1>4, <1>5, <1>6, Zenon DEF y

\* If the entry has what the new history says, index and history agree.
LEMMA PutAgree ==
    ASSUME NEW x, IndexOK(x), Single(x), NEW t \in TPs,
           NEW s \in Slots(InterfaceOf[t]), Matching(x, t) \subseteq {s},
           x[InterfaceOf[t]][s].id \in {t, NoTp},
           NEW e, EntryOK(e), e.id \in {t, NoTp},
           NEW g, NEW h, Agree(x, g),
           \A c \in Holders : \A u \in TPs \ {t} : h[c][u] = g[c][u],
           \A c \in Holders : e.id = t => h[c][t] = Cardinality(Mine(e.users, c)),
           \A c \in Holders : e.id # t => h[c][t] = 0
    PROVE  Agree(Put(x, InterfaceOf[t], s, e), h)
<1> DEFINE y == Put(x, InterfaceOf[t], s, e)
<1>1. /\ y[InterfaceOf[t]][s] = e
      /\ Matching(y, t) = IF e.id = t THEN {s} ELSE {}
      /\ \A u \in TPs \ {t} :
            /\ Matching(y, u) = Matching(x, u)
            /\ \A r \in Matching(x, u) :
                 y[InterfaceOf[u]][r] = x[InterfaceOf[u]][r]
  BY PutSingle
<1> HIDE DEF y
<1>2. ASSUME NEW c \in Holders, NEW u \in TPs
      PROVE  /\ Matching(y, u) = {} => h[c][u] = 0
             /\ \A r \in Matching(y, u) :
                    Cardinality(Mine(y[InterfaceOf[u]][r].users, c)) = h[c][u]
  <2>1. CASE u = t /\ e.id = t
    <3>1. Matching(y, u) = {s} /\ h[c][u] = Cardinality(Mine(e.users, c))
      BY <1>1, <2>1
    <3>2. y[InterfaceOf[u]][s] = e
      BY <1>1, <2>1
    <3> QED BY <3>1, <3>2
  <2>2. CASE u = t /\ e.id # t
    BY <1>1, <2>2
  <2>3. CASE u # t
    <3>1. Matching(y, u) = Matching(x, u) /\ h[c][u] = g[c][u]
      BY <1>1, <2>3
    <3>2. \A r \in Matching(x, u) : y[InterfaceOf[u]][r] = x[InterfaceOf[u]][r]
      BY <1>1, <2>3
    <3>3. /\ Matching(x, u) = {} => g[c][u] = 0
          /\ \A r \in Matching(x, u) :
               Cardinality(Mine(x[InterfaceOf[u]][r].users, c)) = g[c][u]
      BY Zenon DEF Agree
    <3> QED BY <3>1, <3>2, <3>3
  <2> QED BY <2>1, <2>2, <2>3
<1>3. Agree(y, h)
  BY <1>2, Zenon DEF Agree
<1> QED BY <1>3 DEF y

-----------------------------------------------------------------------------
(* Counting the uses of a client *)

\* The users of a slot.
LEMMA UsersAre ==
    ASSUME NEW users \in Seq(Use)
    PROVE  /\ Len(users) \in Nat /\ DOMAIN users = 1..Len(users)
           /\ users \in [1..Len(users) -> Use]
           /\ \A k \in 1..Len(users) : users[k] \in Use
  OBVIOUS

\* A client's uses in a slot are some of the slot's users.
LEMMA MineFinite ==
    ASSUME NEW users \in Seq(Use), NEW c
    PROVE  /\ Mine(users, c) \in SUBSET (1..Len(users))
           /\ IsFiniteSet(Mine(users, c)) /\ Cardinality(Mine(users, c)) \in Nat
           /\ Cardinality(Mine(users, c)) <= Len(users)
<1>1. Len(users) \in Nat /\ DOMAIN users = 1..Len(users)
  BY UsersAre
<1>2. Mine(users, c) \in SUBSET (1..Len(users))
  BY <1>1 DEF Mine
<1>3. \A m \in Nat : IsFiniteSet(1..m) /\ Cardinality(1..m) = m
  BY FS_Interval
<1>4. IsFiniteSet(1..Len(users)) /\ Cardinality(1..Len(users)) = Len(users)
  BY <1>1, <1>3
<1> QED BY <1>1, <1>2, <1>4, FS_Subset, FS_CardinalityType

\* Does this use count for the client?
Counts(use, c) == use.clnt = c /\ use.timeout = 0

\* A user is appended: it counts for its client, if it has no timeout.
LEMMA MineAppend ==
    ASSUME NEW users \in Seq(Use), NEW use \in Use, NEW c
    PROVE  /\ Counts(use, c) =>
                Cardinality(Mine(Append(users, use), c)) = Cardinality(Mine(users, c)) + 1
           /\ ~Counts(use, c) =>
                Cardinality(Mine(Append(users, use), c)) = Cardinality(Mine(users, c))
<1> DEFINE n == Len(users)
           new == Append(users, use)
<1>1. n \in Nat /\ DOMAIN users = 1..n
  BY UsersAre
<1>2. DOMAIN new = 1..(n + 1) /\ new[n + 1] = use /\ \A k \in 1..n : new[k] = users[k]
  BY <1>1
<1> HIDE DEF n, new
<1>3. /\ \A k \in 1..(n + 1) : k \in 1..n \/ k = n + 1
      /\ \A k \in 1..n : k \in 1..(n + 1)
      /\ n + 1 \in 1..(n + 1) /\ n + 1 \notin 1..n
  BY <1>1
<1>4. \A k \in 1..n : k \in Mine(new, c) <=> k \in Mine(users, c)
  BY <1>1, <1>2, <1>3 DEF Mine
<1>5. n + 1 \in Mine(new, c) <=> Counts(use, c)
  BY <1>2, <1>3, Zenon DEF Mine, Counts
<1>6. \A k \in Mine(new, c) : k \in 1..n \/ k = n + 1
  BY <1>2, <1>3, Zenon DEF Mine
<1>7. \A k \in Mine(users, c) : k \in 1..n /\ k # n + 1
  BY <1>1, <1>3, Zenon DEF Mine
<1>8. Counts(use, c) => Mine(new, c) = Mine(users, c) \cup {n + 1}
  BY <1>4, <1>5, <1>6, <1>7, Zenon
<1>9. ~Counts(use, c) => Mine(new, c) = Mine(users, c)
  BY <1>4, <1>5, <1>6, <1>7, Zenon
<1>10. IsFiniteSet(Mine(users, c))
  BY MineFinite
<1>11. n + 1 \notin Mine(users, c)
  BY <1>7
<1>12. Cardinality(Mine(users, c) \cup {n + 1}) = Cardinality(Mine(users, c)) + 1
  BY <1>10, <1>11, FS_AddElement
<1>13. Counts(use, c) => Cardinality(Mine(new, c)) = Cardinality(Mine(users, c)) + 1
  BY <1>8, <1>12
<1>14. ~Counts(use, c) => Cardinality(Mine(new, c)) = Cardinality(Mine(users, c))
  BY <1>9
<1> QED BY <1>13, <1>14 DEF new

\* The first user of a slot.
LEMMA MineOne ==
    ASSUME NEW use \in Use, NEW c
    PROVE  /\ Counts(use, c) => Cardinality(Mine(<<use>>, c)) = 1
           /\ ~Counts(use, c) => Cardinality(Mine(<<use>>, c)) = 0
<1>1. Counts(use, c) => Mine(<<use>>, c) = {1}
  BY DEF Mine, Counts
<1>2. ~Counts(use, c) => Mine(<<use>>, c) = {}
  BY DEF Mine, Counts
<1> QED BY <1>1, <1>2, FS_Singleton, FS_EmptySet

\* A sequence that keeps some places of another, in any order, keeps the
\* client's uses at those places.
LEMMA MineThinned ==
    ASSUME NEW old \in Seq(Use), NEW new \in Seq(Use), NEW K \in SUBSET DOMAIN old,
           NEW f \in Bijection(DOMAIN new, K), \A i \in DOMAIN new : new[i] = old[f[i]],
           NEW c
    PROVE  Cardinality(Mine(new, c)) = Cardinality(Mine(old, c) \cap K)
<1> DEFINE S == Mine(new, c)
           T == Mine(old, c) \cap K
           g == [i \in S |-> f[i]]
<1>1. /\ f \in [DOMAIN new -> K]
      /\ \A i, j \in DOMAIN new : f[i] = f[j] => i = j
      /\ \A k \in K : \E i \in DOMAIN new : f[i] = k
  BY DEF Bijection, Injection, Surjection, IsInjective
<1>2. S \in SUBSET DOMAIN new /\ \A i \in DOMAIN new : i \in S <=> f[i] \in T
  BY <1>1, Zenon DEF Mine
<1>3. \A k \in T : \E i \in S : f[i] = k
  BY <1>1, <1>2
<1> HIDE DEF S, T
<1>4. g \in [S -> T]
  BY <1>2
<1>5. g \in Bijection(S, T)
  BY <1>1, <1>2, <1>3, <1>4 DEF Bijection, Injection, Surjection, IsInjective
<1>6. IsFiniteSet(S)
  BY MineFinite DEF S
<1>7. ExistsBijection(S, T)
  BY <1>5 DEF ExistsBijection
<1>8. Cardinality(T) = Cardinality(S)
  BY <1>6, <1>7, FS_Bijection
<1> QED BY <1>8 DEF S, T

\* The places after the removed one move down.
LEMMA RemoveAtFacts ==
    ASSUME NEW S, NEW s \in Seq(S), NEW k \in 1..Len(s)
    PROVE  /\ RemoveAt(s, k) \in Seq(S) /\ Len(RemoveAt(s, k)) = Len(s) - 1
           /\ \A i \in 1..(Len(s) - 1) :
                RemoveAt(s, k)[i] = IF i < k THEN s[i] ELSE s[i + 1]
<1>1. SubSeq(s, 1, k - 1) \in Seq(S) /\ Len(SubSeq(s, 1, k - 1)) = k - 1
      /\ \A i \in 1..(k - 1) : SubSeq(s, 1, k - 1)[i] = s[i]
  OBVIOUS
<1>2. SubSeq(s, k + 1, Len(s)) \in Seq(S) /\ Len(SubSeq(s, k + 1, Len(s))) = Len(s) - k
      /\ \A i \in 1..(Len(s) - k) : SubSeq(s, k + 1, Len(s))[i] = s[k + i]
  OBVIOUS
<1> DEFINE a == SubSeq(s, 1, k - 1)
           b == SubSeq(s, k + 1, Len(s))
<1>3. RemoveAt(s, k) = a \o b
  BY DEF RemoveAt
<1>4. Len(s) \in Nat
  OBVIOUS
<1> HIDE DEF a, b
<1>5. a \o b \in Seq(S) /\ Len(a \o b) = Len(s) - 1
  <2>1. a \in Seq(S) /\ b \in Seq(S) /\ Len(a) = k - 1 /\ Len(b) = Len(s) - k
    BY <1>1, <1>2 DEF a, b
  <2>2. a \o b \in Seq(S) /\ Len(a \o b) = Len(a) + Len(b)
    BY <2>1
  <2> QED BY <1>4, <2>1, <2>2
<1>6. ASSUME NEW i \in 1..(Len(s) - 1)
      PROVE  (a \o b)[i] = IF i < k THEN s[i] ELSE s[i + 1]
  <2>0. /\ a \in Seq(S) /\ Len(a) = k - 1 /\ \A m \in 1..(k - 1) : a[m] = s[m]
        /\ b \in Seq(S) /\ Len(b) = Len(s) - k /\ \A m \in 1..(Len(s) - k) : b[m] = s[k + m]
    BY <1>1, <1>2 DEF a, b
  <2>1. CASE i < k
    <3>1. i \in 1..(k - 1)
      BY <1>4, <2>1
    <3>2. (a \o b)[i] = a[i]
      BY <1>4, <2>0, <3>1
    <3> QED BY <2>0, <2>1, <3>1, <3>2
  <2>2. CASE ~(i < k)
    <3>1. i - (k - 1) \in 1..(Len(s) - k) /\ k + (i - (k - 1)) = i + 1
      BY <1>4, <2>2
    <3>2. (a \o b)[i] = b[i - (k - 1)]
      BY <1>4, <2>0, <2>2, <3>1
    <3> QED BY <2>0, <2>2, <3>1, <3>2
  <2> QED BY <2>1, <2>2
<1> QED BY <1>3, <1>5, <1>6

\* A user is removed.
LEMMA MineRemoved ==
    ASSUME NEW users \in Seq(Use), NEW k \in 1..Len(users), NEW c
    PROVE  /\ k \in Mine(users, c) =>
                Cardinality(Mine(RemoveAt(users, k), c)) = Cardinality(Mine(users, c)) - 1
           /\ k \notin Mine(users, c) =>
                Cardinality(Mine(RemoveAt(users, k), c)) = Cardinality(Mine(users, c))
<1> DEFINE n == Len(users)
           new == RemoveAt(users, k)
           K == (1..n) \ {k}
           f == [i \in 1..(n - 1) |-> IF i < k THEN i ELSE i + 1]
<1>1. n \in Nat /\ DOMAIN users = 1..n
  BY UsersAre
<1>2. new \in Seq(Use) /\ Len(new) = n - 1
      /\ \A i \in 1..(n - 1) : new[i] = IF i < k THEN users[i] ELSE users[i + 1]
  BY RemoveAtFacts
<1> HIDE DEF new
<1>3. DOMAIN new = 1..(n - 1)
  BY <1>2
<1>4. f \in Bijection(1..(n - 1), K)
  <2>1. \A i \in 1..(n - 1) : (IF i < k THEN i ELSE i + 1) \in K
    BY <1>1
  <2>2. \A i, j \in 1..(n - 1) : f[i] = f[j] => i = j
    BY <1>1
  <2>3. ASSUME NEW i \in K PROVE \E j \in 1..(n - 1) : f[j] = i
    <3>1. CASE i < k
      <4>1. i \in 1..(n - 1) /\ f[i] = i
        BY <1>1, <3>1
      <4> QED BY <4>1
    <3>2. CASE i > k
      <4>1. i - 1 \in 1..(n - 1) /\ f[i - 1] = i
        BY <1>1, <3>2
      <4> QED BY <4>1
    <3> QED BY <1>1, <3>1, <3>2
  <2>4. f \in [1..(n - 1) -> K]
    BY <2>1
  <2> QED BY <2>2, <2>3, <2>4 DEF Bijection, Injection, Surjection, IsInjective
<1>5. \A i \in 1..(n - 1) : new[i] = users[f[i]]
  BY <1>2
<1>6. K \in SUBSET DOMAIN users
  BY <1>1
<1> HIDE DEF f, K
<1>7. Cardinality(Mine(new, c)) = Cardinality(Mine(users, c) \cap K)
  <2>1. f \in Bijection(DOMAIN new, K) /\ \A i \in DOMAIN new : new[i] = users[f[i]]
    BY <1>3, <1>4, <1>5
  <2>2. new \in Seq(Use)
    BY <1>2
  <2> QED BY <1>6, <2>1, <2>2, MineThinned
<1>8. Mine(users, c) \cap K = Mine(users, c) \ {k}
  BY MineFinite DEF K
<1>9. IsFiniteSet(Mine(users, c))
  BY MineFinite
<1> QED BY <1>7, <1>8, <1>9, FS_RemoveElement DEF new

-----------------------------------------------------------------------------
(* Setting test points *)

Histories == [Holders -> [TPs -> Nat]]

\* Granting a use changes one count of one client.
LEMMA GrantFacts ==
    ASSUME NEW h \in Histories, NEW t \in TPs, NEW use \in Use
    PROVE  /\ Grant(h, t, use) \in Histories
           /\ \A c \in Holders : \A u \in TPs \ {t} : Grant(h, t, use)[c][u] = h[c][u]
           /\ \A c \in Holders : Counts(use, c) => Grant(h, t, use)[c][t] = h[c][t] + 1
           /\ \A c \in Holders : ~Counts(use, c) => Grant(h, t, use)[c][t] = h[c][t]
<1>1. use.clnt \in Holders
  BY DEF Use
<1>2. CASE use.timeout = 0
  <2> DEFINE c == use.clnt
             row == [h[c] EXCEPT ![t] = h[c][t] + 1]
  <2>1. Grant(h, t, use) = [h EXCEPT ![c] = row]
    BY <1>2 DEF Grant, Histories
  <2>2. h[c] \in [TPs -> Nat]
    BY <1>1 DEF Histories
  <2>3. row \in [TPs -> Nat] /\ row[t] = h[c][t] + 1 /\ \A u \in TPs \ {t} : row[u] = h[c][u]
    BY <2>2
  <2> HIDE DEF row
  <2>4. Grant(h, t, use) \in Histories
    BY <2>1, <2>3 DEF Histories
  <2>5. Grant(h, t, use)[c] = row /\ \A d \in Holders : d # c => Grant(h, t, use)[d] = h[d]
    BY <1>1, <2>1 DEF Histories
  <2>6. \A d \in Holders : Counts(use, d) <=> d = c
    BY <1>2 DEF Counts
  <2> HIDE DEF c
  <2> QED BY <2>3, <2>4, <2>5, <2>6
<1>3. CASE use.timeout # 0
  <2>1. Grant(h, t, use) = h
    BY <1>3 DEF Grant
  <2>2. \A c \in Holders : ~Counts(use, c)
    BY <1>3 DEF Counts
  <2> QED BY <2>1, <2>2
<1> QED BY <1>2, <1>3

\* The slot that the search of requesttp_1_svc finds.
LEMMA SlotForFacts ==
    ASSUME NEW x, IndexOK(x), Single(x), NEW t \in TPs, SlotFor(x, t) # -1
    PROVE  LET s == SlotFor(x, t)
               e == x[InterfaceOf[t]][s]
           IN  /\ s \in Slots(InterfaceOf[t])
               /\ Matching(x, t) \subseteq {s}
               /\ e.id = t => Len(e.users) < MaxUser /\ s \in Matching(x, t)
               /\ e.id # t => e.id = NoTp /\ Matching(x, t) = {}
<1> DEFINE j == InterfaceOf[t]
<1>1. j \in Interfaces /\ t # NoTp /\ Slots(j) \in SUBSET Nat
      /\ Matching(x, t) \in SUBSET Slots(j) /\ Vacant(x, t) \in SUBSET Slots(j)
  BY TpFacts, Zenon
<1>2. CASE Matching(x, t) # {}
  <2> DEFINE s == Min(Matching(x, t))
  <2>1. s \in Matching(x, t)
    BY <1>1, <1>2, MinFacts
  <2>2. SlotFor(x, t) = IF Len(x[j][s].users) < MaxUser THEN s ELSE -1
    BY <1>2 DEF SlotFor
  <2>3. SlotFor(x, t) = s /\ Len(x[j][s].users) < MaxUser
    BY <2>2
  <2>4. x[j][s].id = t /\ s \in Slots(j)
    BY <2>1 DEF Matching
  <2>5. \A r \in Matching(x, t) : r = s
    BY <2>1 DEF Single
  <2> HIDE DEF s
  <2> QED BY <2>1, <2>3, <2>4, <2>5
<1>3. CASE Matching(x, t) = {}
  <2>1. Vacant(x, t) # {} /\ SlotFor(x, t) = Min(Vacant(x, t))
    BY <1>3 DEF SlotFor
  <2>2. SlotFor(x, t) \in Vacant(x, t)
    BY <1>1, <2>1, MinFacts
  <2>3. SlotFor(x, t) \in Slots(j) /\ x[j][SlotFor(x, t)].id = NoTp
    BY <2>2 DEF Vacant
  <2> QED BY <1>1, <1>3, <2>3
<1> QED BY <1>2, <1>3

\* The entry after a use was added.
LEMMA AddedFacts ==
    ASSUME NEW x, IndexOK(x), Single(x), NEW t \in TPs, SlotFor(x, t) # -1,
           NEW use \in Use
    PROVE  LET s == SlotFor(x, t)
               e == x[InterfaceOf[t]][s]
           IN  /\ EntryOK(Added(e, t, use)) /\ Added(e, t, use).id = t
               /\ e.id = t => Added(e, t, use).users = Append(e.users, use)
               /\ e.id # t => Added(e, t, use).users = <<use>>
<1> DEFINE j == InterfaceOf[t]
           s == SlotFor(x, t)
           e == x[j][s]
           a == Added(e, t, use)
<1>1. s \in Slots(j) /\ (e.id = t => Len(e.users) < MaxUser)
  BY SlotForFacts
<1>2. e \in Entry /\ Len(e.users) \in Nat /\ e.users \in Seq(Use)
  BY <1>1, TpFacts, IndexFacts
<1>3. t # NoTp /\ MaxUser \in Nat \ {0}
  BY TpFacts, TpAssumption
<1> HIDE DEF j, s, e
<1>4. CASE e.id = t
  <2>1. a = [e EXCEPT !.users = Append(e.users, use)]
    BY <1>4 DEF Added
  <2>2. Append(e.users, use) \in Seq(Use) /\ Len(Append(e.users, use)) = Len(e.users) + 1
        /\ Append(e.users, use) # <<>>
    BY <1>2
  <2>3. a \in Entry /\ a.id = t /\ a.users = Append(e.users, use)
    BY <1>2, <1>4, <2>1, <2>2 DEF Entry
  <2>4. Len(a.users) <= MaxUser
    BY <1>1, <1>2, <1>3, <1>4, <2>2, <2>3
  <2>5. a.id # NoTp /\ a.users # <<>>
    BY <1>3, <2>2, <2>3
  <2>6. EntryOK(a)
    BY <2>3, <2>4, <2>5, Zenon DEF EntryOK
  <2> QED BY <1>4, <2>3, <2>6, Zenon DEF e, j, s
<1>5. CASE e.id # t
  <2>1. a = [id |-> t, users |-> <<use>>]
    BY <1>5 DEF Added
  <2>2. <<use>> \in Seq(Use) /\ Len(<<use>>) = 1 /\ <<use>> # <<>>
    OBVIOUS
  <2>3. a \in Entry /\ a.id = t /\ a.users = <<use>>
    BY <2>1, <2>2 DEF Entry
  <2>4. Len(a.users) <= MaxUser
    BY <1>3, <2>2, <2>3
  <2>5. a.id # NoTp /\ a.users # <<>>
    BY <1>3, <2>2, <2>3
  <2>6. EntryOK(a)
    BY <2>3, <2>4, <2>5, Zenon DEF EntryOK
  <2> QED BY <1>5, <2>3, <2>6, Zenon DEF e, j, s
<1> QED BY <1>4, <1>5

\* What holds between the turns of the loop that sets test points.
SetInv(x, h, list, use, acc, k) ==
    /\ acc = [indx |-> acc.indx, status |-> acc.status, held |-> acc.held]
    /\ acc.status \in {0, -1} /\ acc.held \in Histories
    /\ IndexOK(acc.indx) /\ Single(acc.indx) /\ Agree(acc.indx, acc.held)
    /\ \A t \in TPs : Matching(x, t) # {} => Matching(acc.indx, t) # {}
    /\ \A c \in Holders : \A t \in TPs : h[c][t] <= acc.held[c][t]
    /\ acc.status = 0 /\ use.timeout = 0 =>
        \A i \in 1..k : list[i] \in TPs => acc.held[use.clnt][list[i]] > 0

\* One test point is set: index and history stay in order.
LEMMA SetOneEffect ==
    ASSUME NEW x, IndexOK(x), Single(x), NEW h \in Histories, Agree(x, h),
           NEW t \in TPs, SlotFor(x, t) # -1, NEW use \in Use
    PROVE  LET j == InterfaceOf[t]
               s == SlotFor(x, t)
               y == Put(x, j, s, Added(x[j][s], t, use))
               g == Grant(h, t, use)
           IN  /\ IndexOK(y) /\ Single(y) /\ Agree(y, g)
               /\ Matching(y, t) # {}
               /\ \A u \in TPs \ {t} : Matching(y, u) = Matching(x, u)
<1> DEFINE j == InterfaceOf[t]
           s == SlotFor(x, t)
           e == x[j][s]
           a == Added(e, t, use)
           y == Put(x, j, s, a)
           g == Grant(h, t, use)
<1>1. /\ s \in Slots(j) /\ Matching(x, t) \subseteq {s} /\ e.id \in {t, NoTp}
      /\ e.id = t => s \in Matching(x, t)
      /\ e.id # t => Matching(x, t) = {}
  BY SlotForFacts
<1>2. /\ EntryOK(a) /\ a.id = t
      /\ e.id = t => a.users = Append(e.users, use)
      /\ e.id # t => a.users = <<use>>
  BY AddedFacts
<1>3. e.users \in Seq(Use)
  BY <1>1, TpFacts, IndexFacts
<1>4. /\ \A c \in Holders : \A u \in TPs \ {t} : g[c][u] = h[c][u]
      /\ \A c \in Holders : Counts(use, c) => g[c][t] = h[c][t] + 1
      /\ \A c \in Holders : ~Counts(use, c) => g[c][t] = h[c][t]
  BY GrantFacts
<1>5. ASSUME NEW c \in Holders PROVE g[c][t] = Cardinality(Mine(a.users, c))
  <2> HIDE DEF g, a
  <2>1. CASE e.id = t
    <3>1. Cardinality(Mine(e.users, c)) = h[c][t]
      BY <1>1, <2>1, Zenon DEF Agree
    <3>2. /\ Counts(use, c) => Cardinality(Mine(a.users, c)) = h[c][t] + 1
          /\ ~Counts(use, c) => Cardinality(Mine(a.users, c)) = h[c][t]
      <4> HIDE DEF e
      <4> QED BY <1>2, <1>3, <2>1, <3>1, MineAppend
    <3> QED BY <1>4, <3>2
  <2>2. CASE e.id # t
    <3>1. h[c][t] = 0
      BY <1>1, <2>2, Zenon DEF Agree
    <3>2. /\ Counts(use, c) => Cardinality(Mine(a.users, c)) = 1
          /\ ~Counts(use, c) => Cardinality(Mine(a.users, c)) = 0
      BY <1>2, <2>2, MineOne
    <3> QED BY <1>4, <3>1, <3>2
  <2> QED BY <2>1, <2>2
<1> HIDE DEF a, g
<1>6. /\ IndexOK(y) /\ Single(y)
      /\ Matching(y, t) = {s}
      /\ \A u \in TPs \ {t} : Matching(y, u) = Matching(x, u)
  <2>1. a.id \in {t, NoTp}
    BY <1>2
  <2>2. /\ IndexOK(y) /\ Single(y)
        /\ Matching(y, t) = IF a.id = t THEN {s} ELSE {}
        /\ \A u \in TPs \ {t} : Matching(y, u) = Matching(x, u)
    <3>1. s \in Slots(j) /\ Matching(x, t) \subseteq {s} /\ x[j][s].id \in {t, NoTp}
          /\ EntryOK(a) /\ a.id \in {t, NoTp}
      BY <1>1, <1>2, <2>1
    <3> HIDE DEF s, e
    <3>2. /\ IndexOK(y) /\ Single(y)
          /\ y[j][s] = a
          /\ Matching(y, t) = IF a.id = t THEN {s} ELSE {}
          /\ \A u \in TPs \ {t} :
                /\ Matching(y, u) = Matching(x, u)
                /\ \A r \in Matching(x, u) :
                     y[InterfaceOf[u]][r] = x[InterfaceOf[u]][r]
      BY <3>1, PutSingle
    <3> QED BY <3>2
  <2> QED BY <1>2, <2>2
<1>7. Agree(y, g)
  <2>1. a.id \in {t, NoTp} /\ \A c \in Holders : a.id # t => g[c][t] = 0
    BY <1>2
  <2>2. \A c \in Holders : a.id = t => g[c][t] = Cardinality(Mine(a.users, c))
    BY <1>5
  <2> HIDE DEF s
  <2> QED BY <1>1, <1>2, <1>4, <2>1, <2>2, PutAgree
<1>8. Matching(y, t) # {}
  BY <1>6
<1> QED BY <1>6, <1>7, <1>8 DEF a, g

\* A turn that finds a slot, as a record.
LEMMA SetOneForm ==
    ASSUME NEW x, NEW status, ~(status < 0), NEW h, NEW t \in TPs, NEW use,
           SlotFor(x, t) # -1
    PROVE  LET j == InterfaceOf[t]
               s == SlotFor(x, t)
           IN  SetOne([indx |-> x, status |-> status, held |-> h], t, use)
                 = [indx |-> Put(x, j, s, Added(x[j][s], t, use)),
                    status |-> status, held |-> Grant(h, t, use)]
<1> DEFINE j == InterfaceOf[t]
           s == SlotFor(x, t)
           acc == [indx |-> x, status |-> status, held |-> h]
<1>1. SetOne(acc, t, use) = [acc EXCEPT !.indx[j][s] = Added(@, t, use),
                                        !.held = Grant(@, t, use)]
  BY Zenon DEF SetOne
<1> HIDE DEF j, s
<1>2. SetOne(acc, t, use) = [indx |-> Put(x, j, s, Added(x[j][s], t, use)),
                             status |-> status, held |-> Grant(h, t, use)]
  BY <1>1 DEF Put
<1> QED BY <1>2 DEF j, s

\* A turn, whether it sets the test point, passes over it or fails.
LEMMA SetOneKeeps ==
    ASSUME NEW x, NEW h \in Histories, NEW list, Len(list) \in Nat, NEW use \in Use,
           NEW acc, NEW k \in 1..Len(list), SetInv(x, h, list, use, acc, k - 1)
    PROVE  SetInv(x, h, list, use, SetOne(acc, list[k], use), k)
<1> DEFINE t == list[k]
           new == SetOne(acc, t, use)
<1>1. /\ acc = [indx |-> acc.indx, status |-> acc.status, held |-> acc.held]
      /\ acc.status \in {0, -1} /\ acc.held \in Histories
      /\ IndexOK(acc.indx) /\ Single(acc.indx) /\ Agree(acc.indx, acc.held)
      /\ \A u \in TPs : Matching(x, u) # {} => Matching(acc.indx, u) # {}
      /\ \A c \in Holders : \A u \in TPs : h[c][u] <= acc.held[c][u]
  BY DEF SetInv
<1>2. acc.status = 0 /\ use.timeout = 0 =>
        \A i \in 1..(k - 1) : list[i] \in TPs => acc.held[use.clnt][list[i]] > 0
  BY DEF SetInv
<1>3. \A i \in 1..k : i \in 1..(k - 1) \/ i = k
  OBVIOUS
<1>4. CASE acc.status < 0
  <2>1. new = acc
    BY <1>4 DEF SetOne
  <2>2. acc.status # 0
    BY <1>1, <1>4
  <2> QED BY <1>1, <2>1, <2>2 DEF SetInv
<1>5. CASE ~(acc.status < 0) /\ t \notin TPs
  <2>1. new = acc
    BY <1>5 DEF SetOne
  <2>2. acc.status = 0 /\ use.timeout = 0 =>
          \A i \in 1..k : list[i] \in TPs => acc.held[use.clnt][list[i]] > 0
    BY <1>2, <1>3, <1>5
  <2> QED BY <1>1, <2>1, <2>2 DEF SetInv
<1>6. CASE ~(acc.status < 0) /\ t \in TPs /\ SlotFor(acc.indx, t) = -1
  <2>1. new = [acc EXCEPT !.status = -1]
    BY <1>6 DEF SetOne
  <2>2. new = [indx |-> acc.indx, status |-> -1, held |-> acc.held]
    BY <1>1, <2>1
  <2>3. new.indx = acc.indx /\ new.status = -1 /\ new.held = acc.held
        /\ new = [indx |-> new.indx, status |-> new.status, held |-> new.held]
    BY <2>2
  <2> HIDE DEF new
  <2>4. new.status # 0 /\ new.status \in {0, -1}
    BY <2>3
  <2>5. SetInv(x, h, list, use, new, k)
    BY <1>1, <2>3, <2>4 DEF SetInv
  <2> QED BY <2>5 DEF new
<1>7. CASE ~(acc.status < 0) /\ t \in TPs /\ SlotFor(acc.indx, t) # -1
  <2> DEFINE j == InterfaceOf[t]
             s == SlotFor(acc.indx, t)
             y == Put(acc.indx, j, s, Added(acc.indx[j][s], t, use))
             g == Grant(acc.held, t, use)
  <2>1. new = [indx |-> y, status |-> acc.status, held |-> g]
    <3>1. j \in Interfaces /\ s \in Slots(j) /\ acc.indx \in [Interfaces -> Indices]
          /\ acc.indx[j] \in [Slots(j) -> Entry]
      <4>1. s \in Slots(j) /\ j \in Interfaces
        BY <1>1, <1>7, SlotForFacts, TpFacts
      <4> HIDE DEF s, j
      <4> QED BY <1>1, <4>1 DEF IndexOK
    <3>2. SetOne([indx |-> acc.indx, status |-> acc.status, held |-> acc.held], t, use)
            = [indx |-> y, status |-> acc.status, held |-> g]
      BY <1>7, <3>1, SetOneForm
    <3> QED BY <1>1, <3>2
  <2>2. /\ IndexOK(y) /\ Single(y) /\ Agree(y, g)
        /\ Matching(y, t) # {}
        /\ \A u \in TPs \ {t} : Matching(y, u) = Matching(acc.indx, u)
    BY <1>1, <1>7, SetOneEffect
  <2>3. /\ g \in Histories
        /\ \A c \in Holders : \A u \in TPs \ {t} : g[c][u] = acc.held[c][u]
        /\ \A c \in Holders : Counts(use, c) => g[c][t] = acc.held[c][t] + 1
        /\ \A c \in Holders : ~Counts(use, c) => g[c][t] = acc.held[c][t]
    BY <1>1, <1>7, GrantFacts
  <2> HIDE DEF y, g, t, new
  <2>4. ASSUME NEW c \in Holders, NEW u \in TPs
        PROVE  acc.held[c][u] \in Nat /\ h[c][u] \in Nat /\ acc.held[c][u] <= g[c][u]
               /\ h[c][u] <= g[c][u]
    <3>1. acc.held[c][u] \in Nat /\ h[c][u] \in Nat /\ h[c][u] <= acc.held[c][u]
      BY <1>1 DEF Histories
    <3> QED BY <1>7, <2>3, <3>1
  <2>5. \A u \in TPs : Matching(x, u) # {} => Matching(y, u) # {}
    BY <1>1, <2>2
  <2>6. ASSUME acc.status = 0, use.timeout = 0, NEW i \in 1..k, list[i] \in TPs
        PROVE  g[use.clnt][list[i]] > 0
    <3>1. use.clnt \in Holders /\ Counts(use, use.clnt)
      BY <2>6 DEF Use, Counts
    <3>2. CASE i = k
      <4>1. g[use.clnt][t] = acc.held[use.clnt][t] + 1 /\ acc.held[use.clnt][t] \in Nat
        BY <1>7, <2>3, <2>4, <3>1
      <4> QED BY <3>2, <4>1 DEF t
    <3>3. CASE i \in 1..(k - 1)
      <4>1. acc.held[use.clnt][list[i]] > 0
        BY <1>2, <2>6, <3>3
      <4>2. /\ acc.held[use.clnt][list[i]] \in Nat
            /\ acc.held[use.clnt][list[i]] <= g[use.clnt][list[i]]
        BY <2>4, <2>6, <3>1
      <4>3. g[use.clnt][list[i]] \in Nat
        BY <2>3, <2>6, <3>1 DEF Histories
      <4> QED BY <4>1, <4>2, <4>3
    <3> QED BY <1>3, <3>2, <3>3
  <2>7. new.indx = y /\ new.status = acc.status /\ new.held = g
        /\ new = [indx |-> new.indx, status |-> new.status, held |-> new.held]
    BY <2>1
  <2>8. SetInv(x, h, list, use, new, k)
    BY <1>1, <2>2, <2>3, <2>4, <2>5, <2>6, <2>7 DEF SetInv
  <2> QED BY <2>8 DEF new, t
<1> QED BY <1>4, <1>5, <1>6, <1>7

\* The whole loop.
LEMMA SetAllFacts ==
    ASSUME NEW x, IndexOK(x), Single(x), NEW h \in Histories, Agree(x, h),
           NEW list, Len(list) \in Nat, NEW use \in Use
    PROVE  SetInv(x, h, list, use, SetAll(x, h, list, use), Len(list))
<1> DEFINE g == SetTurns(x, h, list, use)
           n == Len(list)
           Bad == {k \in 0..n : ~SetInv(x, h, list, use, g[k], k)}
<1>1. /\ g[0] = [indx |-> x, status |-> 0, held |-> h]
      /\ \A k \in 1..n : g[k] = SetOne(g[k - 1], list[k], use)
  BY SetTurnsEquation
<1> HIDE DEF g
<1>2. SetInv(x, h, list, use, g[0], 0)
  <2>1. g[0].indx = x /\ g[0].status = 0 /\ g[0].held = h
    BY <1>1
  <2>2. \A c \in Holders : \A t \in TPs : h[c][t] <= h[c][t]
    BY DEF Histories
  <2>3. g[0] = [indx |-> g[0].indx, status |-> g[0].status, held |-> g[0].held]
    BY <1>1, <2>1
  <2>4. \A i \in 1..0 : FALSE
    OBVIOUS
  <2> QED BY <2>1, <2>2, <2>3, <2>4 DEF SetInv
<1>3. Bad = {}
  <2> SUFFICES ASSUME Bad # {} PROVE FALSE
    OBVIOUS
  <2>1. Bad \in SUBSET Nat
    OBVIOUS
  <2>2. PICK b \in Bad : \A a \in Bad : b <= a
    <3> HIDE DEF Bad
    <3> QED BY <2>1, LeastElement
  <2>3. b \in 1..n /\ ~SetInv(x, h, list, use, g[b], b)
    BY <1>2, <2>2
  <2>4. b - 1 \in 0..n /\ ~(b <= b - 1)
    BY <2>3
  <2>5. SetInv(x, h, list, use, g[b - 1], b - 1)
    BY <2>2, <2>4
  <2>6. SetInv(x, h, list, use, SetOne(g[b - 1], list[b], use), b)
    BY <2>3, <2>5, SetOneKeeps
  <2> QED BY <1>1, <2>3, <2>6
<1>4. n \in 0..n
  OBVIOUS
<1>5. SetInv(x, h, list, use, g[n], n)
  BY <1>3, <1>4
<1> QED BY <1>5 DEF g, SetAll

-----------------------------------------------------------------------------
(* Clearing test points *)

\* Giving a use back changes one count of one client.
LEMMA GiveBackFacts ==
    ASSUME NEW h \in Histories, NEW t \in TPs, NEW c \in Holders
    PROVE  /\ GiveBack(h, t, c) \in Histories
           /\ \A d \in Holders : \A u \in TPs \ {t} : GiveBack(h, t, c)[d][u] = h[d][u]
           /\ \A d \in Holders : d # c => GiveBack(h, t, c)[d] = h[d]
           /\ h[c][t] = 0 => GiveBack(h, t, c) = h
           /\ h[c][t] > 0 => GiveBack(h, t, c)[c][t] = h[c][t] - 1
<1>0. h[c] \in [TPs -> Nat] /\ h[c][t] \in Nat
  BY DEF Histories
<1>1. CASE h[c][t] = 0
  <2>1. GiveBack(h, t, c) = h
    BY <1>1 DEF GiveBack
  <2> QED BY <1>1, <2>1
<1>2. CASE h[c][t] > 0
  <2> DEFINE row == [h[c] EXCEPT ![t] = h[c][t] - 1]
  <2>1. GiveBack(h, t, c) = [h EXCEPT ![c] = row]
    BY <1>2 DEF GiveBack, Histories
  <2>2. row \in [TPs -> Nat] /\ row[t] = h[c][t] - 1 /\ \A u \in TPs \ {t} : row[u] = h[c][u]
    BY <1>0, <1>2
  <2> HIDE DEF row
  <2>3. GiveBack(h, t, c) \in Histories
    BY <2>1, <2>2 DEF Histories
  <2>4. GiveBack(h, t, c)[c] = row /\ \A d \in Holders : d # c => GiveBack(h, t, c)[d] = h[d]
    BY <2>1 DEF Histories
  <2>5. \A d \in Holders : \A u \in TPs \ {t} : GiveBack(h, t, c)[d][u] = h[d][u]
    BY <2>2, <2>4
  <2>6. h[c][t] # 0
    BY <1>2
  <2> QED BY <2>2, <2>3, <2>4, <2>5, <2>6
<1> QED BY <1>0, <1>1, <1>2

\* No timeout is negative: the users that may be cleared are those that count.
LEMMA UserOfIsMine ==
    ASSUME NEW users \in Seq(Use), NEW c
    PROVE  UserOf(users, c) = Mine(users, c)
<1>1. \A k \in DOMAIN users : users[k].timeout \in Nat
  <2>0. Timeouts \cup {0} \in SUBSET Nat
    BY TpAssumption
  <2>1. \A u \in Use : u.timeout \in Nat
    <3>1. \A u \in Use : u.timeout \in Timeouts \cup {0}
      BY DEF Use
    <3> QED BY <2>0, <3>1
  <2> QED BY <2>1
<1>2. \A k \in DOMAIN users : users[k].timeout <= 0 <=> users[k].timeout = 0
  BY <1>1
<1> QED BY <1>2 DEF UserOf, Mine

\* A user is removed from an entry.
LEMMA WithoutFacts ==
    ASSUME NEW e, EntryOK(e), e.id # NoTp, NEW c, NEW k \in Mine(e.users, c)
    PROVE  /\ EntryOK(Without(e, k)) /\ Without(e, k).id \in {e.id, NoTp}
           /\ Cardinality(Mine(e.users, c)) > 0
           /\ \A d : Without(e, k).id = e.id =>
                Cardinality(Mine(Without(e, k).users, d)) =
                    Cardinality(Mine(e.users, d)) - (IF d = c THEN 1 ELSE 0)
           /\ \A d : Without(e, k).id # e.id =>
                Cardinality(Mine(e.users, d)) = IF d = c THEN 1 ELSE 0
<1> DEFINE users == e.users
           w == Without(e, k)
<1>1. e \in Entry /\ users \in Seq(Use) /\ Len(users) <= MaxUser /\ Len(users) \in Nat
  BY DEF EntryOK, Entry
<1>2. k \in 1..Len(users)
  BY <1>1, MineFinite
<1>3. Cardinality(Mine(users, c)) > 0
  <2>1. IsFiniteSet(Mine(users, c)) /\ Cardinality(Mine(users, c)) \in Nat
    BY <1>1, MineFinite
  <2>2. Cardinality(Mine(users, c)) # 0
    BY <2>1, FS_EmptySet
  <2> QED BY <2>1, <2>2
<1>4. \A d : k \in Mine(users, d) <=> d = c
  BY DEF Mine
<1>5. CASE Len(users) = 1
  <2>1. w = Empty
    BY <1>5 DEF Without
  <2>2. Empty \in Entry /\ Empty.id = NoTp /\ Empty.users = <<>> /\ Len(Empty.users) = 0
    BY DEF Empty, Entry
  <2>3. EntryOK(w) /\ w.id = NoTp
    <3>1. 0 <= MaxUser
      BY TpAssumption
    <3> QED BY <2>1, <2>2, <3>1 DEF EntryOK
  <2>4. ASSUME NEW d PROVE Cardinality(Mine(users, d)) = IF d = c THEN 1 ELSE 0
    <3>0. k = 1
      BY <1>2, <1>5
    <3>1. Mine(users, d) \in SUBSET {1}
      <4>1. Mine(users, d) \in SUBSET (1..Len(users))
        BY <1>1, MineFinite
      <4>2. 1..1 = {1}
        OBVIOUS
      <4> QED BY <1>5, <4>1, <4>2
    <3>2. CASE d = c
      <4>1. Mine(users, d) = {1}
        BY <1>4, <3>0, <3>1, <3>2
      <4> QED BY <3>2, <4>1, FS_Singleton
    <3>3. CASE d # c
      <4>1. Mine(users, d) = {}
        BY <1>4, <3>0, <3>1, <3>3
      <4> QED BY <3>3, <4>1, FS_EmptySet
    <3> QED BY <3>2, <3>3
  <2> QED BY <1>3, <2>3, <2>4
<1>6. CASE Len(users) # 1
  <2> DEFINE new == RemoveAt(users, k)
  <2>1. w = [e EXCEPT !.users = new]
    BY <1>6 DEF Without
  <2>2. new \in Seq(Use) /\ Len(new) = Len(users) - 1
    BY <1>1, <1>2, RemoveAtFacts
  <2>3. w \in Entry /\ w.id = e.id /\ w.users = new
    <3> HIDE DEF new
    <3> QED BY <1>1, <2>1, <2>2 DEF Entry
  <2>4. Len(w.users) <= MaxUser /\ w.users # <<>>
    <3>1. MaxUser \in Nat
      BY TpAssumption
    <3>2. Len(new) # 0 /\ Len(new) <= MaxUser
      BY <1>1, <1>2, <1>6, <2>2, <3>1
    <3> HIDE DEF new
    <3>3. new # <<>>
      BY <3>2
    <3> QED BY <2>3, <3>2, <3>3
  <2>5. EntryOK(w)
    BY <2>3, <2>4 DEF EntryOK
  <2>6. ASSUME NEW d
        PROVE  Cardinality(Mine(new, d)) =
                 Cardinality(Mine(users, d)) - (IF d = c THEN 1 ELSE 0)
    <3>0. Cardinality(Mine(users, d)) \in Nat
      BY <1>1, MineFinite
    <3>1. CASE d = c
      <4>1. Cardinality(Mine(new, d)) = Cardinality(Mine(users, d)) - 1
        BY <1>1, <1>2, <1>4, <3>1, MineRemoved
      <4> QED BY <3>1, <4>1
    <3>2. CASE d # c
      <4>1. Cardinality(Mine(new, d)) = Cardinality(Mine(users, d))
        BY <1>1, <1>2, <1>4, <3>2, MineRemoved
      <4> QED BY <3>0, <3>2, <4>1
    <3> QED BY <3>1, <3>2
  <2> HIDE DEF w
  <2>7. /\ EntryOK(w) /\ w.id = e.id
        /\ \A d : Cardinality(Mine(w.users, d)) =
                 Cardinality(Mine(users, d)) - (IF d = c THEN 1 ELSE 0)
    BY <2>3, <2>5, <2>6
  <2> QED BY <1>3, <2>7 DEF w
<1> QED BY <1>5, <1>6

\* What holds between the turns of the loop of cleartp_1_svc.
ClearInv(h, c, x, g) ==
    /\ IndexOK(x) /\ Single(x) /\ g \in Histories /\ Agree(x, g)
    /\ \A d \in Holders \ {c} : g[d] = h[d]

\* One turn.
LEMMA ClearOneKeeps ==
    ASSUME NEW h \in Histories, NEW c \in Holders, NEW x, NEW g, ClearInv(h, c, x, g),
           NEW t
    PROVE  ClearInv(h, c, ClearOne(x, t, c), GiveBack(g, t, c))
<1>1. /\ IndexOK(x) /\ Single(x) /\ g \in Histories /\ Agree(x, g)
      /\ \A d \in Holders \ {c} : g[d] = h[d]
  BY DEF ClearInv
<1>2. CASE t \notin TPs
  <2>1. ClearOne(x, t, c) = x /\ GiveBack(g, t, c) = g
    BY <1>2 DEF ClearOne, GiveBack
  <2> QED BY <2>1
<1>3. CASE t \in TPs /\ Matching(x, t) = {}
  <2>1. ClearOne(x, t, c) = x
    BY <1>3 DEF ClearOne
  <2>2. g[c][t] = 0
    BY <1>1, <1>3, Zenon DEF Agree
  <2>3. GiveBack(g, t, c) = g
    BY <1>1, <1>3, <2>2, GiveBackFacts
  <2> QED BY <2>1, <2>3
<1>4. CASE t \in TPs /\ Matching(x, t) # {}
  <2> DEFINE j == InterfaceOf[t]
             s == Min(Matching(x, t))
             e == x[j][s]
             mine == UserOf(e.users, c)
             b == GiveBack(g, t, c)
  <2>1. j \in Interfaces /\ t # NoTp /\ Slots(j) \in SUBSET Nat
        /\ Matching(x, t) \in SUBSET Slots(j)
    BY <1>4, TpFacts, Zenon
  <2>2. s \in Matching(x, t)
    <3>1. Matching(x, t) \in SUBSET Nat
      BY <2>1
    <3> QED BY <1>4, <3>1, MinFacts
  <2>3. s \in Slots(j) /\ e.id = t /\ Matching(x, t) \subseteq {s}
    <3>1. s \in Slots(j) /\ e.id = t
      BY <2>2 DEF Matching
    <3>2. \A r \in Matching(x, t) : r = s
      BY <1>1, <1>4, <2>2 DEF Single
    <3> QED BY <3>1, <3>2
  <2>4. ClearOne(x, t, c) = IF mine = {} THEN x
                            ELSE [x EXCEPT ![j][s] = Without(@, Min(mine))]
    BY <1>4, Zenon DEF ClearOne
  <2>5. \A d \in Holders : Cardinality(Mine(e.users, d)) = g[d][t]
    BY <1>1, <1>4, <2>2, Zenon DEF Agree
  <2>6. /\ e \in Entry /\ e.users \in Seq(Use) /\ Len(e.users) <= MaxUser
        /\ e.id = NoTp <=> e.users = <<>>
    BY <1>1, <2>1, <2>3, IndexFacts, Zenon
  <2>7. EntryOK(e)
    BY <2>6, Zenon DEF EntryOK
  <2> HIDE DEF s, e
  <2>8. mine = Mine(e.users, c)
    BY <2>6, UserOfIsMine
  <2>9. CASE mine = {}
    <3>1. g[c][t] = 0
      BY <2>5, <2>8, <2>9, FS_EmptySet
    <3>2. b = g
      BY <1>1, <1>4, <3>1, GiveBackFacts
    <3>3. ClearOne(x, t, c) = x
      BY <2>4, <2>9
    <3> QED BY <3>2, <3>3
  <2>10. CASE mine # {}
    <3> DEFINE k == Min(mine)
               w == Without(e, k)
    <3>1. k \in Mine(e.users, c)
      <4>1. mine \in SUBSET Nat
        BY <2>6, <2>8, MineFinite
      <4>2. k \in mine
        BY <2>10, <4>1, MinFacts
      <4> HIDE DEF k, mine
      <4> QED BY <2>8, <4>2
    <3>2. ClearOne(x, t, c) = Put(x, j, s, w)
      <4>1. ClearOne(x, t, c) = [x EXCEPT ![j][s] = Without(x[j][s], k)]
        BY <2>4, <2>10
      <4> QED BY <4>1 DEF Put, e
    <3> HIDE DEF k
    <3>3. /\ EntryOK(w) /\ w.id \in {t, NoTp}
          /\ Cardinality(Mine(e.users, c)) > 0
          /\ \A d : w.id = t => Cardinality(Mine(w.users, d)) =
                    Cardinality(Mine(e.users, d)) - (IF d = c THEN 1 ELSE 0)
          /\ \A d : w.id # t =>
                Cardinality(Mine(e.users, d)) = IF d = c THEN 1 ELSE 0
      <4>1. e.id # NoTp /\ e.id = t
        BY <2>1, <2>3
      <4>2. /\ EntryOK(w) /\ w.id \in {e.id, NoTp}
            /\ Cardinality(Mine(e.users, c)) > 0
            /\ \A d : w.id = e.id => Cardinality(Mine(w.users, d)) =
                      Cardinality(Mine(e.users, d)) - (IF d = c THEN 1 ELSE 0)
            /\ \A d : w.id # e.id =>
                  Cardinality(Mine(e.users, d)) = IF d = c THEN 1 ELSE 0
        BY <2>7, <3>1, <4>1, WithoutFacts
      <4> QED BY <4>1, <4>2
    <3>4. /\ b \in Histories
          /\ \A d \in Holders : \A u \in TPs \ {t} : b[d][u] = g[d][u]
          /\ \A d \in Holders : d # c => b[d] = g[d]
          /\ g[c][t] > 0 => b[c][t] = g[c][t] - 1
      BY <1>1, <1>4, GiveBackFacts
    <3>5. g[c][t] > 0
      BY <2>5, <3>3
    <3> HIDE DEF w, b
    <3>6. ASSUME NEW d \in Holders
          PROVE  /\ w.id = t => b[d][t] = Cardinality(Mine(w.users, d))
                 /\ w.id # t => b[d][t] = 0
      <4>0. Cardinality(Mine(e.users, d)) = g[d][t] /\ g[d][t] \in Nat
        BY <1>1, <1>4, <2>5 DEF Histories
      <4>1. CASE d = c
        <5>1. b[d][t] = g[d][t] - 1
          BY <3>4, <3>5, <4>1
        <5> QED BY <3>3, <4>0, <4>1, <5>1
      <4>2. CASE d # c
        <5>1. b[d][t] = g[d][t]
          BY <3>4, <4>2
        <5> QED BY <3>3, <4>0, <4>2, <5>1
      <4> QED BY <4>1, <4>2
    <3>7. /\ t \in TPs /\ s \in Slots(InterfaceOf[t]) /\ Matching(x, t) \subseteq {s}
          /\ x[InterfaceOf[t]][s].id \in {t, NoTp}
          /\ EntryOK(w) /\ w.id \in {t, NoTp}
      BY <1>4, <2>3, <3>3 DEF e
    <3>8. IndexOK(Put(x, j, s, w)) /\ Single(Put(x, j, s, w))
      BY <1>1, <3>7, PutSingle
    <3>9. Agree(Put(x, j, s, w), b)
      <4>1. \A d \in Holders : w.id = t => b[d][t] = Cardinality(Mine(w.users, d))
        BY <3>6
      <4>2. \A d \in Holders : w.id # t => b[d][t] = 0
        BY <3>6
      <4>3. \A d \in Holders : \A u \in TPs \ {t} : b[d][u] = g[d][u]
        BY <3>4
      <4> QED BY <1>1, <3>7, <4>1, <4>2, <4>3, PutAgree
    <3>10. \A d \in Holders \ {c} : b[d] = h[d]
      BY <1>1, <3>4
    <3>11. ClearInv(h, c, Put(x, j, s, w), b)
      BY <3>4, <3>8, <3>9, <3>10 DEF ClearInv
    <3> QED BY <3>2, <3>11 DEF b
  <2> QED BY <2>9, <2>10
<1> QED BY <1>2, <1>3, <1>4

\* The whole loop.
LEMMA ClearListFacts ==
    ASSUME NEW x, IndexOK(x), Single(x), NEW h \in Histories, Agree(x, h),
           NEW list, Len(list) \in Nat, NEW c \in Holders
    PROVE  ClearInv(h, c, ClearList(x, h, list, c).indx, ClearList(x, h, list, c).held)
<1> DEFINE g == ClearTurns(x, h, list, c)
           n == Len(list)
           Bad == {k \in 0..n : ~ClearInv(h, c, g[k].indx, g[k].held)}
<1>1. /\ g[0] = [indx |-> x, held |-> h]
      /\ \A k \in 1..n : g[k] = [indx |-> ClearOne(g[k - 1].indx, list[k], c),
                                 held |-> GiveBack(g[k - 1].held, list[k], c)]
  BY ClearTurnsEquation
<1> HIDE DEF g
<1>2. ClearInv(h, c, g[0].indx, g[0].held)
  <2>1. g[0].indx = x /\ g[0].held = h
    BY <1>1
  <2> QED BY <2>1 DEF ClearInv
<1>3. Bad = {}
  <2> SUFFICES ASSUME Bad # {} PROVE FALSE
    OBVIOUS
  <2>1. Bad \in SUBSET Nat
    OBVIOUS
  <2>2. PICK b \in Bad : \A a \in Bad : b <= a
    <3> HIDE DEF Bad
    <3> QED BY <2>1, LeastElement
  <2>3. b \in 1..n /\ ~ClearInv(h, c, g[b].indx, g[b].held)
    BY <1>2, <2>2
  <2>4. b - 1 \in 0..n /\ ~(b <= b - 1)
    BY <2>3
  <2>5. ClearInv(h, c, g[b - 1].indx, g[b - 1].held)
    BY <2>2, <2>4
  <2>6. ClearInv(h, c, ClearOne(g[b - 1].indx, list[b], c),
                       GiveBack(g[b - 1].held, list[b], c))
    BY <2>5, ClearOneKeeps
  <2>7. g[b].indx = ClearOne(g[b - 1].indx, list[b], c)
        /\ g[b].held = GiveBack(g[b - 1].held, list[b], c)
    <3>1. g[b] = [indx |-> ClearOne(g[b - 1].indx, list[b], c),
                  held |-> GiveBack(g[b - 1].held, list[b], c)]
      BY <1>1, <2>3, Zenon
    <3> QED BY <3>1
  <2> QED BY <2>3, <2>6, <2>7
<1>4. n \in 0..n
  OBVIOUS
<1>5. ClearInv(h, c, g[n].indx, g[n].held)
  BY <1>3, <1>4
<1> QED BY <1>5 DEF g, ClearList

-----------------------------------------------------------------------------
(* Removing uses whose time is over *)

\* The loop of cleanupTestpoints leaves every user whose time is not over.
LEMMA SurvivorsFacts ==
    ASSUME NEW users \in Seq(Use)
    PROVE  /\ Survivors(users) \in SUBSET (1..Len(users))
           /\ \A k \in 1..Len(users) : ~Expired(users[k]) => k \in Survivors(users)
           /\ \A c : Mine(users, c) \in SUBSET Survivors(users)
<1>0. Len(users) \in Nat /\ DOMAIN users = 1..Len(users)
  BY UsersAre
<1>1. Survivors(users) \in SUBSET (1..Len(users))
  BY <1>0 DEF Survivors
<1>2. ASSUME NEW k \in 1..Len(users), ~Expired(users[k]) PROVE k \in Survivors(users)
  <2> DEFINE S == {i \in 0..k : i = 0 \/ ~Expired(users[i])}
  <2>1. k \in S /\ \A i \in S : k >= i
    BY <1>2
  <2>2. \A i \in S : i \in Int
    OBVIOUS
  <2> HIDE DEF S
  <2>3. Max(S) = k
    <3>1. \A m \in S : (\A i \in S : m >= i) => m = k
      BY <2>1, <2>2
    <3>2. Max(S) \in S /\ \A i \in S : Max(S) >= i
      BY <2>1, Zenon DEF Max
    <3> QED BY <3>1, <3>2
  <2>4. (k - Max(S)) % 2 = 0
    BY <2>3
  <2> QED BY <1>0, <2>4 DEF Survivors, S
<1>3. ASSUME NEW c, NEW k \in Mine(users, c) PROVE k \in Survivors(users)
  <2>1. k \in 1..Len(users) /\ users[k].timeout = 0
    BY <1>0 DEF Mine
  <2>2. ~Expired(users[k])
    BY <2>1 DEF Expired
  <2> QED BY <1>2, <2>1, <2>2
<1> QED BY <1>1, <1>2, <1>3

\* An empty slot is in order.
LEMMA EmptyFacts == EntryOK(Empty) /\ Empty.id = NoTp /\ Empty.users = <<>>
<1>1. Empty \in Entry /\ Empty.id = NoTp /\ Empty.users = <<>> /\ Len(Empty.users) = 0
  BY DEF Empty, Entry
<1>2. 0 <= MaxUser
  BY TpAssumption
<1> QED BY <1>1, <1>2 DEF EntryOK

\* No use without timeout goes away.
LEMMA ReapFacts ==
    ASSUME NEW e, EntryOK(e)
    PROVE  /\ EntryOK(ReapSlot(e)) /\ ReapSlot(e).id \in {e.id, NoTp}
           /\ \A d : ReapSlot(e).id = e.id =>
                Cardinality(Mine(ReapSlot(e).users, d)) = Cardinality(Mine(e.users, d))
           /\ \A d : ReapSlot(e).id # e.id => Cardinality(Mine(e.users, d)) = 0
<1> DEFINE users == e.users
           kept == Survivors(users)
           w == ReapSlot(e)
<1>1. e \in Entry /\ users \in Seq(Use) /\ Len(users) <= MaxUser /\ Len(users) \in Nat
  BY DEF EntryOK, Entry
<1>2. e.id = NoTp <=> users = <<>>
  BY Zenon DEF EntryOK
<1>3. kept \in SUBSET (1..Len(users)) /\ \A d : Mine(users, d) \in SUBSET kept
  BY <1>1, SurvivorsFacts
<1>4. CASE kept = {}
  <2>1. w = Empty
    BY <1>4 DEF ReapSlot
  <2>2. \A d : Mine(users, d) = {}
    BY <1>3, <1>4
  <2>3. \A d : Cardinality(Mine(users, d)) = 0
    BY <2>2, FS_EmptySet
  <2>4. \A d : Mine(w.users, d) = {}
    BY <2>1, EmptyFacts DEF Mine
  <2>5. \A d : Cardinality(Mine(w.users, d)) = 0
    BY <2>4, FS_EmptySet
  <2> QED BY <2>1, <2>3, <2>5, EmptyFacts
<1>5. CASE kept # {}
  <2> DEFINE m == Cardinality(kept)
             new == [i \in 1..m |-> users[Nth(kept, i)]]
             f == [i \in 1..m |-> Nth(kept, i)]
  <2>1. w = [e EXCEPT !.users = new]
    BY <1>5 DEF ReapSlot
  <2>2. \A n \in Nat : IsFiniteSet(1..n) /\ Cardinality(1..n) = n
    BY FS_Interval
  <2>3. IsFiniteSet(1..Len(users)) /\ Cardinality(1..Len(users)) = Len(users)
    BY <1>1, <2>2
  <2> HIDE DEF kept
  <2>4. IsFiniteSet(kept) /\ m \in Nat /\ m <= Len(users) /\ m # 0
    <3>1. IsFiniteSet(kept) /\ Cardinality(kept) <= Cardinality(1..Len(users))
      BY <1>3, <2>3, FS_Subset
    <3>2. Cardinality(kept) \in Nat
      BY <3>1, FS_CardinalityType
    <3>3. Cardinality(kept) # 0
      BY <1>5, <3>1, FS_EmptySet
    <3> HIDE DEF users
    <3> QED BY <2>3, <3>1, <3>2, <3>3
  <2>5. kept \in SUBSET Nat
    BY <1>3
  <2>6. \A i \in 1..m : Nth(kept, i) \in kept /\ Rank(kept, Nth(kept, i)) = i
    BY <2>4, <2>5, NthFacts
  <2>7. \A k \in kept : Rank(kept, k) \in 1..m /\ Nth(kept, Rank(kept, k)) = k
    <3>1. /\ \A k \in kept : Rank(kept, k) \in 1..m
          /\ \A i, j \in kept : Rank(kept, i) = Rank(kept, j) => i = j
      BY <2>4, <2>5, RankFacts
    <3> HIDE DEF m
    <3>2. ASSUME NEW k \in kept PROVE Nth(kept, Rank(kept, k)) = k
      <4>1. Rank(kept, k) \in 1..m
        BY <3>1
      <4> DEFINE n == Rank(kept, k)
      <4>2. Nth(kept, n) \in kept /\ Rank(kept, Nth(kept, n)) = n
        BY <2>6, <4>1, Zenon
      <4> QED BY <3>1, <4>2, Zenon
    <3> QED BY <3>1, <3>2, Zenon
  <2> HIDE DEF m
  <2>8. f \in Bijection(1..m, kept)
    <3>1. f \in [1..m -> kept]
      BY <2>6
    <3>2. \A i, j \in 1..m : f[i] = f[j] => i = j
      BY <2>6
    <3>3. \A k \in kept : \E i \in 1..m : f[i] = k
      BY <2>7
    <3> QED BY <3>1, <3>2, <3>3 DEF Bijection, Injection, Surjection, IsInjective
  <2>9. \A i \in 1..m : users[Nth(kept, i)] \in Use
    <3>1. \A k \in 1..Len(users) : users[k] \in Use
      BY <1>1, UsersAre
    <3>2. \A i \in 1..m : Nth(kept, i) \in 1..Len(users)
      BY <1>3, <2>6
    <3> HIDE DEF users
    <3> QED BY <3>1, <3>2, Zenon
  <2>10. new \in Seq(Use) /\ Len(new) = m /\ DOMAIN new = 1..m
    BY <2>4, <2>9
  <2>11. \A i \in DOMAIN new : new[i] = users[f[i]]
    OBVIOUS
  <2>12. kept \in SUBSET DOMAIN users
    BY <1>1, <1>3
  <2> HIDE DEF new, f
  <2>13. ASSUME NEW d PROVE Cardinality(Mine(new, d)) = Cardinality(Mine(users, d))
    <3>1. f \in Bijection(DOMAIN new, kept)
      BY <2>8, <2>10
    <3>2. Cardinality(Mine(new, d)) = Cardinality(Mine(users, d) \cap kept)
      BY <1>1, <2>10, <2>11, <2>12, <3>1, MineThinned
    <3>3. Mine(users, d) \cap kept = Mine(users, d)
      BY <1>3
    <3> QED BY <3>2, <3>3
  <2>14. w \in Entry /\ w.id = e.id /\ w.users = new
    BY <1>1, <2>1, <2>10 DEF Entry
  <2>15. Len(w.users) <= MaxUser /\ w.users # <<>>
    <3>1. MaxUser \in Nat
      BY TpAssumption
    <3>2. Len(new) # 0 /\ Len(new) <= MaxUser
      BY <1>1, <2>4, <2>10, <3>1
    <3>3. new # <<>>
      BY <3>2
    <3> QED BY <2>14, <3>2, <3>3
  <2>16. e.id # NoTp
    <3>1. users # <<>>
      <4>1. PICK k : k \in kept
        BY <1>5
      <4>2. 1..Len(users) # {}
        BY <1>3, <4>1, Zenon
      <4>3. 1..Len(<<>>) = {}
        OBVIOUS
      <4> HIDE DEF users
      <4> QED BY <4>2, <4>3, Zenon
    <3> HIDE DEF users
    <3> QED BY <1>2, <3>1
  <2>17. EntryOK(w)
    BY <2>14, <2>15, <2>16 DEF EntryOK
  <2> HIDE DEF w
  <2>18. \A d : Cardinality(Mine(w.users, d)) = Cardinality(Mine(users, d))
    BY <2>13, <2>14
  <2> QED BY <2>14, <2>17, <2>18 DEF w
<1> QED BY <1>4, <1>5

\* A pass over one interface.
LEMMA CleanupEffect ==
    ASSUME NEW x, IndexOK(x), Single(x), NEW j \in Interfaces,
           NEW h, Agree(x, h), NEW y,
           y = [x EXCEPT ![j] = [s \in Slots(j) |-> ReapSlot(x[j][s])]]
    PROVE  IndexOK(y) /\ Single(y) /\ Agree(y, h)
<1> DEFINE row == [s \in Slots(j) |-> ReapSlot(x[j][s])]
<1>1. x \in [Interfaces -> Indices] /\ \A i \in Interfaces : x[i] \in [Slots(i) -> Entry]
  BY Zenon DEF IndexOK
<1>2. \A i \in Interfaces : \A s \in Slots(i) : EntryOK(x[i][s])
  BY IndexFacts, Zenon DEF EntryOK
<1>3. y = [x EXCEPT ![j] = row]
  OBVIOUS
<1>4. \A s \in Slots(j) : row[s] = ReapSlot(x[j][s])
  OBVIOUS
<1>5. \A s \in Slots(j) : ReapSlot(x[j][s]) \in Entry
  BY <1>2, ReapFacts DEF EntryOK
<1>6. row \in [Slots(j) -> Entry]
  BY <1>5
<1> HIDE DEF row
<1>7. row \in Indices
  BY <1>6, Zenon DEF Indices
<1>8. y \in [Interfaces -> Indices] /\ y[j] = row /\ \A i \in Interfaces : i # j => y[i] = x[i]
  BY <1>1, <1>3, <1>7
<1>9. \A i \in Interfaces : y[i] \in [Slots(i) -> Entry]
  BY <1>1, <1>6, <1>8, Zenon
<1>10. ASSUME NEW i \in Interfaces, NEW s \in Slots(i)
       PROVE  /\ EntryOK(y[i][s]) /\ y[i][s].id \in {x[i][s].id, NoTp}
              /\ \A d : y[i][s].id = x[i][s].id =>
                   Cardinality(Mine(y[i][s].users, d)) = Cardinality(Mine(x[i][s].users, d))
              /\ \A d : y[i][s].id # x[i][s].id => Cardinality(Mine(x[i][s].users, d)) = 0
  <2>0. EntryOK(x[i][s])
    BY <1>2
  <2>1. CASE i = j
    <3>1. y[i][s] = ReapSlot(x[i][s])
      BY <1>4, <1>8, <2>1
    <3> DEFINE e == x[i][s]
    <3> HIDE DEF e
    <3>2. EntryOK(e) /\ y[i][s] = ReapSlot(e)
      BY <2>0, <3>1 DEF e
    <3>3. /\ EntryOK(ReapSlot(e)) /\ ReapSlot(e).id \in {e.id, NoTp}
          /\ \A d : ReapSlot(e).id = e.id =>
               Cardinality(Mine(ReapSlot(e).users, d)) = Cardinality(Mine(e.users, d))
          /\ \A d : ReapSlot(e).id # e.id => Cardinality(Mine(e.users, d)) = 0
      BY <3>2, ReapFacts
    <3> QED BY <3>2, <3>3 DEF e
  <2>2. CASE i # j
    <3>1. y[i][s] = x[i][s]
      BY <1>8, <2>2
    <3> QED BY <2>0, <3>1
  <2> QED BY <2>1, <2>2
<1>11. IndexOK(y)
  <2>1. \A i \in Interfaces : \A s \in Slots(i) :
            Len(y[i][s].users) <= MaxUser /\ (y[i][s].id = NoTp <=> y[i][s].users = <<>>)
    BY <1>10, Zenon DEF EntryOK
  <2> QED BY <1>8, <1>9, <2>1, Zenon DEF IndexOK
<1>12. ASSUME NEW t \in TPs
       PROVE  /\ InterfaceOf[t] \in Interfaces
              /\ \A s \in Matching(y, t) : s \in Matching(x, t)
  <2>1. InterfaceOf[t] \in Interfaces /\ t # NoTp
    BY TpFacts
  <2>2. \A s \in Slots(InterfaceOf[t]) :
            y[InterfaceOf[t]][s].id = t => x[InterfaceOf[t]][s].id = t
    BY <1>10, <2>1
  <2> QED BY <2>1, <2>2 DEF Matching
<1>13. Single(y)
  BY <1>12, Zenon DEF Single
<1>14. ASSUME NEW c \in Holders, NEW t \in TPs
       PROVE  /\ Matching(y, t) = {} => h[c][t] = 0
              /\ \A s \in Matching(y, t) :
                    Cardinality(Mine(y[InterfaceOf[t]][s].users, c)) = h[c][t]
  <2> DEFINE i == InterfaceOf[t]
  <2>1. i \in Interfaces /\ \A s \in Matching(y, t) : s \in Matching(x, t)
    BY <1>12
  <2>2. /\ Matching(x, t) = {} => h[c][t] = 0
        /\ \A s \in Matching(x, t) : Cardinality(Mine(x[i][s].users, c)) = h[c][t]
    BY Zenon DEF Agree
  <2>3. /\ \A s \in Matching(x, t) : s \in Slots(i) /\ x[i][s].id = t
        /\ \A s \in Slots(i) : y[i][s].id = t => s \in Matching(y, t)
        /\ \A s \in Matching(y, t) : y[i][s].id = t
    BY DEF Matching
  <2> HIDE DEF i
  <2>4. ASSUME Matching(y, t) = {}, NEW s \in Matching(x, t) PROVE h[c][t] = 0
    <3>1. s \in Slots(i) /\ y[i][s].id # x[i][s].id
      BY <2>3, <2>4
    <3>2. Cardinality(Mine(x[i][s].users, c)) = 0
      BY <1>10, <2>1, <3>1
    <3> QED BY <2>2, <3>2
  <2>5. ASSUME NEW s \in Matching(y, t)
        PROVE  Cardinality(Mine(y[i][s].users, c)) = h[c][t]
    <3>1. s \in Matching(x, t) /\ s \in Slots(i) /\ y[i][s].id = x[i][s].id
      BY <2>1, <2>3
    <3>2. Cardinality(Mine(y[i][s].users, c)) = Cardinality(Mine(x[i][s].users, c))
      BY <1>10, <2>1, <3>1
    <3> QED BY <2>2, <3>1, <3>2
  <2>6. Matching(y, t) = {} => h[c][t] = 0
    BY <2>2, <2>4
  <2> QED BY <2>5, <2>6 DEF i
<1>15. Agree(y, h)
  BY <1>14, Zenon DEF Agree
<1> QED BY <1>11, <1>13, <1>15

-----------------------------------------------------------------------------
(* The invariant holds at the beginning *)

\* What is held has a slot.
LEMMA AgreeHolds ==
    ASSUME NEW x, NEW h, Agree(x, h), NEW c \in Holders, NEW t \in TPs, h[c][t] > 0
    PROVE  Matching(x, t) # {}
<1>1. Matching(x, t) = {} => h[c][t] = 0
  BY Zenon DEF Agree
<1>2. h[c][t] # 0
  OBVIOUS
<1> QED BY <1>1, <1>2

\* The index after initialisation and after a clear of everything.
LEMMA EmptyIndexFacts ==
    /\ IndexOK(EmptyIndex) /\ Single(EmptyIndex) /\ Agree(EmptyIndex, NoHolds)
    /\ NoHolds \in Histories
    /\ \A c \in Holders : \A t \in TPs : NoHolds[c][t] = 0
<1>1. EntryOK(Empty) /\ Empty.id = NoTp /\ Empty.users = <<>>
  BY EmptyFacts
<1>2. Empty \in Entry
  BY <1>1 DEF EntryOK
<1>3. \A j \in Interfaces : [s \in Slots(j) |-> Empty] \in [Slots(j) -> Entry]
  BY <1>2
<1>4. \A j \in Interfaces : [s \in Slots(j) |-> Empty] \in Indices
  BY <1>3, Zenon DEF Indices
<1>5. EmptyIndex \in [Interfaces -> Indices]
  BY <1>4 DEF EmptyIndex
<1>6. \A j \in Interfaces : EmptyIndex[j] = [s \in Slots(j) |-> Empty]
  BY DEF EmptyIndex
<1>7. \A j \in Interfaces : \A s \in Slots(j) : EmptyIndex[j][s] = Empty
  BY <1>6
<1>8. IndexOK(EmptyIndex)
  <2>1. \A j \in Interfaces : EmptyIndex[j] \in [Slots(j) -> Entry]
    BY <1>3, <1>6, Zenon
  <2>2. Len(Empty.users) <= MaxUser
    BY <1>1 DEF EntryOK
  <2>3. \A j \in Interfaces : \A s \in Slots(j) :
            /\ Len(EmptyIndex[j][s].users) <= MaxUser
            /\ EmptyIndex[j][s].id = NoTp <=> EmptyIndex[j][s].users = <<>>
    BY <1>1, <1>7, <2>2, Zenon
  <2> QED BY <1>5, <2>1, <2>3, Zenon DEF IndexOK
<1>9. \A t \in TPs : Matching(EmptyIndex, t) = {}
  <2>1. \A t \in TPs : t # NoTp /\ InterfaceOf[t] \in Interfaces
    BY TpFacts
  <2> QED BY <1>1, <1>7, <2>1 DEF Matching
<1>10. NoHolds \in Histories /\ \A c \in Holders : \A t \in TPs : NoHolds[c][t] = 0
  BY DEF NoHolds, Histories
<1>11. Single(EmptyIndex)
  BY <1>9 DEF Single
<1>12. Agree(EmptyIndex, NoHolds)
  BY <1>9, <1>10 DEF Agree
<1> QED BY <1>8, <1>10, <1>11, <1>12

\* No promise is beyond every time.
LEMMA NeverFacts ==
    /\ Never \in Nat
    /\ \A n \in 0..LastTick : Never > n + 1
    /\ NoPromises \in Histories
    /\ \A c \in Holders : \A t \in TPs : NoPromises[c][t] = Never
<1>1. LastTick \in Nat
  BY TpAssumption
<1>2. Never \in Nat /\ \A n \in 0..LastTick : Never > n + 1
  BY <1>1 DEF Never
<1> QED BY <1>2 DEF NoPromises, Histories

\* The invariant holds when the service starts.
LEMMA InitHolds == Init => IndInv
<1> SUFFICES ASSUME Init PROVE IndInv
  OBVIOUS
<1>1. /\ indx = EmptyIndex /\ rpc = "preselect"
      /\ call = [clnt |-> PreselectId, list |-> <<>>, timeout |-> 0]
      /\ upd = 0 /\ copied = NoCopy
      /\ published = [j \in Interfaces |-> [i \in 1..IndexLen[j] |-> NoTp]]
      /\ now = 0 /\ calls = 0
      /\ held = NoHolds /\ promise = NoPromises
  BY DEF Init
<1>2. LastTick \in Nat /\ MaxCalls \in Nat /\ Cardinality(Interfaces) \in Nat
  BY TpAssumption, FS_CardinalityType
<1>3. TypeOK
  <2>1. IndexOK(indx) /\ held \in [Holders -> [TPs -> Nat]]
    BY <1>1, EmptyIndexFacts DEF Histories
  <2>2. promise \in [Holders -> [TPs -> Nat]]
    BY <1>1, NeverFacts DEF Histories
  <2>3. published \in [Interfaces -> Seq(Numbers)]
    <3>1. \A j \in Interfaces : IndexLen[j] \in Nat
      BY TpAssumption
    <3>2. \A n \in Nat : [i \in 1..n |-> NoTp] \in Seq(Numbers)
      BY DEF Numbers
    <3>3. \A j \in Interfaces : [i \in 1..IndexLen[j] |-> NoTp] \in Seq(Numbers)
      BY <3>1, <3>2, Zenon
    <3> QED BY <1>1, <3>3
  <2>4. call \in [clnt : Holders, list : Lists \cup {Preselect, <<>>},
                  timeout : Timeouts \cup {0}]
    BY <1>1 DEF Holders
  <2>5. now \in 0..LastTick /\ calls \in 0..MaxCalls /\ upd \in 0..Cardinality(Interfaces)
    BY <1>1, <1>2
  <2> QED BY <1>1, <2>1, <2>2, <2>3, <2>4, <2>5 DEF TypeOK
<1>4. HoldInv
  <2>1. \A c \in Holders, t \in TPs : ~(held[c][t] > 0)
    BY <1>1, EmptyIndexFacts
  <2> QED BY <1>1, <2>1, EmptyIndexFacts DEF HoldInv
<1>5. \A c \in Holders, t \in TPs : promise[c][t] = Never
  BY <1>1, NeverFacts
<1>6. PromiseInv
  BY <1>1, <1>5 DEF PromiseInv
<1>7. \A c \in Holders, t \in TPs : ~(promise[c][t] <= now) /\ ~(promise[c][t] <= now + 1)
  <2>1. now \in 0..LastTick
    BY <1>1, <1>2
  <2>2. Never \in Nat /\ Never > now + 1
    BY <2>1, NeverFacts
  <2>3. ~(Never <= now) /\ ~(Never <= now + 1)
    BY <1>1, <2>2
  <2> QED BY <1>5, <2>3
<1>8. UpdateInv /\ ActivationKept
  BY <1>1, <1>7 DEF UpdateInv, ActivationKept
<1> QED BY <1>3, <1>4, <1>6, <1>8 DEF IndInv

-----------------------------------------------------------------------------
(* The steps keep the invariant *)

Calls == [clnt : Holders, list : Lists \cup {Preselect, <<>>},
          timeout : Timeouts \cup {0}]

\* A list of a request has a length.
LEMMA ListFacts ==
    \A list \in Lists \cup {Preselect, <<>>} :
        Len(list) \in Nat /\ DOMAIN list = 1..Len(list)
<1>1. \A list \in Lists \cup {Preselect} : list \in Seq(Nat)
  BY TpAssumption
<1>2. \A s \in Seq(Nat) : Len(s) \in Nat /\ DOMAIN s = 1..Len(s)
  OBVIOUS
<1>3. Len(<<>>) \in Nat /\ DOMAIN <<>> = 1..Len(<<>>)
  OBVIOUS
<1> QED BY <1>1, <1>2, <1>3

\* Promises that are made late enough, or withdrawn, need nothing of the update.
LEMMA PromiseLater ==
    ASSUME now \in 0..LastTick, UpdateInv, ActivationKept, rpc # "stuck",
           UNCHANGED <<taskVars, now>>, promise' \in Histories,
           \A c \in Holders, t \in TPs :
              promise'[c][t] = promise[c][t] \/ promise'[c][t] > now + 1
    PROVE  UpdateInv' /\ ActivationKept'
<1>1. upd' = upd /\ copied' = copied /\ published' = published /\ now' = now
  BY DEF taskVars
<1>2. \A c \in Holders, t \in TPs : promise'[c][t] \in Nat
  BY DEF Histories
<1>3. now \in Nat
  OBVIOUS
<1>4. ASSUME NEW c \in Holders, NEW t \in TPs
      PROVE  /\ promise'[c][t] <= now + 1 => promise[c][t] <= now + 1
             /\ promise'[c][t] <= now => promise[c][t] <= now
  <2>1. CASE promise'[c][t] = promise[c][t]
    BY <2>1
  <2>2. CASE promise'[c][t] > now + 1
    BY <1>2, <1>3, <2>2
  <2> QED BY <2>1, <2>2
<1>5. UpdateInv'
  BY <1>1, <1>4, Zenon DEF UpdateInv
<1>6. ActivationKept'
  BY <1>1, <1>4, Zenon DEF ActivationKept
<1> QED BY <1>5, <1>6

\* requesttp_1_svc up to the release of servermux, for a client or setPreselect.
LEMMA ServeKeeps ==
    ASSUME TypeOK, HoldInv, rpc # "stuck", NEW c \in Holders,
           NEW list \in Lists \cup {Preselect, <<>>},
           NEW timeout \in Timeouts \cup {0}, call \in Calls, Serve(c, list, timeout)
    PROVE  /\ rpc' \in {"idle", "reply", "stuck"} /\ call' \in Calls
           /\ held' \in Histories /\ IndexOK(indx') /\ HoldInv'
           /\ \A d \in Holders : \A t \in TPs : held[d][t] <= held'[d][t]
           /\ rpc' = "reply" /\ call'.timeout = 0 =>
                \A t \in Range(call'.list) \cap TPs : held'[call'.clnt][t] > 0
<1> DEFINE use == [clnt |-> c, timeout |-> timeout, req |-> now]
           res == SetAll(indx, held, list, use)
<1>1. /\ IndexOK(indx) /\ held \in Histories /\ now \in 0..LastTick
  BY DEF TypeOK, Histories
<1>2. /\ Single(indx) /\ Agree(indx, held)
      /\ \A d \in Holders : \A t \in TPs : held[d][t] > 0 => Matching(indx, t) # {}
  BY DEF HoldInv
<1>3. use \in Use /\ use.clnt = c /\ use.timeout = timeout
  BY <1>1 DEF Use
<1>4. Len(list) \in Nat /\ DOMAIN list = 1..Len(list)
  BY ListFacts
<1>5. SetInv(indx, held, list, use, res, Len(list))
  <2> HIDE DEF use
  <2> QED BY <1>1, <1>2, <1>3, <1>4, SetAllFacts
<1>6. /\ IF Overload(indx, list)
         THEN /\ rpc' = "idle"
              /\ UNCHANGED <<indx, call, held>>
         ELSE /\ indx' = res.indx
              /\ IF res.status < 0
                 THEN rpc' = "stuck" /\ UNCHANGED <<call, held>>
                 ELSE /\ rpc' = "reply"
                      /\ call' = [clnt |-> c, list |-> list, timeout |-> timeout]
                      /\ held' = res.held
  BY Zenon DEF Serve
<1> HIDE DEF use, res
<1>7. /\ res.status \in {0, -1} /\ res.held \in Histories
      /\ IndexOK(res.indx) /\ Single(res.indx) /\ Agree(res.indx, res.held)
      /\ \A t \in TPs : Matching(indx, t) # {} => Matching(res.indx, t) # {}
      /\ \A d \in Holders : \A t \in TPs : held[d][t] <= res.held[d][t]
  BY <1>5 DEF SetInv
<1>8. res.status = 0 /\ timeout = 0 =>
        \A i \in 1..Len(list) : list[i] \in TPs => res.held[c][list[i]] > 0
  BY <1>3, <1>5 DEF SetInv
<1>9. \A d \in Holders : \A t \in TPs : held[d][t] <= held[d][t]
  BY <1>1 DEF Histories
<1>10. CASE Overload(indx, list)
  <2>1. rpc' = "idle" /\ indx' = indx /\ call' = call /\ held' = held
    BY <1>6, <1>10
  <2>2. HoldInv'
    BY <1>2, <2>1 DEF HoldInv
  <2> QED BY <1>1, <1>9, <2>1, <2>2
<1>11. CASE ~Overload(indx, list) /\ res.status < 0
  <2>1. rpc' = "stuck" /\ indx' = res.indx /\ call' = call /\ held' = held
    BY <1>6, <1>11
  <2>2. \A d \in Holders : \A t \in TPs : held[d][t] > 0 => Matching(res.indx, t) # {}
    BY <1>2, <1>7
  <2>3. HoldInv'
    BY <1>7, <2>1, <2>2 DEF HoldInv
  <2> QED BY <1>1, <1>7, <1>9, <2>1, <2>3
<1>12. CASE ~Overload(indx, list) /\ ~(res.status < 0)
  <2>1. /\ rpc' = "reply" /\ indx' = res.indx /\ held' = res.held
        /\ call' = [clnt |-> c, list |-> list, timeout |-> timeout]
    BY <1>6, <1>12
  <2>2. res.status = 0
    BY <1>7, <1>12
  <2>3. call' \in Calls /\ call'.clnt = c /\ call'.list = list /\ call'.timeout = timeout
    BY <2>1 DEF Calls
  <2>4. \A d \in Holders : \A t \in TPs : res.held[d][t] > 0 => Matching(res.indx, t) # {}
    BY <1>7, AgreeHolds
  <2>5. HoldInv'
    BY <1>7, <2>1, <2>4 DEF HoldInv
  <2>6. ASSUME timeout = 0, NEW t \in Range(list) \cap TPs PROVE res.held[c][t] > 0
    <3>1. PICK i \in DOMAIN list : t = list[i]
      BY DEF Range
    <3>2. i \in 1..Len(list)
      BY <1>4
    <3> QED BY <1>8, <2>2, <2>6, <3>1, <3>2
  <2> QED BY <1>7, <2>1, <2>3, <2>5, <2>6
<1> QED BY <1>10, <1>11, <1>12

\* What the invariant says of the state.
LEMMA StateFacts ==
    ASSUME IndInv
    PROVE  /\ TypeOK /\ HoldInv /\ PromiseInv /\ UpdateInv /\ ActivationKept
           /\ IndexOK(indx) /\ Single(indx)
           /\ call \in Calls /\ held \in Histories /\ promise \in Histories
           /\ now \in 0..LastTick /\ calls \in 0..MaxCalls
           /\ \A c \in Holders, t \in TPs : promise[c][t] \in Nat /\ held[c][t] \in Nat
<1>1. TypeOK /\ HoldInv /\ PromiseInv /\ UpdateInv /\ ActivationKept
  BY DEF IndInv
<1>2. /\ IndexOK(indx) /\ call \in Calls /\ held \in Histories /\ promise \in Histories
      /\ now \in 0..LastTick /\ calls \in 0..MaxCalls
  BY <1>1 DEF TypeOK, Calls, Histories
<1>3. Single(indx)
  BY <1>1 DEF HoldInv
<1>4. \A c \in Holders, t \in TPs : promise[c][t] \in Nat /\ held[c][t] \in Nat
  BY <1>2 DEF Histories
<1> QED BY <1>1, <1>2, <1>3, <1>4

\* Types when the update task does nothing.
LEMMA TypesKept ==
    ASSUME TypeOK, UNCHANGED <<taskVars, now>>, IndexOK(indx'),
           rpc' \in {"idle", "reply", "preselect", "stuck"}, call' \in Calls,
           calls' \in 0..MaxCalls, held' \in Histories, promise' \in Histories
    PROVE  TypeOK'
<1>1. upd' = upd /\ copied' = copied /\ published' = published /\ now' = now
  BY DEF taskVars
<1>2. /\ upd \in 0..Cardinality(Interfaces)
      /\ copied # NoCopy => upd \in Interfaces /\ copied \in [1..IndexLen[upd] -> Numbers]
      /\ published \in [Interfaces -> Seq(Numbers)] /\ now \in 0..LastTick
  BY DEF TypeOK
<1> QED BY <1>1, <1>2 DEF TypeOK, Calls, Histories

\* A request, by a client or by setPreselect.
LEMMA ServedKeeps ==
    ASSUME IndInv, rpc # "stuck", NEW c \in Holders,
           NEW list \in Lists \cup {Preselect, <<>>},
           NEW timeout \in Timeouts \cup {0}, Serve(c, list, timeout),
           UNCHANGED <<taskVars, now, promise>>, calls' \in 0..MaxCalls
    PROVE  IndInv'
<1>1. /\ TypeOK /\ HoldInv /\ PromiseInv /\ UpdateInv /\ ActivationKept
      /\ call \in Calls /\ promise \in Histories /\ held \in Histories
      /\ now \in 0..LastTick
  BY StateFacts
<1>2. /\ rpc' \in {"idle", "reply", "stuck"} /\ call' \in Calls
      /\ held' \in Histories /\ IndexOK(indx') /\ HoldInv'
      /\ \A d \in Holders : \A t \in TPs : held[d][t] <= held'[d][t]
      /\ rpc' = "reply" /\ call'.timeout = 0 =>
            \A t \in Range(call'.list) \cap TPs : held'[call'.clnt][t] > 0
  BY <1>1, ServeKeeps
<1>3. promise' = promise /\ UNCHANGED <<taskVars, now>>
  OBVIOUS
<1>4. TypeOK'
  BY <1>1, <1>2, <1>3, TypesKept
<1>5. PromiseInv'
  <2>1. ASSUME NEW d \in Holders, NEW t \in TPs, promise[d][t] # Never
        PROVE  held'[d][t] > 0 /\ promise[d][t] % 2 = 0
    <3>1. held[d][t] > 0 /\ promise[d][t] % 2 = 0
      BY <1>1, <2>1 DEF PromiseInv
    <3>2. held[d][t] \in Nat /\ held'[d][t] \in Nat /\ held[d][t] <= held'[d][t]
      BY <1>1, <1>2 DEF Histories
    <3> QED BY <3>1, <3>2
  <2> QED BY <1>2, <1>3, <2>1 DEF PromiseInv
<1>6. UpdateInv' /\ ActivationKept'
  <2>1. \A d \in Holders, t \in TPs : promise'[d][t] = promise[d][t]
    BY <1>3
  <2>2. promise' \in Histories
    BY <1>1, <1>3
  <2> QED BY <1>1, <1>3, <2>1, <2>2, PromiseLater
<1> QED BY <1>2, <1>4, <1>5, <1>6 DEF IndInv

\* requesttp_1_svc for a client.
LEMMA RequestKeeps ==
    ASSUME IndInv, NEW c \in Clients, NEW list \in Lists, NEW timeout \in Timeouts,
           Request(c, list, timeout)
    PROVE  IndInv'
<1>1. /\ rpc = "idle" /\ calls < MaxCalls /\ calls' = calls + 1
      /\ Serve(c, list, timeout) /\ UNCHANGED <<taskVars, now, promise>>
  BY Zenon DEF Request
<1>2. c \in Holders /\ list \in Lists \cup {Preselect, <<>>} /\ timeout \in Timeouts \cup {0}
  BY DEF Holders
<1>3. calls' \in 0..MaxCalls
  <2>1. calls \in 0..MaxCalls /\ MaxCalls \in Nat
    BY StateFacts, TpAssumption
  <2> QED BY <1>1, <2>1
<1>4. rpc # "stuck"
  BY <1>1
<1> QED BY <1>1, <1>2, <1>3, <1>4, ServedKeeps

\* setPreselect, also when nothing is preselected.
LEMMA SetPreselectKeeps == ASSUME IndInv, SetPreselect PROVE IndInv'
<1>1. rpc = "preselect" /\ UNCHANGED <<taskVars, now, calls, promise>>
  BY Zenon DEF SetPreselect
<1>2. /\ TypeOK /\ HoldInv /\ PromiseInv /\ UpdateInv /\ ActivationKept
      /\ IndexOK(indx) /\ call \in Calls /\ promise \in Histories /\ held \in Histories
      /\ now \in 0..LastTick /\ calls \in 0..MaxCalls
  BY StateFacts
<1>3. CASE Preselect = <<>>
  <2>1. /\ rpc' = "idle" /\ indx' = indx /\ call' = call /\ held' = held
        /\ promise' = promise /\ calls' = calls /\ UNCHANGED <<taskVars, now>>
    BY <1>1, <1>3 DEF SetPreselect
  <2>2. TypeOK'
    <3>1. /\ IndexOK(indx') /\ rpc' \in {"idle", "reply", "preselect", "stuck"}
          /\ call' \in Calls /\ calls' \in 0..MaxCalls
          /\ held' \in Histories /\ promise' \in Histories
      BY <1>2, <2>1
    <3> QED BY <1>2, <2>1, <3>1, TypesKept
  <2>3. HoldInv'
    BY <1>1, <1>2, <2>1 DEF HoldInv
  <2>4. PromiseInv'
    BY <1>2, <2>1 DEF PromiseInv
  <2>5. UpdateInv' /\ ActivationKept'
    <3>1. \A d \in Holders, t \in TPs : promise'[d][t] = promise[d][t]
      BY <2>1
    <3>2. promise' \in Histories
      BY <1>2, <2>1
    <3> QED BY <1>1, <1>2, <2>1, <3>1, <3>2, PromiseLater
  <2> QED BY <2>2, <2>3, <2>4, <2>5 DEF IndInv
<1>4. CASE Preselect # <<>>
  <2>1. Serve(PreselectId, Preselect, 0) /\ UNCHANGED <<taskVars, now, promise>>
    BY <1>4, Zenon DEF SetPreselect
  <2>2. PreselectId \in Holders /\ calls' \in 0..MaxCalls /\ rpc # "stuck"
        /\ Preselect \in Lists \cup {Preselect, <<>>} /\ 0 \in Timeouts \cup {0}
    BY <1>1, <1>2 DEF Holders
  <2> QED BY <2>1, <2>2, ServedKeeps
<1> QED BY <1>3, <1>4

\* The activation time is beyond the copy that the update may be taking now.
LEMMA ActivationTimeFacts ==
    ASSUME now \in Nat
    PROVE  /\ ActivationTime \in Nat /\ 2 * ActivationTime \in Nat
           /\ (2 * ActivationTime) % 2 = 0 /\ 2 * ActivationTime > now + 1
<1> DEFINE q == now \div 2
           r == now % 2
<1>1. q \in Int /\ r \in 0..1 /\ now = 2 * q + r
  BY DivMod
<1>2. ActivationTime = q + 1 + (IF r = 1 THEN 1 ELSE 0)
  BY DEF ActivationTime
<1> HIDE DEF q, r
<1>3. ActivationTime \in Nat /\ 2 * ActivationTime > now + 1
  <2>1. CASE r = 0
    BY <1>1, <1>2, <2>1
  <2>2. CASE r = 1
    BY <1>1, <1>2, <2>2
  <2> QED BY <1>1, <2>1, <2>2
<1>4. \A a \in Nat : 2 * a \in Nat /\ (2 * a) % 2 = 0
  OBVIOUS
<1> QED BY <1>3, <1>4

\* The promises that a reply makes.
LEMMA ReplyPromises ==
    ASSUME promise \in Histories, call \in Calls, now \in Nat, Reply
    PROVE  /\ promise' \in Histories
           /\ \A c \in Holders, t \in TPs :
                \/ promise'[c][t] = promise[c][t]
                \/ /\ promise'[c][t] = 2 * ActivationTime
                   /\ call.timeout = 0 /\ c = call.clnt /\ t \in Range(call.list)
<1>1. CASE call.timeout # 0
  <2>1. promise' = promise
    BY <1>1 DEF Reply
  <2> QED BY <2>1
<1>2. CASE call.timeout = 0
  <2> DEFINE d == call.clnt
             row == [t \in TPs |-> IF t \in Range(call.list) /\ promise[d][t] = Never
                                   THEN 2 * ActivationTime ELSE promise[d][t]]
  <2>1. d \in Holders
    BY DEF Calls
  <2>2. promise' = [promise EXCEPT ![d] = row]
    BY <1>2 DEF Reply
  <2>3. promise[d] \in [TPs -> Nat] /\ 2 * ActivationTime \in Nat
    BY <2>1, ActivationTimeFacts DEF Histories
  <2>4. row \in [TPs -> Nat]
    BY <2>3
  <2>5. \A t \in TPs : row[t] = promise[d][t]
                         \/ (row[t] = 2 * ActivationTime /\ t \in Range(call.list))
    OBVIOUS
  <2> HIDE DEF row, d
  <2>6. promise' \in Histories
    BY <2>2, <2>4 DEF Histories
  <2>7. promise'[d] = row /\ \A c \in Holders : c # d => promise'[c] = promise[c]
    BY <2>1, <2>2 DEF Histories
  <2> QED BY <1>2, <2>5, <2>6, <2>7 DEF d
<1> QED BY <1>1, <1>2

\* The reply promises what the request set, late enough for the update.
LEMMA ReplyKeeps == ASSUME IndInv, Reply PROVE IndInv'
<1>1. /\ rpc = "reply" /\ rpc' = "idle" /\ indx' = indx /\ held' = held
      /\ call' = [clnt |-> PreselectId, list |-> <<>>, timeout |-> 0]
      /\ UNCHANGED <<taskVars, now>> /\ calls' = calls
  BY DEF Reply
<1>2. /\ TypeOK /\ HoldInv /\ PromiseInv /\ UpdateInv /\ ActivationKept
      /\ IndexOK(indx) /\ call \in Calls /\ promise \in Histories /\ held \in Histories
      /\ now \in 0..LastTick /\ calls \in 0..MaxCalls
  BY StateFacts
<1>3. now \in Nat
  BY <1>2
<1>4. /\ promise' \in Histories
      /\ \A c \in Holders, t \in TPs :
           \/ promise'[c][t] = promise[c][t]
           \/ /\ promise'[c][t] = 2 * ActivationTime
              /\ call.timeout = 0 /\ c = call.clnt /\ t \in Range(call.list)
  BY <1>2, <1>3, ReplyPromises
<1>5. (2 * ActivationTime) % 2 = 0 /\ 2 * ActivationTime > now + 1
  BY <1>3, ActivationTimeFacts
<1>6. TypeOK'
  <2>1. call' \in Calls
    BY <1>1 DEF Calls, Holders
  <2>2. /\ IndexOK(indx') /\ rpc' \in {"idle", "reply", "preselect", "stuck"}
        /\ calls' \in 0..MaxCalls /\ held' \in Histories
    BY <1>1, <1>2
  <2> QED BY <1>1, <1>2, <1>4, <2>1, <2>2, TypesKept
<1>7. HoldInv'
  BY <1>1, <1>2 DEF HoldInv
<1>8. PromiseInv'
  <2>1. ASSUME NEW c \in Holders, NEW t \in TPs, promise'[c][t] # Never
        PROVE  held[c][t] > 0 /\ promise'[c][t] % 2 = 0
    <3>1. CASE promise'[c][t] = promise[c][t]
      BY <1>2, <2>1, <3>1 DEF PromiseInv
    <3>2. CASE /\ promise'[c][t] = 2 * ActivationTime
               /\ call.timeout = 0 /\ c = call.clnt /\ t \in Range(call.list)
      <4>1. held[c][t] > 0
        BY <1>1, <1>2, <3>2 DEF PromiseInv
      <4> QED BY <1>5, <3>2, <4>1
    <3> QED BY <1>4, <3>1, <3>2
  <2> QED BY <1>1, <2>1 DEF PromiseInv
<1>9. UpdateInv' /\ ActivationKept'
  <2>1. \A c \in Holders, t \in TPs :
            promise'[c][t] = promise[c][t] \/ promise'[c][t] > now + 1
    BY <1>4, <1>5
  <2> QED BY <1>1, <1>2, <1>4, <2>1, PromiseLater
<1> QED BY <1>6, <1>7, <1>8, <1>9 DEF IndInv

\* cleartp_1_svc: what is given back is promised no longer.
LEMMA ClearKeeps ==
    ASSUME IndInv, NEW c \in Clients, NEW list \in Lists, Clear(c, list)
    PROVE  IndInv'
<1>0. c \in Holders /\ Len(list) \in Nat
  BY ListFacts DEF Holders
<1>1. /\ rpc = "idle" /\ calls < MaxCalls /\ calls' = calls + 1
      /\ indx' = ClearList(indx, held, list, c).indx
      /\ held' = ClearList(indx, held, list, c).held
      /\ rpc' = rpc /\ call' = call /\ UNCHANGED <<taskVars, now>>
  BY DEF Clear
<1>2. /\ TypeOK /\ HoldInv /\ PromiseInv /\ UpdateInv /\ ActivationKept
      /\ IndexOK(indx) /\ call \in Calls /\ promise \in Histories /\ held \in Histories
      /\ now \in 0..LastTick /\ calls \in 0..MaxCalls /\ Single(indx)
  BY StateFacts
<1>3. Agree(indx, held)
  BY <1>1, <1>2 DEF HoldInv
<1>4. ClearInv(held, c, indx', held')
  BY <1>0, <1>1, <1>2, <1>3, ClearListFacts
<1>5. /\ IndexOK(indx') /\ Single(indx') /\ held' \in Histories /\ Agree(indx', held')
      /\ \A d \in Holders \ {c} : held'[d] = held[d]
  BY <1>4 DEF ClearInv
<1> DEFINE row == [t \in TPs |-> IF held'[c][t] = 0 THEN Never ELSE promise[c][t]]
<1>6. promise' = [promise EXCEPT ![c] = row]
  BY DEF Clear
<1>7. row \in [TPs -> Nat]
  BY <1>0, <1>2, NeverFacts DEF Histories
<1>8. \A t \in TPs : row[t] = Never \/ (row[t] = promise[c][t] /\ held'[c][t] # 0)
  OBVIOUS
<1> HIDE DEF row
<1>9. /\ promise' \in Histories /\ promise'[c] = row
      /\ \A d \in Holders : d # c => promise'[d] = promise[d]
  BY <1>0, <1>2, <1>6, <1>7 DEF Histories
<1>10. TypeOK'
  <2>1. calls' \in 0..MaxCalls
    BY <1>1, <1>2, TpAssumption
  <2>2. rpc' \in {"idle", "reply", "preselect", "stuck"} /\ call' \in Calls
    BY <1>1, <1>2
  <2> QED BY <1>1, <1>2, <1>5, <1>9, <2>1, <2>2, TypesKept
<1>11. HoldInv'
  <2>1. \A d \in Holders, t \in TPs : held'[d][t] > 0 => Matching(indx', t) # {}
    BY <1>5, AgreeHolds
  <2> QED BY <1>5, <2>1 DEF HoldInv
<1>12. PromiseInv'
  <2>1. ASSUME NEW d \in Holders, NEW t \in TPs, promise'[d][t] # Never
        PROVE  held'[d][t] > 0 /\ promise'[d][t] % 2 = 0
    <3>1. CASE d = c
      <4>1. promise'[d][t] = promise[d][t] /\ held'[d][t] # 0
        BY <1>8, <1>9, <2>1, <3>1
      <4>2. held'[d][t] \in Nat
        BY <1>5 DEF Histories
      <4>3. promise[d][t] % 2 = 0
        BY <1>2, <2>1, <4>1 DEF PromiseInv
      <4> QED BY <4>1, <4>2, <4>3
    <3>2. CASE d # c
      <4>1. promise'[d][t] = promise[d][t] /\ held'[d][t] = held[d][t]
        BY <1>5, <1>9, <3>2
      <4> QED BY <1>2, <2>1, <4>1 DEF PromiseInv
    <3> QED BY <3>1, <3>2
  <2>2. rpc' # "reply"
    BY <1>1
  <2> QED BY <2>1, <2>2 DEF PromiseInv
<1>13. UpdateInv' /\ ActivationKept'
  <2>1. Never > now + 1
    BY <1>2, NeverFacts
  <2>2. \A d \in Holders, t \in TPs :
            promise'[d][t] = promise[d][t] \/ promise'[d][t] > now + 1
    BY <1>8, <1>9, <2>1
  <2> QED BY <1>1, <1>2, <1>9, <2>2, PromiseLater
<1> QED BY <1>10, <1>11, <1>12, <1>13 DEF IndInv

\* cleartp_1_svc with _TP_CLEAR_ALL.
LEMMA ClearAllKeeps == ASSUME IndInv, ClearAll PROVE IndInv'
<1>1. /\ rpc = "idle" /\ calls < MaxCalls /\ calls' = calls + 1
      /\ indx' = EmptyIndex /\ held' = NoHolds /\ promise' = NoPromises
      /\ rpc' = "preselect" /\ call' = call /\ UNCHANGED <<taskVars, now>>
  BY DEF ClearAll
<1>2. /\ TypeOK /\ UpdateInv /\ ActivationKept
      /\ call \in Calls /\ now \in 0..LastTick /\ calls \in 0..MaxCalls
  BY StateFacts
<1>3. /\ IndexOK(indx') /\ Single(indx') /\ Agree(indx', held') /\ held' \in Histories
      /\ \A c \in Holders : \A t \in TPs : held'[c][t] = 0
  BY <1>1, EmptyIndexFacts
<1>4. /\ promise' \in Histories /\ Never > now + 1
      /\ \A c \in Holders : \A t \in TPs : promise'[c][t] = Never
  BY <1>1, <1>2, NeverFacts
<1>5. TypeOK'
  <2>1. calls' \in 0..MaxCalls
    BY <1>1, <1>2, TpAssumption
  <2>2. rpc' \in {"idle", "reply", "preselect", "stuck"} /\ call' \in Calls
    BY <1>1, <1>2
  <2> QED BY <1>1, <1>2, <1>3, <1>4, <2>1, <2>2, TypesKept
<1>6. HoldInv'
  BY <1>3 DEF HoldInv
<1>7. PromiseInv'
  BY <1>1, <1>4 DEF PromiseInv
<1>8. UpdateInv' /\ ActivationKept'
  <2>1. \A c \in Holders, t \in TPs :
            promise'[c][t] = promise[c][t] \/ promise'[c][t] > now + 1
    BY <1>4
  <2> QED BY <1>1, <1>2, <1>4, <2>1, PromiseLater
<1> QED BY <1>5, <1>6, <1>7, <1>8 DEF IndInv

\* cleanupTestpoints takes no use without timeout.
LEMMA CleanupKeeps == ASSUME IndInv, NEW j \in Interfaces, Cleanup(j) PROVE IndInv'
<1>1. /\ rpc # "stuck" /\ rpc' = rpc /\ call' = call /\ calls' = calls /\ held' = held
      /\ promise' = promise /\ UNCHANGED <<taskVars, now>>
      /\ indx' = [indx EXCEPT ![j] = [s \in Slots(j) |-> ReapSlot(indx[j][s])]]
  BY DEF Cleanup, Free, taskVars
<1>2. /\ TypeOK /\ HoldInv /\ PromiseInv /\ UpdateInv /\ ActivationKept
      /\ IndexOK(indx) /\ call \in Calls /\ promise \in Histories /\ held \in Histories
      /\ now \in 0..LastTick /\ calls \in 0..MaxCalls /\ Single(indx)
  BY StateFacts
<1>3. Agree(indx, held)
  BY <1>1, <1>2 DEF HoldInv
<1>4. IndexOK(indx') /\ Single(indx') /\ Agree(indx', held)
  BY <1>1, <1>2, <1>3, CleanupEffect
<1>5. TypeOK'
  <2>1. /\ rpc' \in {"idle", "reply", "preselect", "stuck"} /\ call' \in Calls
        /\ calls' \in 0..MaxCalls /\ held' \in Histories /\ promise' \in Histories
    <3>1. rpc \in {"idle", "reply", "preselect", "stuck"}
      BY <1>2 DEF TypeOK
    <3> QED BY <1>1, <1>2, <3>1
  <2> QED BY <1>1, <1>2, <1>4, <2>1, TypesKept
<1>6. HoldInv'
  <2>1. \A d \in Holders, t \in TPs : held[d][t] > 0 => Matching(indx', t) # {}
    BY <1>4, AgreeHolds
  <2> QED BY <1>1, <1>4, <2>1 DEF HoldInv
<1>7. PromiseInv'
  BY <1>1, <1>2 DEF PromiseInv
<1>8. UpdateInv' /\ ActivationKept'
  <2>1. \A c \in Holders, t \in TPs : promise'[c][t] = promise[c][t]
    BY <1>1
  <2>2. promise' \in Histories
    BY <1>1, <1>2
  <2> QED BY <1>1, <1>2, <2>1, <2>2, PromiseLater
<1> QED BY <1>5, <1>6, <1>7, <1>8 DEF IndInv

\* A test point whose promise is due has its slot.
LEMMA DueIsHeld ==
    ASSUME IndInv, NEW c \in Holders, NEW t \in TPs, promise[c][t] <= now + 1
    PROVE  Matching(indx, t) # {} /\ promise[c][t] % 2 = 0
<1>1. now \in 0..LastTick /\ promise[c][t] \in Nat /\ HoldInv /\ PromiseInv
  BY StateFacts
<1>2. promise[c][t] # Never
  <2>1. Never \in Nat /\ Never > now + 1
    BY <1>1, NeverFacts
  <2> QED BY <1>1, <2>1
<1>3. held[c][t] > 0 /\ promise[c][t] % 2 = 0
  BY <1>1, <1>2 DEF PromiseInv
<1> QED BY <1>1, <1>3 DEF HoldInv

\* The copy has every test point that is due.
LEMMA UpdateCopyKeeps == ASSUME IndInv, UpdateCopy PROVE IndInv'
<1> DEFINE new == [i \in 1..IndexLen[upd] |-> indx[upd][i - 1].id]
<1>1. /\ rpc' = rpc /\ call' = call /\ calls' = calls /\ held' = held /\ now' = now
      /\ promise' = promise /\ indx' = indx /\ upd' = upd /\ published' = published
      /\ now % 2 = 1 /\ upd \in Interfaces /\ copied' = new
  BY DEF UpdateCopy
<1>2. TypeOK /\ HoldInv /\ PromiseInv /\ UpdateInv /\ ActivationKept /\ IndexOK(indx)
  BY StateFacts
<1>3. IndexLen[upd] \in Nat
  BY <1>1, TpAssumption
<1>4. \A i \in 1..IndexLen[upd] : i - 1 \in Slots(upd)
  BY <1>3 DEF Slots
<1>5. \A i \in 1..IndexLen[upd] : indx[upd][i - 1].id \in Numbers
  <2>1. \A s \in Slots(upd) : indx[upd][s].id \in TPs \cup {NoTp}
    BY <1>1, <1>2, IndexFacts
  <2> QED BY <1>4, <2>1 DEF Numbers
<1>6. new \in [1..IndexLen[upd] -> Numbers]
  BY <1>5
<1>7. ASSUME NEW c \in Holders, NEW t \in TPs, promise[c][t] <= now + 1,
             InterfaceOf[t] = upd
      PROVE  t \in Range(new)
  <2>1. PICK s \in Matching(indx, t) : TRUE
    BY <1>7, DueIsHeld
  <2>2. s \in Slots(upd) /\ indx[upd][s].id = t
    BY <1>7, <2>1 DEF Matching
  <2>3. s + 1 \in 1..IndexLen[upd] /\ (s + 1) - 1 = s
    BY <1>3, <2>2 DEF Slots
  <2>4. new[s + 1] = t
    BY <2>2, <2>3
  <2>5. DOMAIN new = 1..IndexLen[upd]
    OBVIOUS
  <2> HIDE DEF new
  <2> QED BY <2>3, <2>4, <2>5 DEF Range
<1> HIDE DEF new
<1>8. TypeOK'
  <2>1. /\ IndexOK(indx) /\ rpc \in {"idle", "reply", "preselect", "stuck"}
        /\ call \in [clnt : Holders, list : Lists \cup {Preselect, <<>>},
                     timeout : Timeouts \cup {0}]
        /\ upd \in 0..Cardinality(Interfaces)
        /\ published \in [Interfaces -> Seq(Numbers)]
        /\ now \in 0..LastTick /\ calls \in 0..MaxCalls
        /\ held \in [Holders -> [TPs -> Nat]] /\ promise \in [Holders -> [TPs -> Nat]]
    BY <1>2 DEF TypeOK
  <2> QED BY <1>1, <1>6, <2>1 DEF TypeOK
<1>9. HoldInv'
  BY <1>1, <1>2 DEF HoldInv
<1>10. PromiseInv'
  BY <1>1, <1>2 DEF PromiseInv
<1>11. ActivationKept'
  BY <1>1, <1>2 DEF ActivationKept
<1>12. UpdateInv'
  <2>1. ASSUME rpc # "stuck", NEW c \in Holders, NEW t \in TPs,
               promise[c][t] <= now + 1
        PROVE  /\ now % 2 = 1 /\ InterfaceOf[t] < upd =>
                    t \in Range(published[InterfaceOf[t]])
               /\ InterfaceOf[t] = upd => t \in Range(new)
    BY <1>2, <1>7, <2>1 DEF UpdateInv
  <2> QED BY <1>1, <1>2, <2>1 DEF UpdateInv
<1> QED BY <1>8, <1>9, <1>10, <1>11, <1>12 DEF IndInv

\* The write moves what is due from the copy to shared memory.
LEMMA UpdateWriteKeeps == ASSUME IndInv, UpdateWrite PROVE IndInv'
<1>1. /\ rpc' = rpc /\ call' = call /\ calls' = calls /\ held' = held /\ now' = now
      /\ promise' = promise /\ indx' = indx /\ upd' = upd + 1 /\ copied' = NoCopy
      /\ copied # NoCopy /\ published' = [published EXCEPT ![upd] = copied]
  BY DEF UpdateWrite
<1>2. TypeOK /\ HoldInv /\ PromiseInv /\ UpdateInv /\ ActivationKept
  BY StateFacts
<1>3. /\ IndexOK(indx) /\ rpc \in {"idle", "reply", "preselect", "stuck"}
      /\ call \in [clnt : Holders, list : Lists \cup {Preselect, <<>>},
                   timeout : Timeouts \cup {0}]
      /\ published \in [Interfaces -> Seq(Numbers)]
      /\ now \in 0..LastTick /\ calls \in 0..MaxCalls
      /\ held \in [Holders -> [TPs -> Nat]] /\ promise \in [Holders -> [TPs -> Nat]]
  BY <1>2 DEF TypeOK
<1>4. upd \in Interfaces /\ copied \in [1..IndexLen[upd] -> Numbers]
  BY <1>1, <1>2 DEF TypeOK
<1>5. copied \in Seq(Numbers)
  <2>1. IndexLen[upd] \in Nat
    BY <1>4, TpAssumption
  <2>2. \A n \in Nat : \A s \in [1..n -> Numbers] : s \in Seq(Numbers)
    OBVIOUS
  <2> QED BY <1>4, <2>1, <2>2
<1>6. /\ published' \in [Interfaces -> Seq(Numbers)] /\ published'[upd] = copied
      /\ \A j \in Interfaces : j # upd => published'[j] = published[j]
  BY <1>1, <1>3, <1>4, <1>5
<1>7. Cardinality(Interfaces) \in Nat /\ Interfaces = 0..(Cardinality(Interfaces) - 1)
  BY TpAssumption, FS_CardinalityType
<1>8. upd \in Nat /\ upd + 1 \in 0..Cardinality(Interfaces)
  <2> HIDE DEF Interfaces
  <2>1. upd \in 0..(Cardinality(Interfaces) - 1)
    BY <1>4, <1>7
  <2> QED BY <1>7, <2>1
<1>9. TypeOK'
  BY <1>1, <1>3, <1>6, <1>8 DEF TypeOK
<1>10. HoldInv'
  BY <1>1, <1>2 DEF HoldInv
<1>11. PromiseInv'
  BY <1>1, <1>2 DEF PromiseInv
<1>12. ASSUME rpc # "stuck", NEW c \in Holders, NEW t \in TPs,
              promise[c][t] <= now + 1, InterfaceOf[t] = upd
       PROVE  t \in Range(published'[InterfaceOf[t]])
  <2>1. t \in Range(copied)
    BY <1>1, <1>2, <1>12 DEF UpdateInv
  <2> QED BY <1>6, <1>12, <2>1
<1>13. ActivationKept'
  <2>1. ASSUME rpc # "stuck", NEW c \in Holders, NEW t \in TPs, promise[c][t] <= now
        PROVE  t \in Range(published'[InterfaceOf[t]])
    <3>0. InterfaceOf[t] \in Interfaces
      BY TpFacts
    <3>1. CASE InterfaceOf[t] = upd
      <4>1. promise[c][t] \in Nat /\ now \in Nat
        BY <1>3
      <4>2. promise[c][t] <= now + 1
        BY <2>1, <4>1
      <4> QED BY <1>12, <2>1, <3>1, <4>2
    <3>2. CASE InterfaceOf[t] # upd
      <4>1. t \in Range(published[InterfaceOf[t]])
        BY <1>2, <2>1 DEF ActivationKept
      <4> QED BY <1>6, <3>0, <3>2, <4>1
    <3> QED BY <3>1, <3>2
  <2> QED BY <1>1, <2>1 DEF ActivationKept
<1>14. UpdateInv'
  <2>1. ASSUME rpc # "stuck", NEW c \in Holders, NEW t \in TPs,
               promise[c][t] <= now + 1, now % 2 = 1, InterfaceOf[t] < upd + 1
        PROVE  t \in Range(published'[InterfaceOf[t]])
    <3>0. InterfaceOf[t] \in Interfaces /\ InterfaceOf[t] \in Nat
      BY TpFacts
    <3>1. CASE InterfaceOf[t] = upd
      BY <1>12, <2>1, <3>1
    <3>2. CASE InterfaceOf[t] # upd
      <4>1. InterfaceOf[t] < upd
        BY <1>8, <2>1, <3>0, <3>2
      <4>2. t \in Range(published[InterfaceOf[t]])
        BY <1>2, <2>1, <4>1 DEF UpdateInv
      <4> QED BY <1>6, <3>0, <3>2, <4>2
    <3> QED BY <3>1, <3>2
  <2>2. now % 2 = 1
    BY <1>1, <1>2 DEF UpdateInv
  <2> QED BY <1>1, <2>1, <2>2 DEF UpdateInv
<1> QED BY <1>9, <1>10, <1>11, <1>13, <1>14 DEF IndInv

\* What becomes due has been written: in the middle of the second by the
\* update, before it because promises begin with a second.  If the service is
\* stuck nothing is claimed.
LEMMA TickKeeps == ASSUME IndInv, Tick PROVE IndInv'
<1>1. /\ rpc' = rpc /\ call' = call /\ calls' = calls /\ held' = held /\ now' = now + 1
      /\ promise' = promise /\ indx' = indx /\ copied' = copied
      /\ published' = published /\ now < LastTick
      /\ upd' = IF upd = Cardinality(Interfaces) THEN 0 ELSE upd
      /\ now % 2 = 1 => copied = NoCopy
      /\ rpc # "stuck" /\ now % 2 = 1 => upd = Cardinality(Interfaces)
  BY DEF Tick, Free, UpdateDone
<1>2. TypeOK /\ HoldInv /\ PromiseInv /\ UpdateInv /\ ActivationKept
  BY StateFacts
<1>3. /\ IndexOK(indx) /\ rpc \in {"idle", "reply", "preselect", "stuck"}
      /\ call \in [clnt : Holders, list : Lists \cup {Preselect, <<>>},
                   timeout : Timeouts \cup {0}]
      /\ published \in [Interfaces -> Seq(Numbers)]
      /\ now \in 0..LastTick /\ calls \in 0..MaxCalls
      /\ held \in [Holders -> [TPs -> Nat]] /\ promise \in [Holders -> [TPs -> Nat]]
  BY <1>2 DEF TypeOK
<1>4. /\ Cardinality(Interfaces) \in Nat /\ Interfaces = 0..(Cardinality(Interfaces) - 1)
      /\ LastTick \in Nat
  BY TpAssumption, FS_CardinalityType
<1>5. \A j \in Interfaces : j \in Nat /\ j < Cardinality(Interfaces)
  <2> HIDE DEF Interfaces
  <2>1. \A m \in Nat : \A j \in 0..(m - 1) : j \in Nat /\ j < m
    OBVIOUS
  <2> QED BY <1>4, <2>1
<1>6. copied = NoCopy
  BY <1>1, <1>2 DEF UpdateInv
<1>7. now \in Nat /\ now + 1 \in 0..LastTick
  BY <1>1, <1>3, <1>4
<1>8. TypeOK'
  <2>1. upd \in 0..Cardinality(Interfaces)
    BY <1>2 DEF TypeOK
  <2>2. upd' \in 0..Cardinality(Interfaces)
    BY <1>1, <1>4, <2>1
  <2> QED BY <1>1, <1>3, <1>6, <1>7, <2>2 DEF TypeOK
<1>9. HoldInv'
  BY <1>1, <1>2 DEF HoldInv
<1>10. PromiseInv'
  BY <1>1, <1>2 DEF PromiseInv
<1>11. UpdateInv'
  <2>1. \A t \in TPs : ~(InterfaceOf[t] < 0)
    <3>1. \A t \in TPs : InterfaceOf[t] \in Nat
      BY <1>5, TpFacts
    <3> QED BY <3>1
  <2>2. rpc # "stuck" => upd' = 0
    BY <1>1, <1>2 DEF UpdateInv
  <2> QED BY <1>1, <1>6, <2>1, <2>2 DEF UpdateInv
<1>12. ActivationKept'
  <2>1. ASSUME rpc # "stuck", NEW c \in Holders, NEW t \in TPs, promise[c][t] <= now + 1
        PROVE  t \in Range(published[InterfaceOf[t]])
    <3>0. InterfaceOf[t] \in Interfaces /\ promise[c][t] \in Nat
      BY <1>3, TpFacts
    <3>1. CASE now % 2 = 1
      <4>1. InterfaceOf[t] < upd
        BY <1>1, <1>5, <2>1, <3>0, <3>1
      <4> QED BY <1>2, <2>1, <3>1, <4>1 DEF UpdateInv
    <3>2. CASE now % 2 # 1
      <4>1. promise[c][t] % 2 = 0
        BY <2>1, DueIsHeld
      <4>2. promise[c][t] # now + 1
        BY <1>7, <3>2, <4>1
      <4>3. promise[c][t] <= now
        BY <1>7, <2>1, <3>0, <4>2
      <4> QED BY <1>2, <2>1, <4>3 DEF ActivationKept
    <3> QED BY <3>1, <3>2
  <2> QED BY <1>1, <2>1 DEF ActivationKept
<1> QED BY <1>8, <1>9, <1>10, <1>11, <1>12 DEF IndInv

\* Every step keeps the invariant.
LEMMA NextKeeps == IndInv /\ [Next]_vars => IndInv'
<1> SUFFICES ASSUME IndInv, [Next]_vars PROVE IndInv'
  OBVIOUS
<1>1. ASSUME NEW c \in Clients, NEW list \in Lists, NEW timeout \in Timeouts,
             Request(c, list, timeout)
      PROVE  IndInv'
  BY <1>1, RequestKeeps
<1>2. ASSUME NEW c \in Clients, NEW list \in Lists, Clear(c, list) PROVE IndInv'
  BY <1>2, ClearKeeps
<1>3. CASE ClearAll
  BY <1>3, ClearAllKeeps
<1>4. CASE Reply
  BY <1>4, ReplyKeeps
<1>5. CASE SetPreselect
  BY <1>5, SetPreselectKeeps
<1>6. ASSUME NEW j \in Interfaces, Cleanup(j) PROVE IndInv'
  BY <1>6, CleanupKeeps
<1>7. CASE UpdateCopy
  BY <1>7, UpdateCopyKeeps
<1>8. CASE UpdateWrite
  BY <1>8, UpdateWriteKeeps
<1>9. CASE Tick
  BY <1>9, TickKeeps
<1>10. CASE UNCHANGED vars
  <2>1. /\ rpc' = rpc /\ call' = call /\ calls' = calls /\ held' = held /\ now' = now
        /\ promise' = promise /\ indx' = indx /\ upd' = upd /\ copied' = copied
        /\ published' = published
    BY <1>10 DEF vars
  <2>2. TypeOK /\ HoldInv /\ PromiseInv /\ UpdateInv /\ ActivationKept
    BY StateFacts
  <2>3. TypeOK'
    BY <2>1, <2>2 DEF TypeOK
  <2>4. HoldInv' /\ PromiseInv'
    BY <2>1, <2>2 DEF HoldInv, PromiseInv
  <2>5. UpdateInv' /\ ActivationKept'
    BY <2>1, <2>2 DEF UpdateInv, ActivationKept
  <2> QED BY <2>3, <2>4, <2>5 DEF IndInv
<1> QED BY <1>1, <1>2, <1>3, <1>4, <1>5, <1>6, <1>7, <1>8, <1>9, <1>10 DEF Next

-----------------------------------------------------------------------------
(* The theorems *)

\* The invariant that the others rest on: an index in order that agrees with
\* the history of uses, promises only for what is held, and an update that has
\* copied what is due, whatever order calls, timeouts and updates come in.
THEOREM TestPointInvariance == Spec => []IndInv
<1>1. Init => IndInv
  BY InitHolds
<1>2. IndInv /\ [Next]_vars => IndInv'
  BY NextKeeps
<1> QED BY <1>1, <1>2, PTL DEF Spec

\* Types: a slot of the index that requesttp_1_svc, cleartp_1_svc and
\* cleanupTestpoints work on has a test point exactly when it has users, at
\* most _TP_MAX_USER, for any lists and timeouts.
THEOREM TestPointTypes == Spec => []TypeOK
<1>1. IndInv => TypeOK
  BY DEF IndInv
<1> QED BY <1>1, TestPointInvariance, PTL

\* A test point is recorded in one slot, however the searches, clears and
\* timeouts of any number of clients leave holes in the index.
THEOREM TestPointOnce == Spec => []OneSlot
<1>1. IndInv => OneSlot
  <2> SUFFICES ASSUME IndInv, NEW t \in TPs
               PROVE  Cardinality(Matching(indx, t)) <= 1
    BY DEF OneSlot
  <2>1. \A r, s \in Matching(indx, t) : r = s
    BY StateFacts, Zenon DEF Single
  <2>2. CASE Matching(indx, t) = {}
    BY <2>2, FS_EmptySet
  <2>3. CASE Matching(indx, t) # {}
    <3>1. PICK s : s \in Matching(indx, t)
      BY <2>3
    <3>2. Matching(indx, t) = {s}
      BY <2>1, <3>1
    <3>3. Cardinality(Matching(indx, t)) = 1
      BY <3>2, FS_Singleton
    <3> QED BY <3>3
  <2> QED BY <2>2, <2>3
<1> QED BY <1>1, TestPointInvariance, PTL

\* The uses in the index, as HoldsKept counts them, are those of one slot.
LEMMA UntimedUsesFacts ==
    ASSUME IndInv, rpc # "stuck", NEW c \in Holders, NEW t \in TPs
    PROVE  Cardinality(UntimedUses(c, t)) = held[c][t]
<1> DEFINE j == InterfaceOf[t]
           U == UntimedUses(c, t)
<1>1. IndexOK(indx) /\ Single(indx) /\ j \in Interfaces
  BY StateFacts, TpFacts
<1>2. Agree(indx, held)
  BY StateFacts DEF HoldInv
<1>3. /\ Matching(indx, t) = {} => held[c][t] = 0
      /\ \A s \in Matching(indx, t) : Cardinality(Mine(indx[j][s].users, c)) = held[c][t]
  BY <1>2, Zenon DEF Agree
<1>4. U = {u \in {<<s, k>> : s \in Slots(j), k \in 1..MaxUser} :
            /\ indx[j][u[1]].id = t /\ u[2] \in DOMAIN indx[j][u[1]].users
            /\ indx[j][u[1]].users[u[2]].clnt = c
            /\ indx[j][u[1]].users[u[2]].timeout = 0}
  BY DEF UntimedUses
<1> HIDE DEF U, j
<1>5. \A s \in Slots(j), k \in 1..MaxUser :
         <<s, k>> \in U <=> indx[j][s].id = t /\ k \in Mine(indx[j][s].users, c)
  BY <1>4 DEF Mine
<1>6. \A u \in U : \E s \in Slots(j), k \in 1..MaxUser : u = <<s, k>>
  BY <1>4
<1>7. \A s \in Slots(j) : s \in Matching(indx, t) <=> indx[j][s].id = t
  BY DEF Matching, j
<1>8. CASE Matching(indx, t) = {}
  <2>1. U = {}
    <3> SUFFICES ASSUME NEW u \in U PROVE FALSE
      OBVIOUS
    <3>1. PICK r \in Slots(j), k \in 1..MaxUser : u = <<r, k>>
      BY <1>6
    <3>2. indx[j][r].id = t
      BY <1>5, <3>1
    <3> QED BY <1>7, <1>8, <3>2
  <2> QED BY <1>3, <1>8, <2>1, FS_EmptySet DEF U
<1>9. CASE Matching(indx, t) # {}
  <2>1. PICK s : s \in Matching(indx, t)
    BY <1>9
  <2>2. s \in Slots(j) /\ \A r \in Slots(j) : indx[j][r].id = t => r = s
    <3>1. s \in Slots(j)
      BY <2>1 DEF Matching, j
    <3>2. \A r \in Matching(indx, t) : r = s
      BY <1>1, <2>1, Zenon DEF Single
    <3> QED BY <1>7, <3>1, <3>2
  <2>3. indx[j][s].id = t
    BY <1>7, <2>1, <2>2
  <2> DEFINE M == Mine(indx[j][s].users, c)
             f == [k \in M |-> <<s, k>>]
  <2>4. /\ indx[j][s].users \in Seq(Use)
        /\ Len(indx[j][s].users) \in Nat /\ Len(indx[j][s].users) <= MaxUser
    BY <1>1, <2>2, IndexFacts
  <2>5. IsFiniteSet(M) /\ M \in SUBSET (1..MaxUser)
    <3>1. IsFiniteSet(M) /\ M \in SUBSET (1..Len(indx[j][s].users))
      BY <2>4, MineFinite
    <3>2. MaxUser \in Nat
      BY TpAssumption
    <3>3. \A n \in Nat : n <= MaxUser => 1..n \in SUBSET (1..MaxUser)
      BY <3>2
    <3> HIDE DEF M
    <3> QED BY <2>4, <3>1, <3>3
  <2>6. \A k \in M : <<s, k>> \in U
    BY <1>5, <2>2, <2>3, <2>5
  <2>7. \A u \in U : \E k \in M : u = <<s, k>>
    <3> SUFFICES ASSUME NEW u \in U PROVE \E k \in M : u = <<s, k>>
      OBVIOUS
    <3>1. PICK r \in Slots(j), k \in 1..MaxUser : u = <<r, k>>
      BY <1>6
    <3>2. indx[j][r].id = t /\ k \in Mine(indx[j][r].users, c)
      BY <1>5, <3>1
    <3>3. r = s
      BY <2>2, <3>2
    <3> QED BY <3>1, <3>2, <3>3
  <2> HIDE DEF M
  <2>8. f \in Bijection(M, U)
    <3>1. f \in [M -> U]
      BY <2>6
    <3>2. \A k, m \in M : f[k] = f[m] => k = m
      OBVIOUS
    <3>3. \A u \in U : \E k \in M : f[k] = u
      BY <2>7
    <3> QED BY <3>1, <3>2, <3>3 DEF Bijection, Injection, Surjection, IsInjective
  <2>9. ExistsBijection(M, U)
    BY <2>8 DEF ExistsBijection
  <2>10. Cardinality(U) = Cardinality(M)
    BY <2>5, <2>9, FS_Bijection
  <2>11. Cardinality(M) = held[c][t]
    BY <1>3, <2>1 DEF M
  <2> QED BY <2>10, <2>11 DEF U
<1> QED BY <1>8, <1>9

\* A use without timeout stays until its own client clears it: no clear of
\* another client, no timeout of another use and no failed search takes it.
THEOREM TestPointHolds == Spec => []HoldsKept
<1>1. IndInv => HoldsKept
  BY UntimedUsesFacts DEF HoldsKept
<1> QED BY <1>1, TestPointInvariance, PTL

\* The activation time that requesttp_1_svc returns is kept by
\* updateTestpoints, for any number of interfaces and any interleaving of
\* requests with the copies and writes of the update, until a request that
\* fails half way leaves servermux taken.
THEOREM TestPointActivation == Spec => []ActivationKept
<1>1. IndInv => ActivationKept
  BY DEF IndInv
<1> QED BY <1>1, TestPointInvariance, PTL
=============================================================================
