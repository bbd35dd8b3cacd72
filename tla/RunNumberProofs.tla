-------------------------- MODULE RunNumberProofs --------------------------
(***************************************************************************)
(* Proofs about the run number server, for any number of clients, hashes   *)
(* and restarts, under two hypotheses: the hashes are text (TextOnly) and  *)
(* the file can be written (~SaveMayFail).  Without either of them the     *)
(* results are false (runs RunNumberBinary and RunNumberUnsaved).          *)
(***************************************************************************)
EXTENDS RunNumber, NumberLemmas, TLAPS

\* save_state writes two digits for a byte.
LEMMA ToHexType ==
    ASSUME NEW h \in Seq(0..255)
    PROVE  ToHex(h) \in Seq(0..15) /\ Len(ToHex(h)) = 2 * Len(h)
<1>1. \A i \in 1..(2 * Len(h)) :
        /\ i % 2 = 1 => (i + 1) \div 2 \in 1..Len(h)
        /\ i % 2 # 1 => i \div 2 \in 1..Len(h)
  OBVIOUS
<1>2. \A x \in 0..255 : x \div 16 \in 0..15 /\ x % 16 \in 0..15
  OBVIOUS
<1>3. \A i \in 1..(2 * Len(h)) :
        (IF i % 2 = 1 THEN h[(i + 1) \div 2] \div 16 ELSE h[i \div 2] % 16)
            \in 0..15
  <2>1. TAKE i \in 1..(2 * Len(h))
  <2>2. CASE i % 2 = 1
    <3>1. h[(i + 1) \div 2] \in 0..255
      BY <1>1, <2>2, Element
    <3> QED BY <1>2, <2>2, <3>1
  <2>3. CASE i % 2 # 1
    <3>1. h[i \div 2] \in 0..255
      BY <1>1, <2>3, Element
    <3> QED BY <1>2, <2>3, <3>1
  <2> QED BY <2>2, <2>3
<1> QED BY <1>3 DEF ToHex

\* Decimal digits survive save_state and get_state.
LEMMA RoundTrip ==
    ASSUME NEW h \in Hashes, TextOnly
    PROVE  hex_to_bin_str(ToHex(h)) = h
<1>1. h \in Seq(0..255)
  BY HashesAssumption
<1> DEFINE x == ToHex(h)
<1>2. Len(x) = 2 * Len(h) /\ x \in Seq(0..15)
  BY <1>1, ToHexType
<1>3. Len(x) \div 2 = Len(h)
  BY <1>1, <1>2
<1>4. ASSUME NEW i \in 1..Len(h)
      PROVE  16 * hex_char_to_nibble(x[2 * i - 1])
                + hex_char_to_nibble(x[2 * i]) = h[i]
  <2>1. /\ 2 * i - 1 \in 1..(2 * Len(h)) /\ 2 * i \in 1..(2 * Len(h))
        /\ (2 * i - 1) % 2 = 1 /\ (2 * i) % 2 # 1
        /\ ((2 * i - 1) + 1) \div 2 = i /\ (2 * i) \div 2 = i
    BY <1>1
  <2>2. x[2 * i - 1] = h[i] \div 16 /\ x[2 * i] = h[i] % 16
    BY <2>1 DEF ToHex
  <2>3. h[i] \in 0..255
    BY <1>1, Element
  <2>4. h[i] \div 16 < 10 /\ h[i] % 16 < 10
    BY <1>1 DEF TextOnly
  <2>5. ASSUME NEW b \in 0..255
        PROVE  16 * (b \div 16) + (b % 16) = b
    BY SMTT(30)
  <2> HIDE DEF x
  <2> QED BY <2>2, <2>3, <2>4, <2>5 DEF hex_char_to_nibble
<1> HIDE DEF x
<1>5. hex_to_bin_str(x) = [i \in 1..Len(h) |-> h[i]]
  BY <1>3, <1>4 DEF hex_to_bin_str
<1>6. h = [i \in 1..Len(h) |-> h[i]]
  BY <1>1
<1> QED BY <1>5, <1>6 DEF x

\* What the server reads back when it starts is well formed.
LEMMA GetStateType ==
    ASSUME TypeOK
    PROVE  get_state \in [value : 0..MaxNumber, hash : Seq(0..255)]
<1>1. ASSUME NEW x \in Seq(0..15)
      PROVE  hex_to_bin_str(x) \in Seq(0..255)
  <2>1. \A a, b \in 0..15 :
          16 * hex_char_to_nibble(a) + hex_char_to_nibble(b) \in 0..255
    BY DEF hex_char_to_nibble
  <2>2. \A i \in 1..(Len(x) \div 2) : x[2 * i - 1] \in 0..15 /\ x[2 * i] \in 0..15
    OBVIOUS
  <2>3. Len(x) \div 2 \in Nat
    OBVIOUS
  <2>4. \A i \in 1..(Len(x) \div 2) :
          16 * hex_char_to_nibble(x[2 * i - 1]) + hex_char_to_nibble(x[2 * i])
              \in 0..255
    BY <2>1, <2>2
  <2> QED BY <2>3, <2>4 DEF hex_to_bin_str
<1>2. CASE file = <<>>
  BY <1>2, BoundsAssumption DEF get_state, Fresh
<1>3. CASE file # <<>>
  <2>1. file[Len(file)] \in [value : 1..MaxNumber, hex : Seq(0..15)]
    <3>1. file \in Seq([value : 1..MaxNumber, hex : Seq(0..15)])
      BY DEF TypeOK
    <3>2. Len(file) \in 1..Len(file)
      BY <1>3, <3>1
    <3> QED BY <3>1, <3>2, Element
  <2> QED BY <1>1, <1>3, <2>1, BoundsAssumption DEF get_state
<1> QED BY <1>2, <1>3

\* A save that succeeds is what the next start reads.
LEMMA SavedState ==
    ASSUME TypeOK, TextOnly, NEW h \in Hashes, NEW v \in 1..MaxNumber,
           file' = Append(file, [value |-> v, hex |-> ToHex(h)])
    PROVE  /\ file' \in Seq([value : 1..MaxNumber, hex : Seq(0..15)])
           /\ get_state' = [value |-> v, hash |-> h]
<1> DEFINE l == [value |-> v, hex |-> ToHex(h)]
<1>1. l \in [value : 1..MaxNumber, hex : Seq(0..15)]
  BY HashesAssumption, ToHexType
<1>2. file \in Seq([value : 1..MaxNumber, hex : Seq(0..15)])
  BY DEF TypeOK
<1>3. file' = Append(file, l)
  OBVIOUS
<1>4. l.value = v /\ l.hex = ToHex(h)
  OBVIOUS
<1> HIDE DEF l
<1>5. /\ file' \in Seq([value : 1..MaxNumber, hex : Seq(0..15)])
      /\ file' # <<>> /\ file'[Len(file')] = l
  BY <1>1, <1>2, <1>3
<1>6. hex_to_bin_str(ToHex(h)) = h
  BY RoundTrip
<1> QED BY <1>4, <1>5, <1>6 DEF get_state

-----------------------------------------------------------------------------
(* The actions *)

\* The steps that neither touch the file nor hand out a number.
LEMMA QuietStore ==
    ASSUME StoreInv, IssuedInv, UNCHANGED <<file, state, up, issued>>,
           saving' = NoRequest <=> saving = NoRequest,
           saving # NoRequest => saving'[2] = saving[2]
    PROVE  StoreInv' /\ IssuedInv'
<1>1. get_state' = get_state
  BY DEF get_state
<1> QED
  BY <1>1 DEF StoreInv, IssuedInv, NumberIdentifiesHash

\* Sending a request changes neither the file nor the numbers.
LEMMA RequestKeeps ==
    ASSUME IndInv, NEW c \in Clients, Request(c)
    PROVE  IndInv'
<1>1. StoreInv' /\ IssuedInv'
  BY QuietStore DEF IndInv, Request, serverVars
<1>2. TypeOK'
  BY DEF IndInv, TypeOK, Request, serverVars, clientVars
<1>3. \A r \in requests \cup {saving} : r[1] # c
  BY DEF IndInv, ClientInv, Request
<1>4. ClientInv'
  BY <1>3, ClientsAssumption DEF IndInv, TypeOK, ClientInv, ClientNumberIsItsOwn,
     Request, clientVars
<1> QED BY <1>1, <1>2, <1>4 DEF IndInv

\* What a response does to the connections, for whatever request r is handled.
LEMMA RespondKeeps ==
    ASSUME TypeOK, NEW r \in (Clients \cup {NoClient}) \X Hashes,
           NEW n \in 0..MaxNumber, Respond(r[1], n)
    PROVE  /\ conn' \in [Clients -> {"closed", "waiting", "answered"}]
           /\ resp' \in [Clients -> 0..MaxNumber]
           /\ \A c \in Clients : c # r[1] => conn'[c] = conn[c] /\ resp'[c] = resp[c]
           /\ r[1] \in Clients => conn'[r[1]] = "answered" /\ resp'[r[1]] = n
<1> DEFINE c == r[1]
<1>1. c \in Clients \cup {NoClient}
  OBVIOUS
<1>2. /\ conn \in [Clients -> {"closed", "waiting", "answered"}]
      /\ resp \in [Clients -> 0..MaxNumber]
  BY DEF TypeOK
<1>3. IF c = NoClient THEN UNCHANGED <<conn, resp>>
      ELSE /\ conn' = [conn EXCEPT ![c] = "answered"]
           /\ resp' = [resp EXCEPT ![c] = n]
  BY DEF Respond
<1> HIDE DEF c
<1>4. /\ conn' \in [Clients -> {"closed", "waiting", "answered"}]
      /\ resp' \in [Clients -> 0..MaxNumber]
  BY <1>1, <1>2, <1>3
<1>5. \A d \in Clients : d # c => conn'[d] = conn[d] /\ resp'[d] = resp[d]
  BY <1>1, <1>2, <1>3
<1>6. c \in Clients => conn'[c] = "answered" /\ resp'[c] = n
  BY <1>2, <1>3, ClientsAssumption
<1> QED BY <1>4, <1>5, <1>6 DEF c

\* The clients after request r has been handled with answer n.
LEMMA HandledKeeps ==
    ASSUME TypeOK, ClientInv, NEW r \in (Clients \cup {NoClient}) \X Hashes,
           NEW n \in 0..MaxNumber, Respond(r[1], n),
           (r \in requests /\ saving = NoRequest) \/ r = saving,
           requests' \subseteq requests, r[1] \in Clients => r \notin requests',
           saving' = NoRequest, UNCHANGED clientVars,
           issued \subseteq issued', n = 0 \/ <<r[2], n>> \in issued'
    PROVE  ClientInv'
<1>1. /\ \A c \in Clients : c # r[1] => conn'[c] = conn[c] /\ resp'[c] = resp[c]
      /\ r[1] \in Clients => conn'[r[1]] = "answered" /\ resp'[r[1]] = n
  BY RespondKeeps
<1>2. r[1] \in Clients => r[2] = hash[r[1]]
  BY DEF ClientInv
<1>3. \A q \in requests' : q[1] \in Clients => q[1] # r[1]
  <2>1. SUFFICES ASSUME NEW q \in requests, q \in requests',
                        q[1] \in Clients, q[1] = r[1]
                 PROVE  FALSE
    OBVIOUS
  <2>2. q[2] = hash[q[1]] /\ q \in (Clients \cup {NoClient}) \X Hashes
    BY <2>1 DEF ClientInv, TypeOK
  <2>3. q = <<q[1], q[2]>> /\ r = <<r[1], r[2]>>
    BY <2>2
  <2>4. q = r \/ (r = saving /\ <<q[1], hash[q[1]]>> \in requests)
    BY <1>2, <2>1, <2>2, <2>3
  <2>5. CASE q = r
    BY <2>1, <2>5
  <2>6. CASE r = saving /\ <<q[1], hash[q[1]]>> \in requests
    BY <2>1, <2>6 DEF ClientInv
  <2> QED BY <2>4, <2>5, <2>6
<1>4. NoRequest[1] \notin Clients
  BY ClientsAssumption DEF NoRequest
<1>5. /\ \A q \in requests' \cup {saving'} : q[1] \in Clients =>
           q[2] = hash'[q[1]] /\ conn'[q[1]] = "waiting"
      /\ \A c \in Clients : <<c, hash'[c]>> \in requests' => saving'[1] # c
  BY <1>1, <1>3, <1>4 DEF ClientInv, clientVars
<1>6. \A c \in Clients : conn'[c] = "answered" /\ resp'[c] # 0 =>
        <<hash'[c], resp'[c]>> \in issued'
  BY <1>1, <1>2 DEF ClientInv, clientVars
<1>7. ClientNumberIsItsOwn'
  BY DEF ClientInv, ClientNumberIsItsOwn, clientVars
<1> QED BY <1>5, <1>6, <1>7 DEF ClientInv

\* A request without a hash gets number 0, which is never issued.
LEMMA RefuseKeeps ==
    ASSUME IndInv, NEW r \in requests, Refuse(r)
    PROVE  IndInv'
<1>1. StoreInv' /\ IssuedInv'
  BY QuietStore DEF IndInv, Refuse, serverVars
<1>2. r \in (Clients \cup {NoClient}) \X Hashes /\ 0 \in 0..MaxNumber
  BY BoundsAssumption DEF IndInv, TypeOK
<1>3. TypeOK'
  BY <1>2, RespondKeeps DEF IndInv, TypeOK, Refuse, serverVars, clientVars
<1>4. ClientInv'
  BY <1>2, HandledKeeps DEF IndInv, Refuse
<1> QED BY <1>1, <1>3, <1>4 DEF IndInv

\* The last hash gets the last number again.
LEMMA AnswerKnownKeeps ==
    ASSUME IndInv, NEW r \in requests, AnswerKnown(r)
    PROVE  IndInv'
<1>1. r \in (Clients \cup {NoClient}) \X Hashes /\ state.value \in 0..MaxNumber
  BY DEF IndInv, TypeOK
<1>2. TypeOK'
  BY <1>1, RespondKeeps DEF IndInv, TypeOK, AnswerKnown, serverVars, clientVars
<1>3. ClientInv'
  BY <1>1, HandledKeeps DEF IndInv, AnswerKnown
<1>4. get_state' = get_state /\ state = get_state /\ saving' = NoRequest
  BY DEF get_state, AnswerKnown, IndInv, StoreInv
<1>5. StoreInv'
  BY <1>4 DEF IndInv, StoreInv, AnswerKnown, serverVars
<1>6. IssuedInv'
  <2>1. issued' = issued \cup {<<state.hash, state.value>>}
    BY DEF AnswerKnown
  <2>2. state.value \in Nat
    BY <1>1, BoundsAssumption
  <2> QED
    BY <1>4, <2>1, <2>2 DEF IndInv, IssuedInv, NumberIdentifiesHash
<1> QED BY <1>2, <1>3, <1>5, <1>6 DEF IndInv

\* The number that is saved is greater than all that were issued.
LEMMA SaveKeeps ==
    ASSUME IndInv, TextOnly, ~SaveMayFail, NEW r \in requests, Save(r)
    PROVE  IndInv'
<1>1. r \in (Clients \cup {NoClient}) \X Hashes /\ r[2] \in Hashes
  BY DEF IndInv, TypeOK
<1>2. state.value + 1 \in 1..MaxNumber /\ state.value \in Nat
  BY BoundsAssumption DEF IndInv, TypeOK, Save
<1>3. /\ file' \in Seq([value : 1..MaxNumber, hex : Seq(0..15)])
      /\ get_state' = [value |-> state.value + 1, hash |-> r[2]]
  BY <1>1, <1>2, SavedState DEF IndInv, Save
<1>4. TypeOK'
  BY <1>1, <1>3 DEF IndInv, TypeOK, Save, serverVars, clientVars
<1>5. r[2] # <<>>
  BY <1>1, HashesAssumption DEF Save
<1>6. state = get_state /\ saving' = r /\ r # NoRequest /\ up' /\ state' = state
  BY <1>5 DEF IndInv, StoreInv, Save, serverVars, NoRequest
<1>7. StoreInv'
  BY <1>3, <1>5, <1>6 DEF StoreInv
<1>8. IssuedInv'
  <2>1. issued' = issued
    BY DEF Save
  <2>2. \A i \in issued : i[2] \in Nat /\ i[2] <= state.value
    BY <1>6 DEF IndInv, IssuedInv
  <2>3. get_state'.value = state.value + 1
    BY <1>3
  <2> QED
    BY <1>2, <1>6, <2>1, <2>2, <2>3 DEF IndInv, IssuedInv, NumberIdentifiesHash
<1>9. ClientInv'
  <2>1. \A c \in Clients : <<c, hash[c]>> \in requests' => r[1] # c
    <3>1. TAKE c \in Clients
    <3>2. r[1] = c => r[2] = hash[c]
      BY DEF IndInv, ClientInv
    <3>3. r = <<r[1], r[2]>>
      BY <1>1
    <3> QED BY <3>2, <3>3 DEF Save
  <2> QED
    BY <1>6, <2>1 DEF IndInv, ClientInv, ClientNumberIsItsOwn, Save, clientVars
<1> QED BY <1>4, <1>7, <1>8, <1>9 DEF IndInv

\* The number handed out is the one on disk, for the hash on disk.
LEMMA SwapKeeps ==
    ASSUME IndInv, Swap
    PROVE  IndInv'
<1>1. saving \in (Clients \cup {NoClient}) \X Hashes
  BY DEF IndInv, TypeOK, Swap
<1>2. /\ get_state' = get_state
      /\ get_state = [value |-> state.value + 1, hash |-> saving[2]]
  BY DEF IndInv, StoreInv, Swap, get_state
<1>3. /\ state.value + 1 \in 0..MaxNumber /\ state.value + 1 \in Nat
      /\ saving[2] \in Seq(0..255)
  <2>1. get_state \in [value : 0..MaxNumber, hash : Seq(0..255)]
    BY GetStateType DEF IndInv
  <2> QED BY <1>2, <2>1, BoundsAssumption
<1>4. TypeOK'
  BY <1>1, <1>3, RespondKeeps DEF IndInv, TypeOK, Swap, clientVars
<1>5. saving[1] \in Clients => saving \notin requests
  <2>1. saving = <<saving[1], saving[2]>>
    BY <1>1
  <2> QED BY <2>1 DEF IndInv, ClientInv
<1>6. ClientInv'
  <2>1. /\ Respond(saving[1], state.value + 1) /\ requests' = requests
        /\ saving' = NoRequest /\ UNCHANGED clientVars
        /\ issued \subseteq issued' /\ <<saving[2], state.value + 1>> \in issued'
    BY DEF Swap
  <2> QED BY <1>1, <1>3, <1>5, <2>1, HandledKeeps DEF IndInv
<1>7. state' = get_state' /\ saving' = NoRequest
  BY <1>2 DEF Swap
<1>8. StoreInv'
  BY <1>7 DEF StoreInv
<1>9. IssuedInv'
  <2>1. issued' = issued \cup {<<saving[2], state.value + 1>>}
    BY DEF Swap
  <2>2. \A i \in issued : i[2] \in Nat /\ i[2] <= state.value
    BY DEF IndInv, IssuedInv, Swap
  <2>3. state.value \in Nat
    BY BoundsAssumption DEF IndInv, TypeOK
  <2> QED
    BY <1>2, <1>3, <1>7, <2>1, <2>2, <2>3
       DEF IndInv, IssuedInv, NumberIdentifiesHash
<1> QED BY <1>4, <1>6, <1>8, <1>9 DEF IndInv

\* A crash of the server loses its memory and its connections only.
LEMMA CrashKeeps ==
    ASSUME IndInv, Crash
    PROVE  IndInv'
<1>1. get_state' = get_state
  BY DEF Crash, get_state
<1>2. TypeOK'
  <2>1. restarts' \in 0..MaxRestarts
    BY BoundsAssumption DEF IndInv, TypeOK, Crash
  <2>2. 0 \in 0..MaxNumber
    BY BoundsAssumption
  <2> QED BY <2>1, <2>2 DEF IndInv, TypeOK, Crash, clientVars
<1>3. StoreInv' /\ IssuedInv'
  BY <1>1 DEF IndInv, StoreInv, IssuedInv, NumberIdentifiesHash, Crash
<1>4. ClientInv'
  BY ClientsAssumption DEF IndInv, ClientInv, ClientNumberIsItsOwn, Crash,
     clientVars, NoRequest
<1> QED BY <1>2, <1>3, <1>4 DEF IndInv

\* The server starts with what the file says.
LEMMA RestartKeeps ==
    ASSUME IndInv, Restart
    PROVE  IndInv'
<1>1. get_state' = get_state /\ state' = get_state
  BY DEF Restart, get_state
<1>2. TypeOK'
  BY <1>1, GetStateType DEF IndInv, TypeOK, Restart, clientVars, connVars
<1>3. StoreInv' /\ IssuedInv'
  BY <1>1 DEF IndInv, StoreInv, IssuedInv, NumberIdentifiesHash, Restart, connVars
<1>4. ClientInv'
  BY DEF IndInv, ClientInv, ClientNumberIsItsOwn, Restart, clientVars, connVars
<1> QED BY <1>2, <1>3, <1>4 DEF IndInv

\* A client takes the number that was handed out for its request.
LEMMA ReceiveKeeps ==
    ASSUME IndInv, NEW c \in Clients, Receive(c)
    PROVE  IndInv'
<1>1. StoreInv' /\ IssuedInv'
  BY QuietStore DEF IndInv, Receive, serverVars
<1>2. TypeOK'
  BY BoundsAssumption DEF IndInv, TypeOK, Receive, serverVars
<1>3. ClientInv'
  BY DEF IndInv, TypeOK, ClientInv, ClientNumberIsItsOwn, Receive
<1> QED BY <1>1, <1>2, <1>3 DEF IndInv

\* A client that hangs up leaves no request in its name.
LEMMA HangUpFacts ==
    ASSUME IndInv, NEW c \in Clients, HangUp(c)
    PROVE  /\ \A r \in requests' \cup {saving'} : r[1] # c
           /\ \A r \in requests' : r[1] \in Clients => r \in requests
           /\ saving'[1] \in Clients => saving' = saving
           /\ requests' \subseteq (Clients \cup {NoClient}) \X Hashes
           /\ saving' \in ((Clients \cup {NoClient}) \X Hashes) \cup {NoRequest}
           /\ saving' = NoRequest <=> saving = NoRequest
           /\ saving # NoRequest => saving'[2] = saving[2]
           /\ conn' \in [Clients -> {"closed", "waiting", "answered"}]
           /\ resp' \in [Clients -> 0..MaxNumber]
           /\ conn'[c] = "closed"
           /\ \A d \in Clients : d # c => conn'[d] = conn[d] /\ resp'[d] = resp[d]
<1> DEFINE gone(r) == IF r[1] = c THEN <<NoClient, r[2]>> ELSE r
<1>1. /\ requests' = {gone(r) : r \in requests} /\ saving' = gone(saving)
      /\ conn' = [conn EXCEPT ![c] = "closed"]
      /\ resp' = [resp EXCEPT ![c] = 0]
  BY DEF HangUp
<1>2. /\ requests \subseteq (Clients \cup {NoClient}) \X Hashes
      /\ saving \in ((Clients \cup {NoClient}) \X Hashes) \cup {NoRequest}
  BY DEF IndInv, TypeOK
<1>3. NoClient # c /\ NoRequest[1] = NoClient /\ NoRequest[2] = <<>>
  BY ClientsAssumption DEF NoRequest
<1>4. \A r \in ((Clients \cup {NoClient}) \X Hashes) \cup {NoRequest} :
        /\ gone(r)[1] # c
        /\ gone(r)[1] \in Clients => gone(r) = r
        /\ gone(r)[2] = r[2]
        /\ r \in (Clients \cup {NoClient}) \X Hashes =>
             gone(r) \in (Clients \cup {NoClient}) \X Hashes
        /\ r = NoRequest => gone(r) = r
        /\ r[2] # <<>> => gone(r) # NoRequest
  BY <1>3, ClientsAssumption
<1> HIDE DEF gone
<1>5. saving # NoRequest => saving[2] # <<>>
  BY DEF IndInv, StoreInv
<1>6. /\ \A r \in requests' \cup {saving'} : r[1] # c
      /\ \A r \in requests' : r[1] \in Clients => r \in requests
      /\ saving'[1] \in Clients => saving' = saving
      /\ requests' \subseteq (Clients \cup {NoClient}) \X Hashes
  BY <1>1, <1>2, <1>4
<1>7. /\ saving' \in ((Clients \cup {NoClient}) \X Hashes) \cup {NoRequest}
      /\ saving' = NoRequest <=> saving = NoRequest
      /\ saving # NoRequest => saving'[2] = saving[2]
  BY <1>1, <1>2, <1>4, <1>5
<1>8. /\ conn' \in [Clients -> {"closed", "waiting", "answered"}]
      /\ resp' \in [Clients -> 0..MaxNumber]
      /\ conn'[c] = "closed"
      /\ \A d \in Clients : d # c => conn'[d] = conn[d] /\ resp'[d] = resp[d]
  BY <1>1, BoundsAssumption DEF IndInv, TypeOK
<1> QED BY <1>6, <1>7, <1>8

\* A client that gives up, or starts again with another hash, has no number
\* of another hash left.
LEMMA LeaveKeeps ==
    ASSUME IndInv, NEW c \in Clients, Timeout(c) \/ ClientRestart(c)
    PROVE  IndInv'
<1>1. HangUp(c)
  BY DEF Timeout, ClientRestart
<1>2. /\ \A r \in requests' \cup {saving'} : r[1] # c
      /\ \A r \in requests' : r[1] \in Clients => r \in requests
      /\ saving'[1] \in Clients => saving' = saving
      /\ conn'[c] = "closed"
      /\ \A d \in Clients : d # c => conn'[d] = conn[d] /\ resp'[d] = resp[d]
  BY <1>1, HangUpFacts
<1>3. StoreInv' /\ IssuedInv'
  <2>1. /\ saving' = NoRequest <=> saving = NoRequest
        /\ saving # NoRequest => saving'[2] = saving[2]
    BY <1>1, HangUpFacts
  <2>2. UNCHANGED <<file, state, up, issued>>
    BY DEF Timeout, ClientRestart, serverVars
  <2> QED BY <2>1, <2>2, QuietStore DEF IndInv
<1>4. /\ hash' \in [Clients -> Hashes] /\ number' \in [Clients -> 0..MaxNumber]
      /\ \A d \in Clients : d # c => hash'[d] = hash[d] /\ number'[d] = number[d]
      /\ number'[c] = 0 \/ (number'[c] = number[c] /\ hash'[c] = hash[c])
  <2>1. CASE Timeout(c)
    BY <2>1 DEF Timeout, clientVars, IndInv, TypeOK
  <2>2. CASE ClientRestart(c)
    <3>1. 0 \in 0..MaxNumber
      BY BoundsAssumption
    <3>2. PICK h \in Hashes : hash' = [hash EXCEPT ![c] = h]
      BY <2>2 DEF ClientRestart
    <3> QED BY <2>2, <3>1, <3>2 DEF ClientRestart, IndInv, TypeOK
  <2> QED BY <2>1, <2>2
<1>5. TypeOK'
  <2>1. UNCHANGED <<file, state, up, restarts>>
    BY DEF Timeout, ClientRestart, serverVars
  <2>2. /\ requests' \subseteq (Clients \cup {NoClient}) \X Hashes
        /\ saving' \in ((Clients \cup {NoClient}) \X Hashes) \cup {NoRequest}
        /\ conn' \in [Clients -> {"closed", "waiting", "answered"}]
        /\ resp' \in [Clients -> 0..MaxNumber]
    BY <1>1, HangUpFacts
  <2> QED BY <1>4, <2>1, <2>2 DEF IndInv, TypeOK
<1>6. ClientInv'
  <2>1. issued' = issued
    BY DEF Timeout, ClientRestart
  <2>2. \A r \in requests' \cup {saving'} : r[1] \in Clients =>
          r \in requests \cup {saving} /\ r[1] # c
    BY <1>2
  <2>3. \A r \in requests' \cup {saving'} : r[1] \in Clients =>
          r[2] = hash'[r[1]] /\ conn'[r[1]] = "waiting"
    BY <1>2, <1>4, <2>2 DEF IndInv, ClientInv
  <2>4. \A d \in Clients : <<d, hash'[d]>> \in requests' => saving'[1] # d
    <3>1. TAKE d \in Clients
    <3>2. CASE d = c
      BY <1>2, <3>2
    <3>3. CASE d # c
      <4>1. <<d, hash'[d]>> \in requests' => <<d, hash[d]>> \in requests
        BY <1>2, <1>4, <3>3
      <4> QED BY <1>2, <4>1 DEF IndInv, ClientInv
    <3> QED BY <3>2, <3>3
  <2>5. \A d \in Clients : conn'[d] = "answered" /\ resp'[d] # 0 =>
          <<hash'[d], resp'[d]>> \in issued'
    BY <1>2, <1>4, <2>1 DEF IndInv, ClientInv
  <2>6. ClientNumberIsItsOwn'
    BY <1>4, <2>1 DEF IndInv, ClientInv, ClientNumberIsItsOwn
  <2> QED BY <2>3, <2>4, <2>5, <2>6 DEF ClientInv
<1> QED BY <1>3, <1>5, <1>6 DEF IndInv

-----------------------------------------------------------------------------
(* The theorems *)

\* The first start, with no file, satisfies IndInv.
LEMMA InitEstablishes == Init => IndInv
  BY BoundsAssumption, ClientsAssumption DEF Init, IndInv, TypeOK, StoreInv,
     IssuedInv, ClientInv, NumberIdentifiesHash, ClientNumberIsItsOwn, Fresh,
     get_state, NoRequest

\* Every step keeps IndInv, given that saves succeed and hashes are text.
LEMMA NextKeeps ==
    ASSUME TextOnly, ~SaveMayFail
    PROVE  IndInv /\ [Next]_vars => IndInv'
<1> SUFFICES ASSUME IndInv, [Next]_vars PROVE IndInv'
  OBVIOUS
<1>1. ASSUME NEW r \in requests, Refuse(r) \/ AnswerKnown(r) \/ Save(r)
      PROVE  IndInv'
  BY <1>1, RefuseKeeps, AnswerKnownKeeps, SaveKeeps
<1>2. CASE Swap \/ Crash \/ Restart
  BY <1>2, SwapKeeps, CrashKeeps, RestartKeeps
<1>3. ASSUME NEW c \in Clients,
             Request(c) \/ Receive(c) \/ Timeout(c) \/ ClientRestart(c)
      PROVE  IndInv'
  BY <1>3, RequestKeeps, ReceiveKeeps, LeaveKeeps
<1>4. CASE UNCHANGED vars
  <2>1. get_state' = get_state
    BY <1>4 DEF vars, get_state
  <2> QED
    BY <1>4, <2>1 DEF IndInv, TypeOK, StoreInv, IssuedInv, ClientInv,
       NumberIdentifiesHash, ClientNumberIsItsOwn, vars, serverVars, connVars,
       clientVars
<1> QED BY <1>1, <1>2, <1>3, <1>4 DEF Next

\* A run number names one configuration for ever, whatever crashes, restarts,
\* timeouts and orphaned requests there are, if the hashes are text and saves
\* succeed.
THEOREM NumbersAreUnique ==
    ASSUME TextOnly, ~SaveMayFail
    PROVE  Spec => []NumberIdentifiesHash
<1>1. IndInv => NumberIdentifiesHash
  BY DEF IndInv, IssuedInv
<1> QED BY <1>1, InitEstablishes, NextKeeps, PTL DEF Spec

\* Under the same hypotheses a frame writer's number was handed out for the
\* configuration it runs.
THEOREM NumbersAreOwn ==
    ASSUME TextOnly, ~SaveMayFail
    PROVE  Spec => []ClientNumberIsItsOwn
<1>1. IndInv => ClientNumberIsItsOwn
  BY DEF IndInv, ClientInv
<1> QED BY <1>1, InitEstablishes, NextKeeps, PTL DEF Spec

\* What TypeOK needs to be inductive: the number about to be handed out fits.
SavingFits == saving # NoRequest => up /\ state.value < MaxNumber

\* TypeOK and SavingFits are inductive, whether or not saves succeed and
\* whatever the hashes are.
LEMMA TypeKeeps == TypeOK /\ SavingFits /\ [Next]_vars => TypeOK' /\ SavingFits'
<1> SUFFICES ASSUME TypeOK, SavingFits, [Next]_vars
             PROVE  TypeOK' /\ SavingFits'
  OBVIOUS
<1> USE DEF serverVars, clientVars, connVars
<1>1. ASSUME NEW r \in requests, Refuse(r)
      PROVE  TypeOK' /\ SavingFits'
  <2>1. r \in (Clients \cup {NoClient}) \X Hashes /\ 0 \in 0..MaxNumber
    BY BoundsAssumption DEF TypeOK
  <2> QED BY <1>1, <2>1, RespondKeeps DEF TypeOK, SavingFits, Refuse
<1>2. ASSUME NEW r \in requests, AnswerKnown(r)
      PROVE  TypeOK' /\ SavingFits'
  <2>1. /\ r \in (Clients \cup {NoClient}) \X Hashes
        /\ state.value \in 0..MaxNumber
    BY DEF TypeOK
  <2> QED BY <1>2, <2>1, RespondKeeps DEF TypeOK, SavingFits, AnswerKnown
<1>3. ASSUME NEW r \in requests, Save(r)
      PROVE  TypeOK' /\ SavingFits'
  <2>1. r \in (Clients \cup {NoClient}) \X Hashes
    BY DEF TypeOK
  <2>2. ToHex(r[2]) \in Seq(0..15)
    BY <2>1, HashesAssumption, ToHexType
  <2>3. state.value + 1 \in 1..MaxNumber
    BY <1>3, BoundsAssumption DEF TypeOK, Save
  <2>4. [value |-> state.value + 1, hex |-> ToHex(r[2])]
          \in [value : 1..MaxNumber, hex : Seq(0..15)]
    BY <2>2, <2>3
  <2>5. file' \in Seq([value : 1..MaxNumber, hex : Seq(0..15)])
    <3> DEFINE l == [value |-> state.value + 1, hex |-> ToHex(r[2])]
               T == [value : 1..MaxNumber, hex : Seq(0..15)]
    <3>1. file \in Seq(T) /\ l \in T
      BY <2>4 DEF TypeOK
    <3>2. file' = Append(file, l) \/ file' = file
      BY <1>3 DEF Save
    <3> HIDE DEF l, T
    <3>3. file' \in Seq(T)
      BY <3>1, <3>2
    <3> QED BY <3>3 DEF T
  <2> QED BY <1>3, <2>1, <2>5 DEF TypeOK, SavingFits, Save
<1>4. CASE Swap
  <2>1. saving \in (Clients \cup {NoClient}) \X Hashes /\ saving[2] \in Seq(0..255)
    BY <1>4, HashesAssumption DEF TypeOK, Swap
  <2>2. state.value + 1 \in 0..MaxNumber
    BY <1>4, BoundsAssumption DEF TypeOK, SavingFits, Swap
  <2> QED BY <1>4, <2>1, <2>2, RespondKeeps DEF TypeOK, SavingFits, Swap
<1>5. CASE Crash
  <2>1. restarts' \in 0..MaxRestarts
    BY <1>5, BoundsAssumption DEF TypeOK, Crash
  <2> QED BY <1>5, <2>1 DEF TypeOK, SavingFits, Crash
<1>6. CASE Restart
  BY <1>6, GetStateType DEF TypeOK, SavingFits, Restart
<1>7. ASSUME NEW c \in Clients, Request(c)
      PROVE  TypeOK' /\ SavingFits'
  BY <1>7 DEF TypeOK, SavingFits, Request
<1>8. ASSUME NEW c \in Clients, Receive(c)
      PROVE  TypeOK' /\ SavingFits'
  BY <1>8, BoundsAssumption DEF TypeOK, SavingFits, Receive
<1>9. ASSUME NEW c \in Clients, Timeout(c) \/ ClientRestart(c)
      PROVE  TypeOK' /\ SavingFits'
  <2>1. UNCHANGED <<file, serverVars>> /\ HangUp(c)
    BY <1>9 DEF Timeout, ClientRestart
  <2>2. hash' \in [Clients -> Hashes] /\ number' \in [Clients -> 0..MaxNumber]
    <3>1. 0 \in 0..MaxNumber
      BY BoundsAssumption
    <3>2. CASE Timeout(c)
      BY <3>2 DEF Timeout, TypeOK
    <3>3. CASE ClientRestart(c)
      BY <3>1, <3>3 DEF ClientRestart, TypeOK
    <3> QED BY <1>9, <3>2, <3>3
  <2>3. /\ conn' \in [Clients -> {"closed", "waiting", "answered"}]
        /\ resp' \in [Clients -> 0..MaxNumber]
    BY <2>1, BoundsAssumption DEF TypeOK, HangUp
  <2>4. requests' \subseteq (Clients \cup {NoClient}) \X Hashes
    BY <2>1 DEF TypeOK, HangUp
  <2>5. /\ saving' \in ((Clients \cup {NoClient}) \X Hashes) \cup {NoRequest}
        /\ saving' # NoRequest => saving # NoRequest
    BY <2>1, ClientsAssumption DEF TypeOK, HangUp, NoRequest
  <2> QED BY <2>1, <2>2, <2>3, <2>4, <2>5 DEF TypeOK, SavingFits
<1>10. CASE UNCHANGED vars
  BY <1>10 DEF TypeOK, SavingFits, vars
<1> QED
  BY <1>1, <1>2, <1>3, <1>4, <1>5, <1>6, <1>7, <1>8, <1>9, <1>10 DEF Next

\* The numbers, files and connections keep their types without any hypothesis
\* about hashes and saves: no run number passes the bound although the one in
\* memory, the one in the file and the one in a response are set at different
\* times.
THEOREM RunNumberTypes == Spec => []TypeOK
<1>1. Init => TypeOK /\ SavingFits
  BY BoundsAssumption DEF Init, TypeOK, SavingFits, Fresh, NoRequest
<1> QED BY <1>1, TypeKeeps, PTL DEF Spec

\* Run numbers never go back, across crashes and restarts of the server and
\* with answers to writers that have hung up, if the hashes are text and saves
\* succeed.
THEOREM NumbersNeverGoBack ==
    ASSUME TextOnly, ~SaveMayFail
    PROVE  Spec => NeverGoesBack
<1> DEFINE Grows == \A i \in issued : \A j \in issued' \ issued : i[2] <= j[2]
<1>1. IndInv /\ [Next]_vars => [Grows]_vars
  <2> SUFFICES ASSUME IndInv, Next PROVE Grows
    OBVIOUS
  <2>1. CASE issued' = issued
    BY <2>1
  <2>2. ASSUME NEW r \in requests, AnswerKnown(r)
        PROVE  Grows
    BY <2>2 DEF AnswerKnown, IndInv, StoreInv, IssuedInv
  <2>3. CASE Swap
    <3>1. get_state.value = state.value + 1
      BY <2>3 DEF Swap, IndInv, StoreInv
    <3> QED BY <2>3, <3>1 DEF Swap, IndInv, IssuedInv
  <2> QED
    BY <2>1, <2>2, <2>3 DEF Next, Refuse, Save, Crash, Restart, Request, Receive,
       Timeout, ClientRestart
<1> QED BY <1>1, InitEstablishes, NextKeeps, PTL DEF Spec, NeverGoesBack

\* A restarted server knows the hash of the last number handed out, also when
\* it died between the save and the answer, if the hashes are text and saves
\* succeed.
THEOREM NumbersSurviveRestart ==
    ASSUME TextOnly, ~SaveMayFail
    PROVE  Spec => RestartRemembers
<1> DEFINE Remembers ==
        ~up /\ up' => \A i \in issued :
            i[2] = state'.value => i[1] = state'.hash
<1>1. IndInv /\ [Next]_vars => [Remembers]_vars
  <2> SUFFICES ASSUME IndInv, Next, ~up, up' PROVE Remembers
    OBVIOUS
  <2>1. Restart
    BY DEF Next, Refuse, AnswerKnown, Save, Swap, Crash, Request, Receive,
       Timeout, ClientRestart, serverVars
  <2> QED BY <2>1 DEF Restart, IndInv, IssuedInv
<1> QED BY <1>1, InitEstablishes, NextKeeps, PTL DEF Spec, RestartRemembers
=============================================================================
