----------------------------- MODULE RunNumber -----------------------------
(***************************************************************************)
(* The run number server (run_number/run_number.hh, run_number.cc,         *)
(* run_number_server.hh), its clients (run_number_client.cc) and the       *)
(* daqd frame writers that call them (daqd.cc, update_configuration_number)*)
(*                                                                         *)
(* The server keeps the last hash it was asked about and its number, and   *)
(* appends both to a text file it reads when it starts.  A hash is a       *)
(* sequence of bytes; a character of the file's hash column is represented *)
(* by the nibble the table "0123456789abcdef" writes it for.               *)
(***************************************************************************)
EXTENDS Integers, Sequences

CONSTANTS
    Clients,      \* daqd processes
    NoClient,     \* stands for a client that has hung up
    Hashes,       \* configuration hashes they ask about
    MaxHash,      \* sizeof(req.hash)
    SaveMayFail,  \* whether the file may be unwritable
    MaxNumber,    \* bound on run numbers, for model checking
    MaxRestarts   \* bound on restarts of the server, for model checking

ASSUME ClientsAssumption == NoClient \notin Clients
ASSUME HashesAssumption == \A h \in Hashes : h \in Seq(0..255)
ASSUME BoundsAssumption ==
    /\ MaxHash \in Nat /\ MaxNumber \in Nat /\ MaxRestarts \in Nat
    /\ SaveMayFail \in BOOLEAN

VARIABLES
    file,      \* lines of the backing store, [value, hex]
    state,     \* run_number<>::_state, [value, hash]
    up,        \* the server runs
    restarts,  \* of the server
    requests,  \* <<client, hash>> requests the server has not handled yet
    saving,    \* the request between save_state and swap, or NoRequest
    conn,      \* each client: "closed", "waiting", "answered"
    resp,      \* number in the response on the way to each client
    hash,      \* configuration hash of each client
    number,    \* daqd_c::_configuration_number of each client
    issued     \* history: the <<hash, number>> pairs handed out

serverVars == <<state, up, restarts>>
clientVars == <<hash, number>>
connVars   == <<requests, saving, conn, resp>>
vars == <<file, serverVars, connVars, clientVars, issued>>

NoRequest == <<NoClient, <<>>>>

-----------------------------------------------------------------------------
(* The backing store *)

\* Mutant of ToHex: the low digit is not masked with 0xf.
ToHexUnmasked(h) ==
    [i \in 1..(2 * Len(h)) |->
        IF i % 2 = 1 THEN h[(i + 1) \div 2] \div 16 ELSE h[i \div 2]]

\* save_state writes two hex digits per byte.
ToHex(h) ==
    [i \in 1..(2 * Len(h)) |->
        IF i % 2 = 1 THEN h[(i + 1) \div 2] \div 16 ELSE h[i \div 2] % 16]

\* The value read back from a digit: ch - '0', ch - 'a'.
hex_char_to_nibble(n) == IF n < 10 THEN n ELSE n - 10

hex_to_bin_str(x) ==
    [i \in 1..(Len(x) \div 2) |->
        16 * hex_char_to_nibble(x[2 * i - 1]) + hex_char_to_nibble(x[2 * i])]

Fresh == [value |-> 0, hash |-> <<>>]

\* Mutant of get_state: the first line of the file.
FirstLine ==
    IF file = <<>> THEN Fresh
    ELSE [value |-> file[1].value, hash |-> hex_to_bin_str(file[1].hex)]

\* Mutant of get_state: only the number is read.
ValueOnly ==
    IF file = <<>> THEN Fresh
    ELSE [value |-> file[Len(file)].value, hash |-> <<0>>]

\* get_state: the last line of the file.
get_state ==
    IF file = <<>> THEN Fresh
    ELSE LET l == file[Len(file)]
         IN  [value |-> l.value, hash |-> hex_to_bin_str(l.hex)]

-----------------------------------------------------------------------------
Init ==
    /\ file = <<>> /\ state = Fresh
    /\ up = TRUE /\ restarts = 0
    /\ requests = {} /\ saving = NoRequest
    /\ conn = [c \in Clients |-> "closed"]
    /\ resp = [c \in Clients |-> 0]
    /\ hash \in [Clients -> Hashes]
    /\ number = [c \in Clients |-> 0]
    /\ issued = {}

\* update_configuration_number asks only while it has no number; the client
\* refuses a hash that does not fit, connects and writes its request.
Request(c) ==
    /\ up
    /\ number[c] = 0
    /\ conn[c] = "closed"
    /\ Len(hash[c]) <= MaxHash
    /\ conn' = [conn EXCEPT ![c] = "waiting"]
    /\ requests' = requests \cup {<<c, hash[c]>>}
    /\ UNCHANGED <<file, serverVars, saving, resp, clientVars, issued>>

\* send_response; a client that has hung up gets nothing.
Respond(c, n) ==
    IF c = NoClient THEN UNCHANGED <<conn, resp>>
    ELSE /\ conn' = [conn EXCEPT ![c] = "answered"]
         /\ resp' = [resp EXCEPT ![c] = n]

\* process_request refuses an empty hash.
Refuse(r) ==
    /\ up /\ saving = NoRequest
    /\ Len(r[2]) = 0
    /\ Respond(r[1], 0)
    /\ requests' = requests \ {r}
    /\ UNCHANGED <<file, serverVars, saving, clientVars, issued>>

\* get_number of the hash the server has.
AnswerKnown(r) ==
    /\ up /\ saving = NoRequest
    /\ Len(r[2]) > 0 /\ r[2] = state.hash
    /\ Respond(r[1], state.value)
    /\ issued' = issued \cup {<<r[2], state.value>>}
    /\ requests' = requests \ {r}
    /\ UNCHANGED <<file, serverVars, saving, clientVars>>

\* get_number of another hash: save_state appends to the file; an ofstream
\* that fails says nothing.
Save(r) ==
    /\ up /\ saving = NoRequest
    /\ Len(r[2]) > 0 /\ r[2] # state.hash
    /\ state.value < MaxNumber
    /\ \/ file' = Append(file, [value |-> state.value + 1, hex |-> ToHex(r[2])])
       \/ SaveMayFail /\ UNCHANGED file
    /\ saving' = r
    /\ requests' = requests \ {r}
    /\ UNCHANGED <<serverVars, conn, resp, clientVars, issued>>

\* Mutant of Swap: the hash is kept, the number is not.
SwapHashOnly ==
    /\ up /\ saving # NoRequest
    /\ state' = [state EXCEPT !.hash = saving[2]]
    /\ Respond(saving[1], state.value + 1)
    /\ issued' = issued \cup {<<saving[2], state.value + 1>>}
    /\ saving' = NoRequest
    /\ UNCHANGED <<file, up, restarts, requests, clientVars>>

\* The rest of get_number and process_request; the server has one thread, so
\* nothing else has been handled since the save.
Swap ==
    /\ up /\ saving # NoRequest
    /\ state' = [value |-> state.value + 1, hash |-> saving[2]]
    /\ Respond(saving[1], state.value + 1)
    /\ issued' = issued \cup {<<saving[2], state.value + 1>>}
    /\ saving' = NoRequest
    /\ UNCHANGED <<file, up, restarts, requests, clientVars>>

\* The server dies with its memory and its sockets; a response already sent
\* still arrives.
Crash ==
    /\ up
    /\ restarts < MaxRestarts
    /\ up' = FALSE /\ restarts' = restarts + 1
    /\ requests' = {} /\ saving' = NoRequest
    /\ conn' = [c \in Clients |->
                  IF conn[c] = "answered" THEN "answered" ELSE "closed"]
    /\ UNCHANGED <<file, state, resp, clientVars, issued>>

\* The constructor of run_number<> reads the backing store.
Restart ==
    /\ ~up
    /\ up' = TRUE
    /\ state' = get_state
    /\ UNCHANGED <<file, restarts, connVars, clientVars, issued>>

\* The client reads the response.
Receive(c) ==
    /\ conn[c] = "answered"
    /\ number' = [number EXCEPT ![c] = resp[c]]
    /\ conn' = [conn EXCEPT ![c] = "closed"]
    /\ resp' = [resp EXCEPT ![c] = 0]
    /\ UNCHANGED <<file, serverVars, requests, saving, hash, issued>>

\* Client c closes its socket; the server still handles what it has sent.
HangUp(c) ==
    LET gone(r) == IF r[1] = c THEN <<NoClient, r[2]>> ELSE r IN
    /\ conn' = [conn EXCEPT ![c] = "closed"]
    /\ resp' = [resp EXCEPT ![c] = 0]
    /\ requests' = {gone(r) : r \in requests}
    /\ saving' = gone(saving)

\* Ten seconds without an answer: the number stays 0.
Timeout(c) ==
    /\ conn[c] # "closed"
    /\ HangUp(c)
    /\ UNCHANGED <<file, serverVars, clientVars, issued>>

\* Mutant of ClientRestart: the number of the old configuration is kept.
ClientRestartKeepsNumber(c) ==
    /\ \E h \in Hashes : hash' = [hash EXCEPT ![c] = h]
    /\ HangUp(c)
    /\ UNCHANGED <<file, serverVars, number, issued>>

\* daqd starts again, perhaps with another configuration.
ClientRestart(c) ==
    /\ \E h \in Hashes : hash' = [hash EXCEPT ![c] = h]
    /\ number' = [number EXCEPT ![c] = 0]
    /\ HangUp(c)
    /\ UNCHANGED <<file, serverVars, issued>>

Next ==
    \/ \E r \in requests : Refuse(r) \/ AnswerKnown(r) \/ Save(r)
    \/ Swap \/ Crash \/ Restart
    \/ \E c \in Clients :
         Request(c) \/ Receive(c) \/ Timeout(c) \/ ClientRestart(c)

Spec == Init /\ [][Next]_vars

-----------------------------------------------------------------------------
(* Properties *)

\* Type invariant.
TypeOK ==
    /\ file \in Seq([value : 1..MaxNumber, hex : Seq(0..15)])
    /\ state \in [value : 0..MaxNumber, hash : Seq(0..255)]
    /\ up \in BOOLEAN /\ restarts \in 0..MaxRestarts
    /\ requests \subseteq ((Clients \cup {NoClient}) \X Hashes)
    /\ saving \in ((Clients \cup {NoClient}) \X Hashes) \cup {NoRequest}
    /\ conn \in [Clients -> {"closed", "waiting", "answered"}]
    /\ resp \in [Clients -> 0..MaxNumber]
    /\ hash \in [Clients -> Hashes]
    /\ number \in [Clients -> 0..MaxNumber]

\* A run number names one configuration, whatever crashes and restarts the
\* server has been through: no number is handed out for two hashes.
NumberIdentifiesHash ==
    \A i, j \in issued : i[2] = j[2] => i[1] = j[1]

\* A frame writer that has a number has one that was handed out for the
\* configuration it runs, although requests time out and the server or the
\* writer restarts in between.
ClientNumberIsItsOwn ==
    \A c \in Clients : number[c] # 0 => <<hash[c], number[c]>> \in issued

\* What the backing store reads back is what was saved (the round trip the
\* test "Test run number backing store" requires).
StoreRoundTrips ==
    \A i \in 1..Len(file) :
        \E h \in Hashes : ToHex(h) = file[i].hex /\ hex_to_bin_str(file[i].hex) = h

\* A configuration asked about twice in a row keeps its number across a
\* restart: a restarted server knows the hash of its last number.
RestartRemembers ==
    [][~up /\ up' => \A i \in issued :
          i[2] = state'.value => i[1] = state'.hash]_vars

\* Run numbers never go back, across restarts included.
NeverGoesBack == [][\A i \in issued : \A j \in issued' \ issued : i[2] <= j[2]]_vars

-----------------------------------------------------------------------------
(* The invariant behind NumberIdentifiesHash and ClientNumberIsItsOwn *)

\* Every byte is written with decimal digits only, as the characters of a
\* hexadecimal text are: then hex_char_to_nibble is right.
TextOnly ==
    \A h \in Hashes : \A i \in 1..Len(h) : h[i] \div 16 < 10 /\ h[i] % 16 < 10

\* While no save is under way the server has in memory what its file says;
\* during a save the file is one number ahead, with the hash being saved.
StoreInv ==
    /\ up /\ saving = NoRequest => state = get_state
    /\ saving # NoRequest =>
         /\ up /\ saving[2] # <<>>
         /\ get_state = [value |-> state.value + 1, hash |-> saving[2]]

\* No number above the file's has been handed out, during a save none above
\* the one in memory, and the file's number only for the file's hash.
IssuedInv ==
    /\ \A i \in issued : i[2] \in Nat /\ i[2] <= get_state.value
    /\ \A i \in issued : saving # NoRequest => i[2] <= state.value
    /\ \A i \in issued : i[2] = get_state.value => i[1] = get_state.hash
    /\ NumberIdentifiesHash

\* A request carries the hash its client still has, and a client has one
\* request under way at most.
ClientInv ==
    /\ \A r \in requests \cup {saving} : r[1] \in Clients =>
         r[2] = hash[r[1]] /\ conn[r[1]] = "waiting"
    /\ \A c \in Clients : <<c, hash[c]>> \in requests => saving[1] # c
    /\ \A c \in Clients : conn[c] = "answered" /\ resp[c] # 0 =>
         <<hash[c], resp[c]>> \in issued
    /\ ClientNumberIsItsOwn

IndInv == TypeOK /\ StoreInv /\ IssuedInv /\ ClientInv
=============================================================================
