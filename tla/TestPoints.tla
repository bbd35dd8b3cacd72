----------------------------- MODULE TestPoints -----------------------------
(***************************************************************************)
(* The test point manager, gds/testpoint_server.c: the index of selected   *)
(* test points and of the clients that use each, kept by one thread that   *)
(* serves remote calls and by two scheduled tasks, one that drops uses     *)
(* whose time is over and one that copies the index to shared memory, half *)
(* a second before the front end reads it.                                 *)
(*                                                                         *)
(* Time is counted in half seconds: odd from TESTPOINT_UPDATE_EPOCH (the   *)
(* middle of a second) on.  Only lists of test points of this node are     *)
(* tried, and names, which tpName2Index turns into such lists, are left    *)
(* out.                                                                    *)
(***************************************************************************)
EXTENDS Integers, Sequences, FiniteSetsExt, SequencesExt, Ranks

CONSTANTS
    Clients,       \* handles of clients
    PreselectId,   \* the handle setPreselect uses, 0x7fffffff
    TPs,           \* test points of this node (tplookup)
    InterfaceOf,   \* TP_ID_TO_INTERFACE
    IndexLen,      \* TP_INTERFACE_TO_INDEX_LEN: slots of each interface
    MaxUser,       \* _TP_MAX_USER
    DaqRoom,       \* test points that fit into DAQ_DCU_SIZE
    Preselect,     \* the preselected test points, a sequence
    Lists,         \* the lists clients send
    Timeouts,      \* the timeouts they send, 0 for none
    MaxCalls,      \* bound on remote calls, for model checking
    LastTick       \* bound on time, for model checking

NoTp == 0
Holders == Clients \cup {PreselectId}
Interfaces == DOMAIN IndexLen
Slots(j) == 0..(IndexLen[j] - 1)

ASSUME TpAssumption ==
    /\ PreselectId \notin Clients
    /\ TPs \subseteq Nat \ {NoTp} /\ InterfaceOf \in [TPs -> Interfaces]
    /\ IsFiniteSet(Interfaces) /\ Interfaces = 0..(Cardinality(Interfaces) - 1)
    /\ IndexLen \in [Interfaces -> Nat \ {0}]
    /\ MaxUser \in Nat \ {0} /\ DaqRoom \in Nat
    /\ \A list \in Lists \cup {Preselect} : list \in Seq(Nat)
    /\ Timeouts \subseteq Nat /\ LastTick \in Nat /\ MaxCalls \in Nat

VARIABLES
    indx,       \* tpNode.indx: id and users of every slot
    rpc,        \* the thread that serves remote calls
    call,       \* the request it serves
    upd,        \* updateTestpoints: the interface it copies or writes next
    copied,     \* its copy of one interface's index
    published,  \* the index in shared memory
    now,        \* half seconds
    calls,      \* remote calls so far
    held,       \* history: uses without timeout each client has
    promise     \* history: half second from which a use was promised active

tpVars == <<indx, held, promise>>
taskVars == <<upd, copied, published>>
vars == <<indx, rpc, call, upd, copied, published, now, calls, held,
          promise>>

Never == LastTick + 3
NoCopy == <<>>

Empty == [id |-> NoTp, users |-> <<>>]
NoHolds == [c \in Holders |-> [t \in TPs |-> 0]]
NoPromises == [c \in Holders |-> [t \in TPs |-> Never]]

-----------------------------------------------------------------------------
(* The index *)

Matching(x, t) == {s \in Slots(InterfaceOf[t]) : x[InterfaceOf[t]][s].id = t}
Vacant(x, t) == {s \in Slots(InterfaceOf[t]) : x[InterfaceOf[t]][s].id = NoTp}

\* Mutant of SlotFor: the search ends at the first empty slot.
SlotForFirstVacant(x, t) ==
    LET either == Matching(x, t) \cup Vacant(x, t) IN
    IF either = {} THEN -1
    ELSE LET s == Min(either) IN
         IF Len(x[InterfaceOf[t]][s].users) < MaxUser THEN s ELSE -1

\* The search of requesttp_1_svc: the slot that has the test point, or else the
\* first empty one; -1 if the index is full or the test point has too many
\* users.
SlotFor(x, t) ==
    IF Matching(x, t) # {}
    THEN LET s == Min(Matching(x, t)) IN
         IF Len(x[InterfaceOf[t]][s].users) < MaxUser THEN s ELSE -1
    ELSE IF Vacant(x, t) # {} THEN Min(Vacant(x, t)) ELSE -1

\* The history of uses: what setting a test point, or a clear, means.
Grant(h, t, use) ==
    IF use.timeout = 0 THEN [h EXCEPT ![use.clnt][t] = @ + 1] ELSE h
GiveBack(h, t, c) ==
    IF t \in TPs /\ h[c][t] > 0 THEN [h EXCEPT ![c][t] = @ - 1] ELSE h

\* The slot has one more user; an empty one gets the test point.
Added(entry, t, use) ==
    IF entry.id = t THEN [entry EXCEPT !.users = Append(@, use)]
    ELSE [id |-> t, users |-> <<use>>]

\* One turn of the loop that sets test points; it ends at the first failure
\* and passes over what is not in the list of test points.
SetOne(acc, t, use) ==
    IF acc.status < 0 \/ t \notin TPs THEN acc
    ELSE LET j == InterfaceOf[t]
             s == SlotFor(acc.indx, t)
         IN  IF s = -1 THEN [acc EXCEPT !.status = -1]
             ELSE [acc EXCEPT !.indx[j][s] = Added(@, t, use),
                              !.held = Grant(@, t, use)]

\* The loop, from its state before the first turn to the one after the last.
SetTurns(x, h, list, use) ==
    LET after[k \in 0..Len(list)] ==
            IF k = 0 THEN [indx |-> x, status |-> 0, held |-> h]
            ELSE SetOne(after[k - 1], list[k], use)
    IN  after
SetAll(x, h, list, use) == SetTurns(x, h, list, use)[Len(list)]

Active(x) ==
    UNION {{<<j, s>> : s \in {r \in Slots(j) : x[j][r].id # NoTp}} :
             j \in Interfaces}

\* projTpNum: what is active, and one for every test point of the list for
\* which the search passes an empty slot, even if it finds it further on.
Projected(x, list) ==
    LET grows(t) ==
            t \in TPs /\ Vacant(x, t) # {}
              /\ (Matching(x, t) = {}
                    \/ Min(Vacant(x, t)) < Min(Matching(x, t)))
    IN  Cardinality(Active(x))
          + Cardinality({i \in DOMAIN list : grows(list[i])})

Overload(x, list) == Projected(x, list) > DaqRoom

\* Mutant of UserOf: any user of the test point will do.
UserOfAnybody(users, c) == DOMAIN users

\* The users that cleartp_1_svc may remove: of this client, without timeout.
UserOf(users, c) == {k \in DOMAIN users : users[k].clnt = c
                                            /\ users[k].timeout <= 0}

\* Mutant of Without: the slot of the last user keeps its test point.
WithoutKeepsId(entry, k) == [entry EXCEPT !.users = RemoveAt(@, k)]

\* inUse is decreased, the users after k are shifted, and the slot of the last
\* one becomes empty.
Without(entry, k) ==
    IF Len(entry.users) = 1 THEN Empty
    ELSE [entry EXCEPT !.users = RemoveAt(@, k)]

\* One turn of the loop of cleartp_1_svc.
ClearOne(x, t, c) ==
    IF t \notin TPs \/ Matching(x, t) = {} THEN x
    ELSE LET j == InterfaceOf[t]
             s == Min(Matching(x, t))
             mine == UserOf(x[j][s].users, c)
         IN  IF mine = {} THEN x
             ELSE [x EXCEPT ![j][s] = Without(@, Min(mine))]

ClearTurns(x, h, list, c) ==
    LET after[k \in 0..Len(list)] ==
            IF k = 0 THEN [indx |-> x, held |-> h]
            ELSE [indx |-> ClearOne(after[k - 1].indx, list[k], c),
                  held |-> GiveBack(after[k - 1].held, list[k], c)]
    IN  after
ClearList(x, h, list, c) == ClearTurns(x, h, list, c)[Len(list)]

-----------------------------------------------------------------------------
(* Remote calls; each runs to its end under servermux, except where it says  *)
(* otherwise                                                                *)

Free == rpc # "stuck"   \* servermux can be had

\* requesttp_1_svc up to the release of servermux.  If the data rate would
\* be too high it returns at once, with status 0 and no activation time.  If a
\* test point cannot be set it calls cleartp_1_svc, which takes servermux, a
\* mutex of the default kind, a second time and never returns.
Serve(c, list, timeout) ==
    LET use == [clnt |-> c, timeout |-> timeout, req |-> now]
        res == SetAll(indx, held, list, use)
    IN
    IF Overload(indx, list)
    THEN /\ rpc' = "idle"
         /\ UNCHANGED <<indx, call, held>>
    ELSE /\ indx' = res.indx
         /\ IF res.status < 0
            THEN rpc' = "stuck" /\ UNCHANGED <<call, held>>
            ELSE /\ rpc' = "reply"
                 /\ call' = [clnt |-> c, list |-> list, timeout |-> timeout]
                 /\ held' = res.held

Request(c, list, timeout) ==
    /\ rpc = "idle" /\ calls < MaxCalls
    /\ calls' = calls + 1
    /\ Serve(c, list, timeout)
    /\ UNCHANGED <<taskVars, now, promise>>

\* Mutant of ActivationTime: the middle of the second is not considered.
ActivationTimeNext == now \div 2 + 1

\* Seconds: the next one, or the one after if the update has begun.
ActivationTime == now \div 2 + 1 + (IF now % 2 = 1 THEN 1 ELSE 0)

\* The end of requesttp_1_svc, without servermux: the activation time.
Reply ==
    /\ rpc = "reply"
    /\ rpc' = "idle"
    /\ promise' = IF call.timeout # 0 THEN promise
                  ELSE [promise EXCEPT ![call.clnt] =
                        [t \in TPs |->
                            IF t \in Range(call.list) /\ @[t] = Never
                            THEN 2 * ActivationTime ELSE @[t]]]
    /\ call' = [clnt |-> PreselectId, list |-> <<>>, timeout |-> 0]
    /\ UNCHANGED <<indx, held, taskVars, now, calls>>

\* cleartp_1_svc.
Clear(c, list) ==
    /\ rpc = "idle" /\ calls < MaxCalls
    /\ calls' = calls + 1
    /\ indx' = ClearList(indx, held, list, c).indx
    /\ held' = ClearList(indx, held, list, c).held
    /\ promise' = [promise EXCEPT ![c] =
                    [t \in TPs |-> IF held'[c][t] = 0 THEN Never ELSE @[t]]]
    /\ UNCHANGED <<rpc, call, taskVars, now>>

EmptyIndex == [j \in Interfaces |-> [s \in Slots(j) |-> Empty]]

\* cleartp_1_svc with _TP_CLEAR_ALL, up to the release of servermux.
ClearAll ==
    /\ rpc = "idle" /\ calls < MaxCalls
    /\ calls' = calls + 1
    /\ indx' = EmptyIndex
    /\ held' = NoHolds /\ promise' = NoPromises
    /\ rpc' = "preselect"
    /\ UNCHANGED <<call, taskVars, now>>

\* setPreselect, which cleartp_1_svc calls without servermux.
SetPreselect ==
    /\ rpc = "preselect"
    /\ IF Preselect = <<>>
       THEN rpc' = "idle" /\ UNCHANGED <<indx, call, held>>
       ELSE Serve(PreselectId, Preselect, 0)
    /\ UNCHANGED <<taskVars, now, calls, promise>>

-----------------------------------------------------------------------------
(* The scheduled tasks *)

Expired(use) == use.timeout > 0 /\ use.req + use.timeout < now

\* Mutant of ReapSlot: a test point that others use is left alone.
ReapSlotAlone(entry) ==
    IF Len(entry.users) = 1 /\ Expired(entry.users[1]) THEN Empty ELSE entry

\* The loop of cleanupTestpoints over the users of a slot: after a removal the
\* next user moves to place k, and the loop goes on with k + 1.  Of a run of
\* expired users every second one is left, beginning with the second.
Survivors(users) ==
    LET before(k) == Max({i \in 0..k : i = 0 \/ ~Expired(users[i])})
    IN  {k \in DOMAIN users : (k - before(k)) % 2 = 0}
ReapSlot(entry) ==
    LET kept == Survivors(entry.users) IN
    IF kept = {} THEN Empty
    ELSE [entry EXCEPT !.users =
            [i \in 1..Cardinality(kept) |-> @[Nth(kept, i)]]]

\* cleanupTestpoints for one interface, under servermux.  A pass over the
\* interfaces starts once a second; the model lets it start at any time.
Cleanup(j) ==
    /\ Free
    /\ indx' = [indx EXCEPT ![j] = [s \in Slots(j) |-> ReapSlot(@[s])]]
    /\ UNCHANGED <<rpc, call, upd, copied, published, now, calls, held,
                   promise>>

\* updateTestpoints for one interface: the copy, under servermux.
UpdateCopy ==
    /\ Free
    /\ now % 2 = 1 /\ upd \in Interfaces /\ copied = NoCopy
    /\ copied' = [i \in 1..IndexLen[upd] |-> indx[upd][i - 1].id]
    /\ UNCHANGED <<indx, rpc, call, upd, published, now, calls, held,
                   promise>>

\* rmWrite of that copy, without servermux.
UpdateWrite ==
    /\ copied # NoCopy
    /\ published' = [published EXCEPT ![upd] = copied]
    /\ copied' = NoCopy
    /\ upd' = upd + 1
    /\ UNCHANGED <<indx, rpc, call, now, calls, held, promise>>

UpdateDone == upd = Cardinality(Interfaces)

\* Time goes on.  The update begins in the middle of a second and is done before
\* the next second (an assumption on the scheduler), unless it waits for
\* servermux: then the seconds pass without it.
Tick ==
    /\ now < LastTick
    /\ now % 2 = 1 => copied = NoCopy /\ (Free => UpdateDone)
    /\ now' = now + 1
    /\ upd' = IF UpdateDone THEN 0 ELSE upd
    /\ UNCHANGED <<indx, rpc, call, copied, published, calls, held,
                   promise>>

-----------------------------------------------------------------------------
(* Specification *)

\* testpoint_server: the index is cleared and the preselected test points are
\* requested before the service is registered.
Init ==
    /\ indx = EmptyIndex
    /\ rpc = "preselect"
    /\ call = [clnt |-> PreselectId, list |-> <<>>, timeout |-> 0]
    /\ upd = 0 /\ copied = NoCopy
    /\ published = [j \in Interfaces |-> [i \in 1..IndexLen[j] |-> NoTp]]
    /\ now = 0 /\ calls = 0
    /\ held = NoHolds /\ promise = NoPromises

Next ==
    \/ \E c \in Clients, list \in Lists :
        \/ \E timeout \in Timeouts : Request(c, list, timeout)
        \/ Clear(c, list)
    \/ ClearAll
    \/ Reply
    \/ SetPreselect
    \/ \E j \in Interfaces : Cleanup(j)
    \/ UpdateCopy
    \/ UpdateWrite
    \/ Tick

\* The scheduler runs its tasks.
Fairness == \A j \in Interfaces : WF_vars(Cleanup(j))

Spec == Init /\ [][Next]_vars
FairSpec == Spec /\ Fairness

-----------------------------------------------------------------------------
(* Properties *)

Use == [clnt : Holders, timeout : Timeouts \cup {0}, req : 0..LastTick]
Entry == [id : TPs \cup {NoTp}, users : Seq(Use)]
Indices == UNION {[Slots(j) -> Entry] : j \in Interfaces}
Numbers == TPs \cup {NoTp}

\* A slot has a test point exactly when it has users, at most _TP_MAX_USER.
IndexOK(x) ==
    /\ x \in [Interfaces -> Indices]
    /\ \A j \in Interfaces :
        /\ x[j] \in [Slots(j) -> Entry]
        /\ \A s \in Slots(j) :
            /\ Len(x[j][s].users) <= MaxUser
            /\ x[j][s].id = NoTp <=> x[j][s].users = <<>>

\* Types of the state, the index above all.
TypeOK ==
    /\ IndexOK(indx)
    /\ rpc \in {"idle", "reply", "preselect", "stuck"}
    /\ call \in [clnt : Holders, list : Lists \cup {Preselect, <<>>},
                 timeout : Timeouts \cup {0}]
    /\ upd \in 0..Cardinality(Interfaces)
    /\ copied # NoCopy =>
        upd \in Interfaces /\ copied \in [1..IndexLen[upd] -> Numbers]
    /\ published \in [Interfaces -> Seq(Numbers)]
    /\ now \in 0..LastTick /\ calls \in 0..MaxCalls
    /\ held \in [Holders -> [TPs -> Nat]]
    /\ promise \in [Holders -> [TPs -> Nat]]

\* A test point has one slot of its interface's index: it is recorded once
\* however requests, clears and timeouts leave holes in the index.
OneSlot ==
    \A t \in TPs : Cardinality(Matching(indx, t)) <= 1

UntimedUses(c, t) ==
    {u \in {<<s, k>> : s \in Slots(InterfaceOf[t]), k \in 1..MaxUser} :
        LET e == indx[InterfaceOf[t]][u[1]] IN
        /\ e.id = t /\ u[2] \in DOMAIN e.users
        /\ e.users[u[2]].clnt = c /\ e.users[u[2]].timeout = 0}

\* A test point that a client asked for without timeout stays in use until that
\* client gives it back (or all are cleared): neither other clients' calls nor
\* the timeouts of other uses take it away.
HoldsKept ==
    rpc # "stuck" =>
        \A c \in Holders, t \in TPs :
            Cardinality(UntimedUses(c, t)) = held[c][t]

\* The activation time that requesttp_1_svc returns is kept: from that second
\* on the test point is in the index in shared memory, although the update task
\* copies the index while requests come in.  A request that fails half way ends
\* this: the update then waits for servermux while time goes on.
ActivationKept ==
    rpc # "stuck" =>
        \A c \in Holders, t \in TPs :
            promise[c][t] <= now => t \in Range(published[InterfaceOf[t]])

ExpiredUse(t) ==
    \E s \in Matching(indx, t) :
        \E k \in DOMAIN indx[InterfaceOf[t]][s].users :
            Expired(indx[InterfaceOf[t]][s].users[k])

\* A use whose timeout is over goes away, also the one that a pass steps over
\* because the user before it was removed.
ExpiredGoes == \A t \in TPs : ExpiredUse(t) ~> ~ExpiredUse(t) \/ rpc = "stuck"
=============================================================================
