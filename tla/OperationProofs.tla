-------------------------- MODULE OperationProofs --------------------------
(***************************************************************************)
(* What a host may count on when it cancels: the safety properties of the  *)
(* runtime's one-shots, of the hub of host streams and of the cache of     *)
(* clients, for any calls, ids, streams and changes by the host; and of    *)
(* the subagent task manager, for any tasks, turns, calls and waiters.     *)
(***************************************************************************)
EXTENDS Runtime, TaskManager, TLAPS

Places == {"idle", "start", "build", "insert", "wait", "poll", "done"}
States == {"none", "pending", "closed", "given up", "unheard"}

CallState   == [pc : Places, id : OpIds \cup {NoId}, binding : Versions, built : Int,
                stream : 0 .. MaxStreams]
StreamState == [owner : Calls \cup {NoCall}, id : OpIds \cup {NoId}, state : States, told : Nat]

Typed ==
    /\ call \in [Calls -> CallState]
    /\ operations \in [OpIds -> Calls \cup {NoCall}]
    /\ stream \in [Streams -> StreamState]
    /\ opened \in 0 .. MaxStreams
    /\ binding \in Versions /\ settings \in Versions
    /\ clients \in [Versions -> Int]

\* Two calls with one id know of each other, and the table has a call in flight
\* under its own id.
IdsAreKnown == \A c \in Calls : InFlight(c) => call[c].id \in OpIds
SharersKnown ==
    \A c, e \in Calls : c # e /\ InFlight(c) /\ InFlight(e) /\ call[c].id = call[e].id =>
                            c \in shared /\ e \in shared
TableIsOwn == \A d \in OpIds : operations[d] # NoCall => call[operations[d]].id = d

TableInv == IdsAreKnown /\ SharersKnown /\ TableIsOwn /\ LoneCallCancellable

\* A stream is read by its owner, while the owner works.
ReadersWork    == \A c \in Calls : call[c].stream # 0 => call[c].pc \in {"wait", "poll"}
StreamsInOrder == /\ \A c \in Calls : call[c].stream <= opened
                  /\ \A r \in Streams : r > opened => stream[r].state = "none"
PendingOwned   == \A r \in Streams : stream[r].state = "pending" =>
                                         /\ stream[r].owner \in Calls
                                         /\ call[stream[r].owner].stream = r
ToldIfGivenUp  == \A r \in Streams : stream[r].told = IF stream[r].state = "given up" THEN 1 ELSE 0

StreamInv == ReadersWork /\ StreamsInOrder /\ PendingOwned /\ ToldIfGivenUp

\* The cache holds clients of the settings in force, for any binding, and what
\* is about to be inserted is one.
CacheCurrent ==
    ~clearing /\ ~raced => \A v \in Versions : clients[v] \in {settings, NoClient}
BuiltCurrent ==
    ~raced => \A c \in Calls : call[c].pc = "insert" => call[c].built = settings

CacheInv == CacheCurrent /\ BuiltCurrent

Inv == Typed /\ TableInv /\ StreamInv /\ CacheInv

-----------------------------------------------------------------------------
\* The locals of a call stay of their type when some of them are set.
LEMMA CallChanges ==
    ASSUME NEW w \in CallState, NEW pc \in Places
    PROVE  /\ [w EXCEPT !.pc = pc] \in CallState
           /\ \A d \in OpIds : [w EXCEPT !.pc = pc, !.id = d] \in CallState
           /\ \A d \in OpIds \cup {NoId} : [w EXCEPT !.pc = pc, !.id = d] \in CallState
           /\ \A v \in Versions : [w EXCEPT !.pc = pc, !.binding = v] \in CallState
           /\ \A v \in Int : [w EXCEPT !.pc = pc, !.built = v] \in CallState
           /\ \A r \in 0 .. MaxStreams : [w EXCEPT !.stream = r] \in CallState
BY DEF CallState

\* So do calls at their start and end, and streams that are new or given up.
LEMMA NewStates ==
    /\ NewCall \in CallState /\ EndedCall \in CallState
    /\ NewStream \in StreamState
    /\ \A s \in StreamState : GivenUp(s) \in StreamState
<1>n. \A n \in Nat : n + 1 \in Nat
  OBVIOUS
<1>1. NewCall \in CallState
  BY RuntimeAssumption DEF NewCall, CallState, Places, Versions, NoClient
<1>2. "done" \in Places
  BY DEF Places
<1>3. EndedCall \in CallState
  BY <1>1, <1>2, CallChanges, Zenon DEF EndedCall
<1>4. NewStream \in StreamState
  BY DEF NewStream, StreamState, States
<1>5. ASSUME NEW s \in StreamState
      PROVE  GivenUp(s) \in StreamState
  <2> "given up" \in States /\ "unheard" \in States
    BY DEF States
  <2>a. s.told \in Nat
    BY DEF StreamState
  <2>1. s.told + 1 \in Nat
    BY <1>n, <2>a, Zenon
  <2>2. \A state \in States, told \in Nat :
           /\ [s EXCEPT !.state = state, !.told = told] \in StreamState
           /\ [s EXCEPT !.state = state] \in StreamState
    BY DEF StreamState
  <2>3. /\ [s EXCEPT !.state = "given up", !.told = s.told + 1] \in StreamState
        /\ [s EXCEPT !.state = "unheard"] \in StreamState
    BY <2>1, <2>2, Zenon
  <2>4. QED
    BY <2>3 DEF GivenUp
<1>6. QED
  BY <1>1, <1>3, <1>4, <1>5

\* What becomes of the table of streams when some are given up.
LEMMA DropStreamType ==
    ASSUME Typed, NEW r \in 0 .. MaxStreams, DropStream(r)
    PROVE  stream' \in [Streams -> StreamState]
BY NewStates DEF Typed, DropStream, Streams

\* An abort gives up the streams of a set.
LEMMA AbortType ==
    ASSUME Typed, NEW S, Abort(S)
    PROVE  stream' \in [Streams -> StreamState]
BY NewStates DEF Typed, Abort

\* The first state has no call.
LEMMA InitInv == Init => Inv
<1> SUFFICES ASSUME Init PROVE Inv
  OBVIOUS
<1>1. Typed
  BY NewStates, RuntimeAssumption DEF Init, Typed, Versions, NoClient
<1>2. TableInv
  BY DEF Init, TableInv, IdsAreKnown, SharersKnown, TableIsOwn, LoneCallCancellable, InFlight,
     NewCall
<1>3. StreamInv
  <2>1. \A r \in Streams : stream[r].state = "none" /\ stream[r].told = 0
    BY DEF Init, NewStream
  <2>2. \A c \in Calls : call[c].stream = 0
    BY DEF Init, NewCall
  <2>3. opened = 0
    BY DEF Init
  <2>4. ReadersWork /\ StreamsInOrder
    BY <2>1, <2>2, <2>3 DEF ReadersWork, StreamsInOrder
  <2>5. PendingOwned /\ ToldIfGivenUp
    BY <2>1 DEF PendingOwned, ToldIfGivenUp
  <2>6. QED
    BY <2>4, <2>5 DEF StreamInv
<1>4. CacheInv
  BY DEF Init, CacheInv, CacheCurrent, BuiltCurrent, NewCall, NoClient
<1>5. QED
  BY <1>1, <1>2, <1>3, <1>4 DEF Inv

\* A step keeps the types.
LEMMA TypedNext == Typed /\ Next => Typed'
<1> SUFFICES ASSUME Typed, Next PROVE Typed'
  OBVIOUS
<1>p. /\ "start" \in Places /\ "build" \in Places /\ "insert" \in Places /\ "wait" \in Places
      /\ "poll" \in Places
  BY DEF Places
<1>c. ASSUME NEW c \in Calls
      PROVE  /\ call[c] \in CallState
             /\ call[c].id \in OpIds \cup {NoId} /\ call[c].binding \in Versions
             /\ call[c].built \in Int /\ call[c].stream \in 0 .. MaxStreams
  BY DEF Typed, CallState
<1>n. /\ 0 \in Versions /\ 0 \in 0 .. MaxStreams /\ NoClient \in Int /\ Versions \subseteq Int
      /\ [v \in Versions |-> NoClient] \in [Versions -> Int]
  BY RuntimeAssumption DEF Versions, NoClient
<1>f. ASSUME NEW c \in Calls, Finish(c)
      PROVE  /\ call' \in [Calls -> CallState]
             /\ operations' \in [OpIds -> Calls \cup {NoCall}]
  BY <1>f, NewStates DEF Finish, Typed
<1>1. ASSUME NEW c \in Calls, NEW d \in OpIds, Generate(c, d)
      PROVE  Typed'
  <2>1. [call[c] EXCEPT !.pc = "start", !.id = d] \in CallState
    BY <1>p, <1>c, CallChanges, Zenon
  <2>2. QED
    BY <1>1, <2>1 DEF Generate, Typed, hubVars, cacheVars
<1>2. ASSUME NEW c \in Calls, RouteMissing(c)
      PROVE  Typed'
  BY <1>2, <1>f, <1>n DEF RouteMissing, Typed, hubVars, cacheVars
<1>3. ASSUME NEW c \in Calls, FindClient(c)
      PROVE  Typed'
  <2>1. /\ (IF clients[binding] # NoClient THEN "wait" ELSE "build") \in Places
        /\ (IF clients[binding] # NoClient THEN 0 ELSE binding) \in Versions
    BY <1>p, <1>n DEF Typed
  <2>2. [call[c] EXCEPT !.pc = IF clients[binding] # NoClient THEN "wait" ELSE "build",
                          !.binding = IF clients[binding] # NoClient THEN 0 ELSE binding]
           \in CallState
    BY <1>c, <2>1, CallChanges, Zenon
  <2>3. QED
    BY <1>3, <2>1, <2>2 DEF FindClient, Typed, hubVars, cacheVars
<1>4. ASSUME NEW c \in Calls, BuildClient(c)
      PROVE  Typed'
  <2>1. settings \in Int
    BY <1>n DEF Typed
  <2>2. [call[c] EXCEPT !.pc = "insert", !.built = settings] \in CallState
    BY <1>p, <1>c, <2>1, CallChanges, Zenon
  <2>3. QED
    BY <1>4, <2>1, <2>2 DEF BuildClient, Typed, hubVars, cacheVars
<1>5. ASSUME NEW c \in Calls, BuildFails(c)
      PROVE  Typed'
  BY <1>5, <1>f DEF BuildFails, Typed, hubVars, cacheVars
<1>6. ASSUME NEW c \in Calls, InsertClient(c)
      PROVE  Typed'
  <2>1. [NewCall EXCEPT !.pc = "wait", !.id = call[c].id] \in CallState
    BY <1>p, <1>c, NewStates, CallChanges, Zenon
  <2>2. QED
    BY <1>6, <1>c, <2>1 DEF InsertClient, Typed, hubVars, cacheVars
<1>7. ASSUME NEW c \in Calls, DropWork(c)
      PROVE  Typed'
  BY <1>7, <1>c, <1>f, DropStreamType DEF DropWork, Typed, hubVars, cacheVars
<1>8. ASSUME NEW c \in Calls, Poll(c)
      PROVE  Typed'
  <2>1. [call[c] EXCEPT !.pc = "poll"] \in CallState
    BY <1>p, <1>c, CallChanges, Zenon
  <2>2. QED
    BY <1>8, <2>1 DEF Poll, Typed, hubVars, cacheVars
<1>9. ASSUME NEW c \in Calls, Await(c)
      PROVE  Typed'
  <2>1. [call[c] EXCEPT !.pc = "wait"] \in CallState
    BY <1>p, <1>c, CallChanges, Zenon
  <2>2. QED
    BY <1>9, <2>1 DEF Await, Typed, hubVars, cacheVars
<1>10. ASSUME NEW c \in Calls, OpenStream(c)
      PROVE  Typed'
  <2>1. opened + 1 \in Streams /\ opened + 1 \in 0 .. MaxStreams
    BY <1>10, RuntimeAssumption DEF OpenStream, Typed, Streams
  <2>2. [call[c] EXCEPT !.stream = opened + 1] \in CallState
    BY <1>p, <1>c, <2>1, CallChanges DEF CallState
  <2>3. [owner |-> c, id |-> call[c].id, state |-> "pending", told |-> 0] \in StreamState
    BY <1>c DEF StreamState, States
  <2> DEFINE entry == [owner |-> c, id |-> call[c].id, state |-> "pending", told |-> 0]
             after == [call[c] EXCEPT !.stream = opened + 1]
  <2>4. /\ call' = [call EXCEPT ![c] = after] /\ stream' = [stream EXCEPT ![opened + 1] = entry]
        /\ opened' = opened + 1 /\ UNCHANGED <<operations, binding, settings, clients>>
    BY <1>10 DEF OpenStream, hostVars, cacheVars
  <2> HIDE DEF entry, after
  <2>5. stream' \in [Streams -> StreamState]
    BY <2>1, <2>3, <2>4 DEF entry, Typed
  <2>6. call' \in [Calls -> CallState]
    BY <2>2, <2>4 DEF after, Typed
  <2>7. QED
    BY <2>1, <2>4, <2>5, <2>6 DEF Typed
<1>11. ASSUME NEW c \in Calls, CloseStream(c)
      PROVE  Typed'
  <2>1. [call[c] EXCEPT !.stream = 0] \in CallState
    BY <1>c, <1>n, CallChanges DEF CallState
  <2>2. QED
    BY <1>11, <1>c, DropStreamType, <2>1 DEF CloseStream, Typed, hubVars, cacheVars
<1>12. ASSUME NEW c \in Calls, WorkEnds(c)
      PROVE  Typed'
  BY <1>12, <1>c, <1>f, DropStreamType DEF WorkEnds, Typed, hubVars, cacheVars
<1>13. ASSUME NEW r \in Streams, HostCloses(r)
      PROVE  Typed'
  <2>1. [stream[r] EXCEPT !.state = "closed"] \in StreamState
    BY DEF Typed, StreamState, States
  <2>2. QED
    BY <1>13, <2>1 DEF HostCloses, Typed, hubVars, cacheVars
<1>14. ASSUME NEW d \in OpIds, AbortOperation(d)
      PROVE  Typed'
  BY <1>14, AbortType DEF AbortOperation, Typed, cacheVars
<1>15. ASSUME AbortAll
   PROVE Typed'
  BY <1>15, AbortType DEF AbortAll, Typed, cacheVars
<1>16. ASSUME SetHost \/ ClearHost
   PROVE Typed'
  BY <1>16, <1>n, RuntimeAssumption DEF SetHost, ClearHost, NewBinding, Typed, hubVars, Versions
<1>17. ASSUME AdoptSettings
   PROVE Typed'
  BY <1>17, RuntimeAssumption DEF AdoptSettings, Typed, hubVars, Versions
<1>18. ASSUME ClearClients
   PROVE Typed'
  BY <1>18, <1>n DEF ClearClients, Typed, hubVars
<1>19. CASE Listen \/ CancelAll \/ \E d \in OpIds : CancelOperation(d)
  BY <1>19 DEF Listen, CancelAll, CancelOperation, Typed, hubVars, cacheVars
<1>20. QED
  BY RuntimeAssumption, <1>1, <1>2, <1>3, <1>4, <1>5, <1>6, <1>7, <1>8, <1>9, <1>10, <1>11, <1>12,
     <1>13, <1>14, <1>15, <1>16, <1>17, <1>18, <1>19
  DEF Next, CallStep, AbortStep

\* A step keeps what the invariant says of the table of operations.
LEMMA TableInvNext == Typed /\ TableInv /\ Next => TableInv'
<1> SUFFICES ASSUME Typed, TableInv, Next PROVE TableInv'
  OBVIOUS
<1>1. ASSUME NEW c \in Calls, NEW d \in IdsOf[c], Generate(c, d)
      PROVE  TableInv'
  <2>1. /\ d \in OpIds /\ call[c].pc = "idle"
        /\ operations' = [operations EXCEPT ![d] = c]
        /\ call'[c].id = d /\ call'[c].pc = "start"
        /\ \A e \in Calls \ {c} : call'[e] = call[e]
    BY <1>1, RuntimeAssumption DEF Generate, Typed, CallState
  <2>2. \A e \in Calls : InFlight(e) /\ call[e].id = d => e \in shared' /\ c \in shared'
    BY <1>1 DEF Generate
  <2>3. shared \subseteq shared'
    BY <1>1 DEF Generate
  <2>4. /\ ~InFlight(c) /\ InFlight(c)'
        /\ \A e \in Calls \ {c} : InFlight(e)' <=> InFlight(e)
    BY <2>1 DEF InFlight
  <2> HIDE DEF InFlight
  <2>5. IdsAreKnown' /\ SharersKnown'
    BY <2>1, <2>2, <2>3, <2>4 DEF TableInv, IdsAreKnown, SharersKnown, InFlight
  <2>6. TableIsOwn'
    BY <2>1, <2>4, RuntimeAssumption DEF TableInv, TableIsOwn, LoneCallCancellable, Typed
  <2>7. LoneCallCancellable'
    BY <2>1, <2>2, <2>3, <2>4, RuntimeAssumption
       DEF TableInv, LoneCallCancellable, IdsAreKnown, Typed, InFlight
  <2>8. QED
    BY <2>5, <2>6, <2>7 DEF TableInv
<1>2. ASSUME NEW c \in Calls, RouteMissing(c)
      PROVE  TableInv'
  BY <1>2, RuntimeAssumption DEF RouteMissing, Finish, EndedCall, NewCall, TableInv, IdsAreKnown,
     SharersKnown, TableIsOwn, LoneCallCancellable, InFlight, Typed, CallState
<1>3. ASSUME NEW c \in Calls, FindClient(c)
      PROVE  TableInv'
  BY <1>3, RuntimeAssumption DEF FindClient, TableInv, IdsAreKnown, SharersKnown, TableIsOwn,
     LoneCallCancellable, InFlight, Typed, CallState
<1>4. ASSUME NEW c \in Calls, BuildClient(c)
      PROVE  TableInv'
  BY <1>4, RuntimeAssumption DEF BuildClient, TableInv, IdsAreKnown, SharersKnown, TableIsOwn,
     LoneCallCancellable, InFlight, Typed, CallState
<1>5. ASSUME NEW c \in Calls, BuildFails(c)
      PROVE  TableInv'
  BY <1>5, RuntimeAssumption DEF BuildFails, Finish, EndedCall, NewCall, TableInv, IdsAreKnown,
     SharersKnown, TableIsOwn, LoneCallCancellable, InFlight, Typed, CallState
<1>6. ASSUME NEW c \in Calls, InsertClient(c)
      PROVE  TableInv'
  BY <1>6, RuntimeAssumption DEF InsertClient, NewCall, TableInv, IdsAreKnown, SharersKnown,
     TableIsOwn, LoneCallCancellable, InFlight, Typed, CallState
<1>7. ASSUME NEW c \in Calls, DropWork(c)
      PROVE  TableInv'
  BY <1>7, RuntimeAssumption DEF DropWork, Finish, EndedCall, NewCall, TableInv, IdsAreKnown,
     SharersKnown, TableIsOwn, LoneCallCancellable, InFlight, Typed, CallState
<1>8. ASSUME NEW c \in Calls, Poll(c)
      PROVE  TableInv'
  BY <1>8, RuntimeAssumption DEF Poll, TableInv, IdsAreKnown, SharersKnown, TableIsOwn,
     LoneCallCancellable, InFlight, Typed, CallState
<1>9. ASSUME NEW c \in Calls, Await(c)
      PROVE  TableInv'
  BY <1>9, RuntimeAssumption DEF Await, TableInv, IdsAreKnown, SharersKnown, TableIsOwn,
     LoneCallCancellable, InFlight, Typed, CallState
<1>10. ASSUME NEW c \in Calls, OpenStream(c)
      PROVE  TableInv'
  BY <1>10, RuntimeAssumption DEF OpenStream, TableInv, IdsAreKnown, SharersKnown, TableIsOwn,
     LoneCallCancellable, InFlight, Typed, CallState
<1>11. ASSUME NEW c \in Calls, CloseStream(c)
      PROVE  TableInv'
  BY <1>11, RuntimeAssumption DEF CloseStream, TableInv, IdsAreKnown, SharersKnown, TableIsOwn,
     LoneCallCancellable, InFlight, Typed, CallState
<1>12. ASSUME NEW c \in Calls, WorkEnds(c)
      PROVE  TableInv'
  BY <1>12, RuntimeAssumption DEF WorkEnds, Finish, EndedCall, NewCall, TableInv, IdsAreKnown,
     SharersKnown, TableIsOwn, LoneCallCancellable, InFlight, Typed, CallState
<1>13. CASE UNCHANGED <<call, operations, shared>>
  BY <1>13 DEF TableInv, IdsAreKnown, SharersKnown, TableIsOwn, LoneCallCancellable, InFlight
<1>14. QED
  BY ONLY Next, <1>1, <1>2, <1>3, <1>4, <1>5, <1>6, <1>7, <1>8, <1>9, <1>10, <1>11, <1>12, <1>13
     DEF Next, CallStep, AbortStep, Listen, CancelAll, CancelOperation, AbortOperation, AbortAll,
         Abort, SetHost, ClearHost, NewBinding, AdoptSettings, ClearClients, HostCloses, hubVars,
             cacheVars

\* Calls that go on with the streams they have disturb no stream.
LEMMA StreamsKept ==
    ASSUME StreamInv, UNCHANGED <<stream, opened>>,
           \A e \in Calls : /\ call'[e].stream = call[e].stream
                            /\ call'[e].stream # 0 => call'[e].pc \in {"wait", "poll"}
    PROVE  StreamInv'
BY DEF StreamInv, ReadersWork, StreamsInOrder, PendingOwned, ToldIfGivenUp

\* What giving up does to a stream.
LEMMA GivingUp ==
    ASSUME NEW s \in StreamState, s.state = "pending", s.told = 0
    PROVE  /\ GivenUp(s).state \in {"given up", "unheard"} /\ GivenUp(s).owner = s.owner
           /\ GivenUp(s).told = IF GivenUp(s).state = "given up" THEN 1 ELSE 0
BY DEF GivenUp, StreamState

\* A reader that is dropped takes its stream out of the hub.
LEMMA StreamDropped ==
    ASSUME Typed, StreamInv, NEW c \in Calls, DropStream(call[c].stream), opened' = opened,
           call'[c].stream = 0, \A e \in Calls \ {c} : call'[e] = call[e]
    PROVE  StreamInv'
<1> DEFINE r == call[c].stream
<1>0. opened \in Nat
  BY RuntimeAssumption DEF Typed
<1>1. r \in 0 .. MaxStreams /\ \A q \in Streams : stream[q] \in StreamState
  BY DEF Typed, CallState
<1>2. CASE r # 0 /\ stream[r].state = "pending"
  <2>1. r \in Streams
    BY <1>1, <1>2 DEF Streams
  <2>2. stream'[r] = GivenUp(stream[r]) /\ \A q \in Streams \ {r} : stream'[q] = stream[q]
    BY <1>2, <2>1 DEF DropStream, Typed
  <2>3. /\ stream'[r].state \in {"given up", "unheard"}
        /\ stream'[r].told = IF stream'[r].state = "given up" THEN 1 ELSE 0
    BY <1>1, <1>2, <2>1, <2>2, GivingUp DEF StreamInv, ToldIfGivenUp
  <2> HIDE DEF r
  <2>4. \A q \in Streams \ {r} : stream[q].state = "pending" => stream[q].owner # c
    BY DEF StreamInv, PendingOwned, r
  <2>5. ReadersWork' /\ ToldIfGivenUp'
    BY <2>2, <2>3 DEF StreamInv, ReadersWork, ToldIfGivenUp
  <2>6. ASSUME NEW q \in Streams, stream'[q].state = "pending"
        PROVE  stream'[q].owner \in Calls /\ call'[stream'[q].owner].stream = q
    <3>1. q # r /\ stream'[q] = stream[q]
      BY <2>2, <2>3, <2>6
    <3>2. stream[q].owner \in Calls \ {c} /\ call[stream[q].owner].stream = q
      BY <2>4, <2>6, <3>1 DEF StreamInv, PendingOwned
    <3>3. QED
      BY <3>1, <3>2
  <2>7. StreamsInOrder'
    BY <1>0, <1>2, <2>2 DEF StreamInv, StreamsInOrder
  <2>8. QED
    BY <2>5, <2>6, <2>7 DEF StreamInv, PendingOwned
<1>3. CASE ~(r # 0 /\ stream[r].state = "pending")
  <2>1. stream' = stream
    BY <1>3 DEF DropStream
  <2>2. \A q \in Streams : stream[q].state = "pending" => stream[q].owner # c
    BY <1>3 DEF StreamInv, PendingOwned, Streams
  <2>3. ReadersWork' /\ ToldIfGivenUp'
    BY <2>1 DEF StreamInv, ReadersWork, ToldIfGivenUp
  <2>4. PendingOwned'
    BY <2>1, <2>2 DEF StreamInv, PendingOwned
  <2>5. StreamsInOrder'
    BY <1>0, <2>1 DEF StreamInv, StreamsInOrder
  <2>6. QED
    BY <2>3, <2>4, <2>5 DEF StreamInv
<1>4. QED
  BY <1>2, <1>3

\* Streams that are aborted leave the hub.
LEMMA StreamsAborted ==
    ASSUME Typed, StreamInv, NEW S, Abort(S), UNCHANGED <<call, opened>>
    PROVE  StreamInv'
<1>1. ASSUME NEW r \in Streams
      PROVE  /\ stream'[r].told = IF stream'[r].state = "given up" THEN 1 ELSE 0
             /\ stream'[r].state = "pending" => stream'[r] = stream[r]
             /\ stream[r].state = "none" => stream'[r] = stream[r]
  <2>1. stream[r] \in StreamState
    BY DEF Typed
  <2>2. CASE r \in S /\ stream[r].state = "pending"
    BY <2>1, <2>2, GivingUp DEF Abort, StreamInv, ToldIfGivenUp
  <2>3. CASE ~(r \in S /\ stream[r].state = "pending")
    BY <2>3 DEF Abort, StreamInv, ToldIfGivenUp
  <2>4. QED
    BY <2>2, <2>3
<1>2. QED
  BY <1>1 DEF StreamInv, ReadersWork, StreamsInOrder, PendingOwned, ToldIfGivenUp

\* A step keeps what the invariant says of streams.
LEMMA StreamInvNext == Typed /\ StreamInv /\ Next => StreamInv'
<1> SUFFICES ASSUME Typed, StreamInv, Next PROVE StreamInv'
  OBVIOUS
<1> USE RuntimeAssumption
<1>1. ASSUME NEW c \in Calls, NEW d \in IdsOf[c], Generate(c, d)
      PROVE  StreamInv'
  BY <1>1, StreamsKept DEF Generate, hubVars, Typed, CallState, StreamInv, ReadersWork
<1>2. ASSUME NEW c \in Calls, RouteMissing(c) \/ BuildFails(c)
      PROVE  StreamInv'
  <2>1. /\ call[c].stream = 0 /\ UNCHANGED <<stream, opened>>
        /\ call'[c] = EndedCall /\ \A e \in Calls \ {c} : call'[e] = call[e]
    BY <1>2 DEF RouteMissing, BuildFails, Finish, hubVars, Typed, StreamInv, ReadersWork
  <2>2. EndedCall.stream = 0
    BY DEF EndedCall, NewCall
  <2>3. QED
    BY <2>1, <2>2, StreamsKept DEF StreamInv, ReadersWork
<1>3. ASSUME NEW c \in Calls, FindClient(c)
      PROVE  StreamInv'
  <2>1. call[c].stream = 0
    BY <1>3 DEF FindClient, StreamInv, ReadersWork
  <2>2. \A e \in Calls : call'[e].stream = call[e].stream /\ (e # c => call'[e] = call[e])
    BY <1>3 DEF FindClient, Typed, CallState
  <2>3. QED
    BY <1>3, <2>1, <2>2, StreamsKept DEF FindClient, hubVars, StreamInv, ReadersWork
<1>4. ASSUME NEW c \in Calls, BuildClient(c)
      PROVE  StreamInv'
  BY <1>4, StreamsKept DEF BuildClient, hubVars, Typed, CallState, StreamInv, ReadersWork
<1>5. ASSUME NEW c \in Calls, InsertClient(c)
      PROVE  StreamInv'
  BY <1>5, StreamsKept DEF InsertClient, NewCall, hubVars, Typed, CallState, StreamInv, ReadersWork
<1>6. ASSUME NEW c \in Calls, Poll(c) \/ Await(c)
      PROVE  StreamInv'
  BY <1>6, StreamsKept DEF Poll, Await, hubVars, Typed, CallState, StreamInv, ReadersWork
<1>7. ASSUME NEW c \in Calls, DropWork(c) \/ WorkEnds(c)
      PROVE  StreamInv'
  <2>1. /\ DropStream(call[c].stream) /\ opened' = opened
        /\ call'[c] = EndedCall /\ \A e \in Calls \ {c} : call'[e] = call[e]
    BY <1>7 DEF DropWork, WorkEnds, Finish, Typed
  <2>2. EndedCall.stream = 0
    BY DEF EndedCall, NewCall
  <2>3. QED
    BY <2>1, <2>2, StreamDropped
<1>8. ASSUME NEW c \in Calls, CloseStream(c)
      PROVE  StreamInv'
  <2>1. /\ DropStream(call[c].stream) /\ opened' = opened
        /\ call'[c].stream = 0 /\ \A e \in Calls \ {c} : call'[e] = call[e]
    BY <1>8 DEF CloseStream, Typed, CallState
  <2>2. QED
    BY <2>1, StreamDropped
<1>9. ASSUME NEW c \in Calls, OpenStream(c)
      PROVE  StreamInv'
  <2> DEFINE new == opened + 1
  <2>1. /\ new \in Streams /\ opened' = new /\ call[c].stream = 0 /\ call[c].pc = "poll"
        /\ stream[new].state = "none"
    BY <1>9 DEF OpenStream, Typed, Streams, StreamInv, StreamsInOrder
  <2>2. /\ stream'[new].state = "pending" /\ stream'[new].owner = c /\ stream'[new].told = 0
        /\ \A q \in Streams \ {new} : stream'[q] = stream[q]
    BY <1>9, <2>1 DEF OpenStream, Typed
  <2>3. /\ call'[c].stream = new /\ call'[c].pc = "poll"
        /\ \A e \in Calls \ {c} : call'[e] = call[e]
    BY <1>9, <2>1 DEF OpenStream, Typed, CallState
  <2>4. /\ \A e \in Calls : call[e].stream <= opened /\ call[e].stream \in 0 .. MaxStreams
        /\ opened \in Nat
    BY DEF StreamInv, StreamsInOrder, Typed, CallState
  <2>5. \A q \in Streams : stream[q].state = "pending" => stream[q].owner # c
    BY <2>1 DEF StreamInv, PendingOwned, Streams
  <2> HIDE DEF new
  <2>6. ReadersWork' /\ ToldIfGivenUp'
    BY <2>2, <2>3 DEF StreamInv, ReadersWork, ToldIfGivenUp
  <2>7. PendingOwned'
    BY <2>2, <2>3, <2>5 DEF StreamInv, PendingOwned
  <2>8. StreamsInOrder'
    BY <2>1, <2>2, <2>3, <2>4 DEF StreamInv, StreamsInOrder, Streams, new
  <2>9. QED
    BY <2>6, <2>7, <2>8 DEF StreamInv
<1>10. ASSUME NEW r \in Streams, HostCloses(r)
      PROVE  StreamInv'
  <2>1. /\ stream'[r].state = "closed" /\ stream'[r].told = stream[r].told
        /\ stream[r].state = "pending" /\ \A q \in Streams \ {r} : stream'[q] = stream[q]
        /\ UNCHANGED <<call, opened>>
    BY <1>10 DEF HostCloses, Typed, StreamState
  <2>2. ReadersWork' /\ StreamsInOrder'
    BY <2>1 DEF StreamInv, ReadersWork, StreamsInOrder
  <2>3. PendingOwned'
    BY <2>1 DEF StreamInv, PendingOwned
  <2>4. ToldIfGivenUp'
    BY <2>1 DEF StreamInv, ToldIfGivenUp
  <2>5. QED
    BY <2>2, <2>3, <2>4 DEF StreamInv
<1>11. ASSUME AbortAll \/ \E d \in OpIds : AbortOperation(d)
      PROVE  StreamInv'
  BY <1>11, StreamsAborted DEF AbortAll, AbortOperation
<1>12. CASE UNCHANGED <<call, stream, opened>>
  BY <1>12 DEF StreamInv, ReadersWork, StreamsInOrder, PendingOwned, ToldIfGivenUp
<1>13. QED
  BY ONLY Next, <1>1, <1>2, <1>3, <1>4, <1>5, <1>6, <1>7, <1>8, <1>9, <1>10, <1>11, <1>12
     DEF Next, CallStep, AbortStep, Listen, CancelAll, CancelOperation, SetHost, ClearHost,
         NewBinding,
         AdoptSettings, ClearClients, hubVars, cacheVars

\* A step keeps what the invariant says of clients.
LEMMA CacheInvNext == Typed /\ CacheInv /\ Next => CacheInv'
<1> SUFFICES ASSUME Typed, CacheInv, Next PROVE CacheInv'
  OBVIOUS
<1>1. ASSUME NEW c \in Calls, NEW d \in IdsOf[c], Generate(c, d)
      PROVE  CacheInv'
  BY <1>1, RuntimeAssumption DEF Generate, cacheVars, CacheInv, CacheCurrent, BuiltCurrent, Typed,
     CallState, Versions, NoClient
<1>2. ASSUME NEW c \in Calls, RouteMissing(c)
      PROVE  CacheInv'
  BY <1>2, RuntimeAssumption DEF RouteMissing, cacheVars, Finish, EndedCall, NewCall, CacheInv,
     CacheCurrent, BuiltCurrent, Typed, CallState, Versions, NoClient
<1>3. ASSUME NEW c \in Calls, FindClient(c)
      PROVE  CacheInv'
  BY <1>3, RuntimeAssumption DEF FindClient, cacheVars, CacheInv, CacheCurrent, BuiltCurrent,
     Typed, CallState, Versions, NoClient
<1>4. ASSUME NEW c \in Calls, BuildClient(c)
      PROVE  CacheInv'
  BY <1>4, RuntimeAssumption DEF BuildClient, cacheVars, CacheInv, CacheCurrent, BuiltCurrent,
     Typed, CallState, Versions, NoClient
<1>5. ASSUME NEW c \in Calls, BuildFails(c)
      PROVE  CacheInv'
  BY <1>5, RuntimeAssumption DEF BuildFails, cacheVars, Finish, EndedCall, NewCall, CacheInv,
     CacheCurrent, BuiltCurrent, Typed, CallState, Versions, NoClient
<1>6. ASSUME NEW c \in Calls, InsertClient(c)
      PROVE  CacheInv'
  BY <1>6, RuntimeAssumption DEF InsertClient, cacheVars, NewCall, CacheInv, CacheCurrent,
     BuiltCurrent, Typed, CallState, Versions, NoClient
<1>7. ASSUME NEW c \in Calls, DropWork(c)
      PROVE  CacheInv'
  BY <1>7, RuntimeAssumption DEF DropWork, cacheVars, Finish, EndedCall, NewCall, CacheInv,
     CacheCurrent, BuiltCurrent, Typed, CallState, Versions, NoClient
<1>8. ASSUME NEW c \in Calls, Poll(c)
      PROVE  CacheInv'
  BY <1>8, RuntimeAssumption DEF Poll, cacheVars, CacheInv, CacheCurrent, BuiltCurrent, Typed,
     CallState, Versions, NoClient
<1>9. ASSUME NEW c \in Calls, Await(c)
      PROVE  CacheInv'
  BY <1>9, RuntimeAssumption DEF Await, cacheVars, CacheInv, CacheCurrent, BuiltCurrent, Typed,
     CallState, Versions, NoClient
<1>10. ASSUME NEW c \in Calls, OpenStream(c)
      PROVE  CacheInv'
  BY <1>10, RuntimeAssumption DEF OpenStream, cacheVars, CacheInv, CacheCurrent, BuiltCurrent,
     Typed, CallState, Versions, NoClient
<1>11. ASSUME NEW c \in Calls, CloseStream(c)
      PROVE  CacheInv'
  BY <1>11, RuntimeAssumption DEF CloseStream, cacheVars, CacheInv, CacheCurrent, BuiltCurrent,
     Typed, CallState, Versions, NoClient
<1>12. ASSUME NEW c \in Calls, WorkEnds(c)
      PROVE  CacheInv'
  BY <1>12, RuntimeAssumption DEF WorkEnds, cacheVars, Finish, EndedCall, NewCall, CacheInv,
     CacheCurrent, BuiltCurrent, Typed, CallState, Versions, NoClient
<1>13. ASSUME NewBinding
      PROVE  CacheInv'
  BY <1>13, RuntimeAssumption DEF NewBinding, CacheInv, CacheCurrent, BuiltCurrent, Typed,
     CallState, Versions, NoClient
<1>14. ASSUME AdoptSettings
      PROVE  CacheInv'
  BY <1>14, RuntimeAssumption DEF AdoptSettings, CacheInv, CacheCurrent, BuiltCurrent, Typed,
     CallState, Versions, NoClient
<1>15. ASSUME ClearClients
      PROVE  CacheInv'
  BY <1>15, RuntimeAssumption DEF ClearClients, CacheInv, CacheCurrent, BuiltCurrent, Typed,
     CallState, Versions, NoClient
<1>16. CASE UNCHANGED <<call, cacheVars>>
  BY <1>16 DEF CacheInv, CacheCurrent, BuiltCurrent, cacheVars
<1>17. QED
  BY ONLY Next, <1>1, <1>2, <1>3, <1>4, <1>5, <1>6, <1>7, <1>8, <1>9, <1>10, <1>11, <1>12, <1>13,
     <1>14, <1>15, <1>16
     DEF Next, CallStep, AbortStep, Listen, CancelAll, CancelOperation, AbortOperation, AbortAll,
         Abort, SetHost, ClearHost, HostCloses, hubVars, cacheVars

-----------------------------------------------------------------------------
\* The invariant of the runtime: see its parts above.
THEOREM Invariance == Spec => []Inv
<1>1. Inv /\ [Next]_vars => Inv'
  <2>1. Inv /\ Next => Inv'
    BY TypedNext, TableInvNext, StreamInvNext, CacheInvNext DEF Inv
  <2>2. Inv /\ UNCHANGED vars => Inv'
    <3> SUFFICES ASSUME Inv, UNCHANGED vars PROVE Inv'
      OBVIOUS
    <3>1. Typed' /\ CacheInv'
      BY DEF Inv, Typed, CacheInv, CacheCurrent, BuiltCurrent, vars, hubVars, cacheVars
    <3>2. TableInv'
      BY DEF Inv, TableInv, IdsAreKnown, SharersKnown, TableIsOwn, LoneCallCancellable, InFlight,
         vars
    <3>3. StreamInv'
      BY StreamsKept DEF Inv, StreamInv, ReadersWork, vars, hubVars
    <3>4. QED
      BY <3>1, <3>2, <3>3 DEF Inv
  <2>3. QED
    BY <2>1, <2>2
<1>2. QED
  BY InitInv, <1>1, PTL DEF Spec

\* Of each stream given up the host is told once, of one it closed never.
THEOREM ToldOnce == Spec => []HostToldOnce
<1>1. Inv => HostToldOnce
  BY DEF Inv, StreamInv, PendingOwned, ToldIfGivenUp, HostToldOnce
<1>2. QED
  BY <1>1, Invariance, PTL

\* A call that has its id to itself stays cancellable.
THEOREM LoneCallsCancellable == Spec => []LoneCallCancellable
<1>1. Inv => LoneCallCancellable
  BY DEF Inv, TableInv
<1>2. QED
  BY <1>1, Invariance, PTL

\* The cache holds no client of settings that were replaced.
THEOREM CacheIsCurrent == Spec => []ClientsCurrent
<1>1. Inv => ClientsCurrent
  BY DEF Inv, CacheInv, CacheCurrent, ClientsCurrent, Typed
<1>2. QED
  BY <1>1, Invariance, PTL

-----------------------------------------------------------------------------
(***************************************************************************)
(* The subagent task manager.                                              *)
(***************************************************************************)

Statuses == {"not_found", "running", "completed", "failed", "cancelled"}
WorkerPlaces   == {"none", "start", "top", "ask", "asking", "tools", "finish", "over"}

RecordState == [status : Statuses, items : SUBSET Ids]
WorkerState == [pc : WorkerPlaces, background : BOOLEAN, from : Nat, items : SUBSET Ids,
                turns : Int, left : Int, failed : BOOLEAN]
WaiterState == [pc : {"idle", "polling", "returned"}, ids : SUBSET Nat, any : BOOLEAN]

TaskTyped ==
    /\ next \in Nat
    /\ record \in [Ids -> RecordState]
    /\ worker \in [Ids -> WorkerState]
    /\ token \subseteq Ids
    /\ waiter \in [Waiters -> WaiterState]
    /\ late \in [Ids -> Nat]

\* A task has a record from the moment its number is taken.
SpawnedHaveRecords ==
    \A k \in Ids :
        /\ k >= next => record[k].status = "not_found" /\ worker[k].pc = "none"
        /\ k < next  => record[k].status # "not_found" /\ worker[k].pc # "none"

\* The worker writes an outcome as its last act, and a kill writes it at once.
OutcomeIsLast == \A k \in Ids : record[k].status \in {"completed", "failed"} =>
                                    worker[k].pc = "over" /\ k \in record[k].items
KilledSaysSo  == \A k \in token : record[k].status = "cancelled"

\* A conversation that has begun holds the task's own prompt.
OwnPromptHeld == \A k \in Ids : worker[k].pc \notin {"none", "start", "over"} =>
                                    k \in worker[k].items

\* A request may be late once: the worker has looked at the token before it.
LateOnce == \A k \in Ids : late[k] # 0 => late[k] = 1 /\ k \in token /\ worker[k].pc # "ask"

\* Waiters name ids that were given out, or none.
WaitersKnow == \A w \in Waiters : waiter[w].ids \subseteq 0 .. next - 1

TaskInv == /\ TaskTyped /\ SpawnedHaveRecords /\ OutcomeIsLast /\ KilledSaysSo /\ OwnPromptHeld
           /\ LateOnce
ManagerInv == TaskInv /\ WaitersKnow /\ WaitMeansEnded

-----------------------------------------------------------------------------
\* A worker's locals stay of their type when some of them are set.
LEMMA WorkerChanges ==
    ASSUME NEW w \in WorkerState, NEW pc \in WorkerPlaces
    PROVE  /\ [w EXCEPT !.pc = pc] \in WorkerState
           /\ \A n \in Int : [w EXCEPT !.pc = pc, !.turns = n] \in WorkerState
           /\ \A n \in Int : [w EXCEPT !.left = n, !.pc = pc] \in WorkerState
           /\ \A n, m \in Int : [w EXCEPT !.pc = pc, !.turns = n, !.left = m] \in WorkerState
           /\ \A n \in Int, b \in BOOLEAN :
                 [w EXCEPT !.pc = pc, !.turns = n, !.failed = b] \in WorkerState
           /\ \A items \in SUBSET Ids, from \in Nat :
                 [w EXCEPT !.pc = pc, !.items = items, !.from = from] \in WorkerState
           /\ \A b \in BOOLEAN : [w EXCEPT !.pc = pc, !.background = b] \in WorkerState
           /\ \A b \in BOOLEAN, from \in Nat :
                 [w EXCEPT !.pc = pc, !.background = b, !.from = from] \in WorkerState
BY DEF WorkerState

\* The states before anything has happened are of their types.
LEMMA NoStateTypes == /\ NoWorker \in WorkerState
                      /\ NoRecord \in RecordState
                      /\ NoWait \in WaiterState
BY DEF NoWorker, WorkerState, WorkerPlaces, Nothing, NoRecord, RecordState, Statuses, NoWait,
     WaiterState

\* The first state has no task.
LEMMA TaskInitInv == TaskInit => ManagerInv
<1> SUFFICES ASSUME TaskInit PROVE ManagerInv
  OBVIOUS
<1>1. TaskTyped
  BY NoStateTypes DEF TaskInit, TaskTyped
<1>2. QED
  BY <1>1 DEF TaskInit, ManagerInv, TaskInv, SpawnedHaveRecords, OutcomeIsLast, KilledSaysSo,
       OwnPromptHeld,
     LateOnce, WaitersKnow, WaitMeansEnded, NoRecord, NoWorker, NoWait, Ids

\* A step keeps the types.
LEMMA TasksTypedNext == TaskTyped /\ TaskNext => TaskTyped'
<1> SUFFICES ASSUME TaskTyped, TaskNext PROVE TaskTyped'
  OBVIOUS
<1>p. /\ "start" \in WorkerPlaces /\ "top" \in WorkerPlaces /\ "ask" \in WorkerPlaces
      /\ "asking" \in WorkerPlaces
      /\ "tools" \in WorkerPlaces /\ "finish" \in WorkerPlaces /\ "over" \in WorkerPlaces
      /\ Nothing \in Nat /\ 0 \in Int /\ MaxCalls \in Nat
  BY TaskAssumption DEF WorkerPlaces, Nothing
<1>w. ASSUME NEW k \in Ids
      PROVE  /\ worker[k] \in WorkerState
             /\ worker[k].turns \in Int /\ worker[k].left \in Int /\ worker[k].pc \in WorkerPlaces
             /\ worker[k].items \in SUBSET Ids /\ worker[k].background \in BOOLEAN
  BY DEF TaskTyped, WorkerState
<1>o. ASSUME NEW k \in Ids
      PROVE  Over(k) \in WorkerState
  BY <1>p, <1>w, NoStateTypes, WorkerChanges, Zenon DEF Over
<1>r. ASSUME NEW k \in Ids
      PROVE  /\ record[k] \in RecordState /\ record[k].items \in SUBSET Ids
             /\ [record[k] EXCEPT !.status = "cancelled"] \in RecordState
  BY DEF TaskTyped, RecordState, Statuses
<1>1. ASSUME NEW background \in BOOLEAN, NEW from \in Ids \cup {Nothing}, SpawnTask(background,
       from)
      PROVE  TaskTyped'
  <2>1. next \in Ids /\ next + 1 \in Nat /\ from \in Nat
    BY <1>1, TaskAssumption DEF SpawnTask, TaskTyped, Ids, Nothing
  <2>2. [NoWorker EXCEPT !.pc = "start", !.background = background, !.from = from] \in WorkerState
    BY <1>p, <2>1, NoStateTypes, WorkerChanges, Zenon
  <2>3. [status |-> "running", items |-> {}] \in RecordState
    BY DEF RecordState, Statuses
  <2>4. QED
    BY <1>1, <2>1, <2>2, <2>3 DEF SpawnTask, TaskTyped
<1>2. ASSUME NEW k \in Ids, StartWorker(k)
      PROVE  TaskTyped'
  <2>1. (IF worker[k].from \in Ids THEN record[worker[k].from].items ELSE {}) \cup {k}
           \in SUBSET Ids
    BY <1>r
  <2>2. [worker[k] EXCEPT !.pc = "top",
                           !.items = (IF worker[k].from \in Ids
                                      THEN record[worker[k].from].items ELSE {}) \cup {k},
                           !.from = Nothing] \in WorkerState
    BY <1>p, <1>w, <2>1, WorkerChanges, Zenon
  <2>3. QED
    BY <1>2, <2>1, <2>2 DEF StartWorker, TaskTyped
<1>3. ASSUME NEW k \in Ids, BeginTurn(k)
      PROVE  TaskTyped'
  <2>1. worker[k].turns + 1 \in Int
    BY <1>w
  <2>2. [worker[k] EXCEPT !.pc = "ask", !.turns = worker[k].turns + 1] \in WorkerState
    BY <1>p, <1>w, <2>1, WorkerChanges, Zenon
  <2>3. QED
    BY <1>3, <2>1, <2>2 DEF BeginTurn, TaskTyped
<1>4. ASSUME NEW k \in Ids, StopCancelled(k)
      PROVE  TaskTyped'
  BY <1>4, <1>o, <1>r DEF StopCancelled, TaskTyped
<1>5. ASSUME NEW k \in Ids, OutOfTurns(k)
      PROVE  TaskTyped'
  <2>1. [worker[k] EXCEPT !.pc = "finish", !.turns = 0] \in WorkerState
    BY <1>p, <1>w, WorkerChanges, Zenon
  <2>2. QED
    BY <1>5, <2>1 DEF OutOfTurns, TaskTyped
<1>6. ASSUME NEW k \in Ids, SendRequest(k)
      PROVE  TaskTyped'
  <2>1. [worker[k] EXCEPT !.pc = "asking"] \in WorkerState
    BY <1>p, <1>w, WorkerChanges, Zenon
  <2>2. late' \in [Ids -> Nat]
    BY <1>6 DEF SendRequest, TaskTyped
  <2>3. QED
    BY <1>6, <2>1, <2>2 DEF SendRequest, TaskTyped
<1>7. ASSUME NEW k \in Ids, NEW calls \in 0 .. MaxCalls, Answered(k, calls)
      PROVE  TaskTyped'
  <2>1. (IF calls = 0 THEN "finish" ELSE "tools") \in WorkerPlaces
    BY <1>p
  <2>2. (IF calls = 0 THEN 0 ELSE worker[k].turns) \in Int /\ calls \in Int
    BY <1>p, <1>w
  <2>3. [worker[k] EXCEPT !.pc = IF calls = 0 THEN "finish" ELSE "tools",
                           !.turns = IF calls = 0 THEN 0 ELSE worker[k].turns,
                           !.left = calls] \in WorkerState
    BY <1>w, <2>1, <2>2, WorkerChanges, Zenon
  <2>4. QED
    BY <1>7, <2>1, <2>2, <2>3 DEF Answered, TaskTyped
<1>8. ASSUME NEW k \in Ids, RequestFails(k)
      PROVE  TaskTyped'
  <2>1. [worker[k] EXCEPT !.pc = "finish", !.turns = 0, !.failed = TRUE] \in WorkerState
    BY <1>p, <1>w, WorkerChanges, Zenon
  <2>2. QED
    BY <1>8, <2>1 DEF RequestFails, TaskTyped
<1>9. ASSUME NEW k \in Ids, RunTool(k)
      PROVE  TaskTyped'
  <2>1. worker[k].left - 1 \in Int
    BY <1>w
  <2>2. (IF worker[k].left = 1 THEN "top" ELSE worker[k].pc) \in WorkerPlaces
    BY <1>p, <1>w
  <2>3. [worker[k] EXCEPT !.left = worker[k].left - 1,
                           !.pc = IF worker[k].left = 1 THEN "top" ELSE worker[k].pc]
           \in WorkerState
    BY <1>w, <2>1, <2>2, WorkerChanges, Zenon
  <2>4. QED
    BY <1>9, <2>1, <2>2, <2>3 DEF RunTool, TaskTyped
<1>10. ASSUME NEW k \in Ids, FinishTask(k)
      PROVE  TaskTyped'
  <2>1. [status |-> IF worker[k].failed THEN "failed" ELSE "completed",
        items  |-> worker[k].items] \in RecordState
    BY <1>w DEF RecordState, Statuses
  <2>2. QED
    BY <1>10, <1>o, <2>1 DEF FinishTask, TaskTyped
<1>11. ASSUME NEW k \in Ids, DropForeground(k)
      PROVE  TaskTyped'
  BY <1>11, <1>o DEF DropForeground, TaskTyped
<1>12. ASSUME NEW k \in Ids, KillTask(k)
      PROVE  TaskTyped'
  BY <1>12, <1>r DEF KillTask, TaskTyped
<1>13. ASSUME NEW w \in Waiters,
             NEW ids \in SUBSET (Nothing .. next - 1), NEW any \in BOOLEAN, WaitTasks(w, ids, any)
      PROVE  TaskTyped'
  <2>1. ids \in SUBSET Nat
    BY DEF Nothing
  <2>2. [pc |-> "polling", ids |-> ids, any |-> any] \in WaiterState
    BY <2>1 DEF WaiterState
  <2>3. QED
    BY <1>13, <2>1, <2>2 DEF WaitTasks, TaskTyped
<1>14. ASSUME NEW w \in Waiters, WaitReturns(w)
      PROVE  TaskTyped'
  <2>1. [waiter[w] EXCEPT !.pc = "returned"] \in WaiterState
    BY DEF TaskTyped, WaiterState
  <2>2. QED
    BY <1>14, <2>1 DEF WaitReturns, TaskTyped
<1>15. ASSUME NEW w \in Waiters, WaitTimesOut(w)
      PROVE  TaskTyped'
  BY <1>15, NoStateTypes DEF WaitTimesOut, TaskTyped
<1>16. QED
  BY <1>1, <1>2, <1>3, <1>4, <1>5, <1>6, <1>7, <1>8, <1>9, <1>10, <1>11, <1>12, <1>13, <1>14,
     <1>15 DEF TaskNext, WorkerStep

\* A step keeps what the invariant says of tasks.
LEMMA TaskInvNext == TaskInv /\ TaskNext => TaskInv'
<1> SUFFICES ASSUME TaskInv, TaskNext PROVE TaskInv'
  OBVIOUS
<1> DEFINE Rest == SpawnedHaveRecords /\ OutcomeIsLast /\ KilledSaysSo /\ OwnPromptHeld /\ LateOnce
<1>t. TaskTyped /\ Rest
  BY DEF TaskInv
<1>1. ASSUME NEW background \in BOOLEAN, NEW from \in Ids \cup {Nothing}, SpawnTask(background,
       from)
      PROVE  Rest'
  BY <1>1, <1>t, TaskAssumption
     DEF SpawnTask, NoWorker, Ids, TaskTyped, RecordState, WorkerState, SpawnedHaveRecords,
         OutcomeIsLast,
         KilledSaysSo, OwnPromptHeld, LateOnce
<1>2. ASSUME NEW k \in Ids, StartWorker(k)
      PROVE  Rest'
  BY <1>2, <1>t, TaskAssumption
     DEF StartWorker, TaskTyped, RecordState, WorkerState, SpawnedHaveRecords, OutcomeIsLast,
         KilledSaysSo, OwnPromptHeld, LateOnce
<1>3. ASSUME NEW k \in Ids, BeginTurn(k)
      PROVE  Rest'
  BY <1>3, <1>t, TaskAssumption
     DEF BeginTurn, TaskTyped, RecordState, WorkerState, SpawnedHaveRecords, OutcomeIsLast,
         KilledSaysSo, OwnPromptHeld, LateOnce
<1>4. ASSUME NEW k \in Ids, StopCancelled(k)
      PROVE  Rest'
  BY <1>4, <1>t, TaskAssumption
     DEF StopCancelled, Over, NoWorker, TaskTyped, RecordState, WorkerState, SpawnedHaveRecords,
         OutcomeIsLast,
         KilledSaysSo, OwnPromptHeld, LateOnce
<1>5. ASSUME NEW k \in Ids, OutOfTurns(k)
      PROVE  Rest'
  BY <1>5, <1>t, TaskAssumption
     DEF OutOfTurns, TaskTyped, RecordState, WorkerState, SpawnedHaveRecords, OutcomeIsLast,
         KilledSaysSo, OwnPromptHeld, LateOnce
<1>6. ASSUME NEW k \in Ids, SendRequest(k)
      PROVE  Rest'
  BY <1>6, <1>t, TaskAssumption
     DEF SendRequest, TaskTyped, RecordState, WorkerState, SpawnedHaveRecords, OutcomeIsLast,
         KilledSaysSo, OwnPromptHeld, LateOnce
<1>7. ASSUME NEW k \in Ids, NEW calls \in 0 .. MaxCalls, Answered(k, calls)
      PROVE  Rest'
  BY <1>7, <1>t, TaskAssumption
     DEF Answered, TaskTyped, RecordState, WorkerState, SpawnedHaveRecords, OutcomeIsLast,
         KilledSaysSo, OwnPromptHeld, LateOnce
<1>8. ASSUME NEW k \in Ids, RequestFails(k)
      PROVE  Rest'
  BY <1>8, <1>t, TaskAssumption
     DEF RequestFails, TaskTyped, RecordState, WorkerState, SpawnedHaveRecords, OutcomeIsLast,
         KilledSaysSo, OwnPromptHeld, LateOnce
<1>9. ASSUME NEW k \in Ids, RunTool(k)
      PROVE  Rest'
  BY <1>9, <1>t, TaskAssumption
     DEF RunTool, TaskTyped, RecordState, WorkerState, SpawnedHaveRecords, OutcomeIsLast,
         KilledSaysSo, OwnPromptHeld, LateOnce
<1>10. ASSUME NEW k \in Ids, FinishTask(k)
      PROVE  Rest'
  BY <1>10, <1>t, TaskAssumption
     DEF FinishTask, Over, NoWorker, TaskTyped, RecordState, WorkerState, SpawnedHaveRecords,
         OutcomeIsLast,
         KilledSaysSo, OwnPromptHeld, LateOnce
<1>11. ASSUME NEW k \in Ids, DropForeground(k)
      PROVE  Rest'
  BY <1>11, <1>t, TaskAssumption
     DEF DropForeground, Over, NoWorker, TaskTyped, RecordState, WorkerState, SpawnedHaveRecords,
         OutcomeIsLast,
         KilledSaysSo, OwnPromptHeld, LateOnce
<1>12. ASSUME NEW k \in Ids, KillTask(k)
      PROVE  Rest'
  BY <1>12, <1>t, TaskAssumption
     DEF KillTask, Running, TaskTyped, RecordState, WorkerState, SpawnedHaveRecords, OutcomeIsLast,
         KilledSaysSo, OwnPromptHeld, LateOnce
<1>13. ASSUME NEW w \in Waiters, UNCHANGED <<next, record, worker, token, late>>
      PROVE  Rest'
  BY <1>13, <1>t DEF SpawnedHaveRecords, OutcomeIsLast, KilledSaysSo, OwnPromptHeld, LateOnce
<1>14. Rest'
  <2> HIDE DEF Rest
  <2> QED
    BY <1>1, <1>2, <1>3, <1>4, <1>5, <1>6, <1>7, <1>8, <1>9, <1>10, <1>11, <1>12,
         <1>13 DEF TaskNext,
       WorkerStep, WaitTasks, WaitReturns, WaitTimesOut
<1>15. QED
  BY <1>t, <1>14, TasksTypedNext DEF TaskInv

\* The record of a task that has ended is not written again.
LEMMA EndedStays ==
    ASSUME TaskInv, TaskNext, NEW k \in Ids, record[k].status \in Terminal
    PROVE  record'[k] = record[k]
<1> USE DEF TaskInv, TaskTyped, RecordState
<1>1. ASSUME NEW background \in BOOLEAN, NEW from \in Ids \cup {Nothing}, SpawnTask(background,
       from)
      PROVE  record'[k] = record[k]
  BY <1>1 DEF SpawnTask, SpawnedHaveRecords, Terminal
<1>2. ASSUME NEW j \in Ids, StopCancelled(j)
      PROVE  record'[k] = record[k]
  BY <1>2 DEF StopCancelled, KilledSaysSo
<1>3. ASSUME NEW j \in Ids, FinishTask(j)
      PROVE  record'[k] = record[k]
  BY <1>3 DEF FinishTask, OutcomeIsLast, Terminal
<1>4. ASSUME NEW j \in Ids, KillTask(j)
      PROVE  record'[k] = record[k]
  BY <1>4 DEF KillTask, Running, Terminal
<1>5. CASE UNCHANGED record
  BY <1>5
<1>6. QED
  BY ONLY TaskNext, <1>1, <1>2, <1>3, <1>4, <1>5
     DEF TaskNext, WorkerStep, StartWorker, BeginTurn, OutOfTurns, SendRequest, Answered,
          RequestFails,
         RunTool, DropForeground, WaitTasks, WaitReturns, WaitTimesOut

\* A task that was given out and does not run stays so.
LEMMA NotRunningStays ==
    ASSUME TaskInv, TaskNext, NEW k \in 0 .. next - 1, ~Running(k)
    PROVE  ~Running(k)'
<1>1. CASE k \in Ids
  <2>1. record[k].status \in Terminal
    BY <1>1 DEF TaskInv, TaskTyped, SpawnedHaveRecords, RecordState, Statuses, Running, Terminal
  <2>2. QED
    BY <1>1, <2>1, EndedStays DEF Running
<1>2. CASE k \notin Ids
  BY <1>2 DEF Running
<1>3. QED
  BY <1>1, <1>2

\* Numbers are given out upwards.
LEMMA NextGrows == TaskTyped /\ TaskNext => next' >= next
<1>1. ASSUME TaskTyped, NEW background \in BOOLEAN, NEW from \in Ids \cup {Nothing},
             SpawnTask(background, from)
      PROVE  next' >= next
  BY <1>1 DEF TaskTyped, SpawnTask
<1>2. TaskTyped /\ UNCHANGED next => next' >= next
  BY DEF TaskTyped
<1>3. QED
  BY <1>1, <1>2
     DEF TaskNext, WorkerStep, StartWorker, BeginTurn, StopCancelled, OutOfTurns, SendRequest,
          Answered,
         RequestFails, RunTool, FinishTask, DropForeground, KillTask, WaitTasks, WaitReturns,
         WaitTimesOut

\* A step keeps what the invariant says of waiters.
LEMMA WaitersNext == ManagerInv /\ TaskNext => (WaitersKnow /\ WaitMeansEnded)'
<1> SUFFICES ASSUME ManagerInv, TaskNext PROVE (WaitersKnow /\ WaitMeansEnded)'
  OBVIOUS
<1>t. TaskTyped /\ TaskInv
  BY DEF ManagerInv, TaskInv
<1>n. next \in Nat /\ next' \in Nat /\ next' >= next
  BY <1>t, NextGrows, TasksTypedNext DEF TaskTyped
<1>k. \A k \in 0 .. next - 1 : ~Running(k) => ~Running(k)'
  BY <1>t, NotRunningStays
<1>1. CASE UNCHANGED waiter
  <2>1. WaitersKnow'
    BY <1>1, <1>n DEF ManagerInv, WaitersKnow
  <2>2. ASSUME NEW w \in Waiters, waiter[w].pc = "returned"
        PROVE  (IF waiter[w].any THEN \E k \in waiter[w].ids : ~Running(k)'
                ELSE \A k \in waiter[w].ids : ~Running(k)')
    <3>1. waiter[w].ids \subseteq 0 .. next - 1
      BY DEF ManagerInv, WaitersKnow
    <3>2. IF waiter[w].any THEN \E k \in waiter[w].ids : ~Running(k)
          ELSE \A k \in waiter[w].ids : ~Running(k)
      BY <2>2 DEF ManagerInv, WaitMeansEnded
    <3>3. QED
      BY <1>k, <3>1, <3>2
  <2>3. QED
    BY <1>1, <2>1, <2>2 DEF WaitMeansEnded
<1>2. ASSUME NEW w \in Waiters, NEW ids \in SUBSET (Nothing .. next - 1), NEW any \in BOOLEAN,
             WaitTasks(w, ids, any)
      PROVE  (WaitersKnow /\ WaitMeansEnded)'
  BY <1>2, <1>t DEF ManagerInv, WaitTasks, WaitersKnow, WaitMeansEnded, TaskTyped, WaiterState,
       Nothing,
     Running
<1>3. ASSUME NEW w \in Waiters, WaitReturns(w)
      PROVE  (WaitersKnow /\ WaitMeansEnded)'
  BY <1>3, <1>t DEF ManagerInv, WaitReturns, WaitOver, WaitersKnow, WaitMeansEnded, TaskTyped,
       WaiterState,
     Running
<1>4. ASSUME NEW w \in Waiters, WaitTimesOut(w)
      PROVE  (WaitersKnow /\ WaitMeansEnded)'
  BY <1>4, <1>t DEF ManagerInv, WaitTimesOut, NoWait, WaitersKnow, WaitMeansEnded, TaskTyped,
       WaiterState,
     Running
<1>5. QED
  BY ONLY TaskNext, <1>1, <1>2, <1>3, <1>4
     DEF TaskNext, WorkerStep, SpawnTask, StartWorker, BeginTurn, StopCancelled, OutOfTurns,
         SendRequest, Answered, RequestFails, RunTool, FinishTask, DropForeground, KillTask

-----------------------------------------------------------------------------
\* The invariant of the task manager: see its parts above.
THEOREM TaskInvariance == TaskSpec => []ManagerInv
<1>1. ManagerInv /\ [TaskNext]_taskVars => ManagerInv'
  <2>1. ManagerInv /\ TaskNext => ManagerInv'
    BY TaskInvNext, WaitersNext DEF ManagerInv
  <2>2. ManagerInv /\ UNCHANGED taskVars => ManagerInv'
    BY DEF ManagerInv, TaskInv, TaskTyped, SpawnedHaveRecords, OutcomeIsLast, KilledSaysSo,
         OwnPromptHeld,
       LateOnce, WaitersKnow, WaitMeansEnded, Running, taskVars
  <2>3. QED
    BY <2>1, <2>2
<1>2. QED
  BY TaskInitInv, <1>1, PTL DEF TaskSpec

\* A killed task makes at most the request it was about to make.
THEOREM KilledStops == TaskSpec => []KilledTaskStops
<1>1. ManagerInv => KilledTaskStops
  BY DEF ManagerInv, TaskInv, LateOnce, KilledTaskStops, TaskTyped
<1>2. QED
  BY <1>1, TaskInvariance, PTL

\* What wait_tasks waited for has happened, and stays so, whatever comes after.
THEOREM WaitsMeanEnded == TaskSpec => []WaitMeansEnded
<1>1. ManagerInv => WaitMeansEnded
  BY DEF ManagerInv
<1>2. QED
  BY <1>1, TaskInvariance, PTL

\* The first outcome of a task stands, whatever writes come after it.
THEOREM OutcomesStand == TaskSpec => TerminalIsFinal
<1>1. ManagerInv /\ [TaskNext]_taskVars => [\A k \in Ids : record[k].status \in Terminal =>
    record'[k] = record[k]]_taskVars
  BY EndedStays DEF ManagerInv
<1>2. QED
  BY <1>1, TaskInvariance, PTL DEF TaskSpec, TerminalIsFinal

\* A task resumed from one that had ended takes up its conversation.
THEOREM ResumptionContinues == TaskSpec => ResumeContinues
<1> DEFINE Continues ==
        \A k \in Ids : worker[k].pc = "start" /\ worker'[k].pc = "top" /\ worker[k].from \in Ids
           /\ record[worker[k].from].status \in {"completed", "failed"}
              => worker[k].from \in worker'[k].items
<1>1. ManagerInv /\ TaskNext => Continues
  <2> SUFFICES ASSUME ManagerInv, TaskNext, NEW k \in Ids, worker[k].pc = "start",
  worker'[k].pc = "top",
                      worker[k].from \in Ids,
                      record[worker[k].from].status \in {"completed", "failed"}
               PROVE  worker[k].from \in worker'[k].items
    OBVIOUS
  <2>1. worker \in [Ids -> WorkerState]
    BY DEF ManagerInv, TaskInv, TaskTyped
  <2>2. worker[k].from \in record[worker[k].from].items
    BY DEF ManagerInv, TaskInv, OutcomeIsLast
  <2>3. StartWorker(k)
    <3>1. ASSUME NEW background \in BOOLEAN, NEW from \in Ids \cup {Nothing},
                 SpawnTask(background, from)
          PROVE  FALSE
      BY <2>1, <3>1 DEF SpawnTask, WorkerState, NoWorker
    <3>2. ASSUME NEW j \in Ids, BeginTurn(j) \/ OutOfTurns(j) \/ SendRequest(j) \/ RequestFails(j)
          PROVE  FALSE
      BY <2>1, <3>2 DEF WorkerState, BeginTurn, OutOfTurns, SendRequest, RequestFails
    <3>3. ASSUME NEW j \in Ids, NEW calls \in 0 .. MaxCalls, Answered(j, calls)
          PROVE  FALSE
      BY <2>1, <3>3 DEF WorkerState, Answered
    <3>4. ASSUME NEW j \in Ids, RunTool(j)
          PROVE  FALSE
      BY <2>1, <3>4 DEF WorkerState, RunTool
    <3>5. ASSUME NEW j \in Ids, StopCancelled(j) \/ FinishTask(j) \/ DropForeground(j)
          PROVE  FALSE
      BY <2>1, <3>5 DEF WorkerState, StopCancelled, FinishTask, DropForeground, Over, NoWorker
    <3>6. ASSUME NEW j \in Ids, j # k, StartWorker(j)
          PROVE  FALSE
      BY <2>1, <3>6 DEF WorkerState, StartWorker
    <3>7. ~UNCHANGED worker
      OBVIOUS
    <3>8. QED
      BY ONLY TaskNext, <3>1, <3>2, <3>3, <3>4, <3>5, <3>6, <3>7
         DEF TaskNext, WorkerStep, KillTask, WaitTasks, WaitReturns, WaitTimesOut
  <2>4. QED
    BY <2>1, <2>2, <2>3 DEF StartWorker, WorkerState
<1>2. ManagerInv /\ [TaskNext]_taskVars => [Continues]_taskVars
  BY <1>1
<1>3. QED
  BY <1>2, TaskInvariance, PTL DEF TaskSpec, ResumeContinues
=============================================================================
