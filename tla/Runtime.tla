------------------------------ MODULE Runtime ------------------------------
(***************************************************************************)
(* One-shot generation on a shared runtime (runtime.rs) and the hub of the *)
(* streams the host's own model feeds (llm/host.rs): the table of          *)
(* operations and their cancellation, the table of pending streams, and    *)
(* the cache of clients.                                                   *)
(*                                                                         *)
(* The calls race on the executor's threads, with each other and with the  *)
(* host, which answers, cancels and reconfigures from threads of its own.  *)
(* A poll of a call looks at its token first (the select! is biased), and  *)
(* then runs the work on to its next await, whatever happens meanwhile.    *)
(* What a visit is sent and what a chunk says is LlmClient's; here a call  *)
(* opens streams one after the other and is over at some point.            *)
(***************************************************************************)
EXTENDS Integers, FiniteSets

CONSTANTS Calls,        \* calls of generate_text_async
          NoCall,
          OpIds,        \* operation ids, given by the host
          IdsOf,        \* the ids a call may be given
          NoId,
          MaxStreams,   \* bound on the streams opened
          MaxCancels,   \* bound on cancel_operation and cancel_all
          MaxVersions,  \* bound on the changes of settings, and of host callbacks
          MaxActs       \* bound on all of these together

ASSUME RuntimeAssumption ==
    /\ NoCall \notin Calls
    /\ NoId \notin OpIds
    /\ IdsOf \in [Calls -> SUBSET OpIds]
    /\ {MaxStreams, MaxCancels, MaxVersions, MaxActs} \subseteq Nat

Streams  == 1 .. MaxStreams
Versions == 0 .. MaxVersions
NoClient == -1

VARIABLES call,        \* per call: the locals of the spawned task
          operations,  \* operations: id -> the call whose token is there
          cancelled,   \* calls whose token is cancelled
          stream,      \* per stream: its owner, and its state in the hub
          opened,      \* number of streams opened
          aborting,    \* ids whose streams cancel_operation has yet to abort
          abortingAll, \* cancel_all has yet to abort the streams
          cancels,     \* number of cancellations
          callback,    \* the host's request callback is set
          listening,   \* ... and its cancel callback
          binding,     \* host_binding_generation
          settings,    \* http_settings, as a version
          clearing,    \* adopt_http_settings has yet to clear the clients
          clients,     \* one_shot_clients: by binding, the settings of the client
          shared,      \* history: calls that shared their id with another
          raced        \* history: a client was built while the settings changed

hubVars    == <<stream, opened>>
cancelVars == <<cancelled, aborting, abortingAll, cancels>>
hostVars   == <<callback, listening>>
cacheVars  == <<binding, settings, clearing, clients, raced>>
vars == <<call, operations, cancelVars, hubVars, hostVars, cacheVars, shared>>

-----------------------------------------------------------------------------
NewCall == [pc |-> "idle", id |-> NoId, binding |-> 0, built |-> NoClient, stream |-> 0]
EndedCall == [NewCall EXCEPT !.pc = "done"]

\* state: "none", "pending" in the hub, "closed" by the host, or taken out of the
\* hub by the runtime, which aborts it or drops its reader: "given up", or
\* "unheard" if the host does not listen.  told: how often the host was told.
NewStream == [owner |-> NoCall, id |-> NoId, state |-> "none", told |-> 0]

Acts == cancels + binding + settings

\* The stream, given up by the runtime.
GivenUp(s) == IF listening THEN [s EXCEPT !.state = "given up", !.told = @ + 1]
                           ELSE [s EXCEPT !.state = "unheard"]

InFlight(c) == call[c].pc \notin {"idle", "done"}

\* The host has set its callbacks.
Init ==
    /\ call = [c \in Calls |-> NewCall]
    /\ operations = [d \in OpIds |-> NoCall]
    /\ cancelled = {} /\ aborting = {} /\ abortingAll = FALSE /\ cancels = 0
    /\ stream = [r \in Streams |-> NewStream] /\ opened = 0
    /\ callback = TRUE /\ listening = TRUE /\ binding = 0 /\ settings = 0 /\ clearing = FALSE
    /\ clients = [v \in Versions |-> NoClient]
    /\ shared = {} /\ raced = FALSE

\* ---- generate_text_async

\* The token is registered under the id, in the place of any other's.
Generate(c, d) ==
    LET others == {e \in Calls : InFlight(e) /\ call[e].id = d}
    IN /\ call[c].pc = "idle"
       /\ operations' = [operations EXCEPT ![d] = c]
       /\ call' = [call EXCEPT ![c].pc = "start", ![c].id = d]
       /\ shared' = shared \cup (IF others = {} THEN {} ELSE {c} \cup others)
       /\ UNCHANGED <<cancelVars, hubVars, hostVars, cacheVars>>

\* The result is there, whatever it is: the token under the id is removed,
\* whose ever it is, and on_done is called.
Finish(c) ==
    /\ call' = [call EXCEPT ![c] = EndedCall]
    /\ operations' = [operations EXCEPT ![call[c].id] = NoCall]
    /\ shared' = shared \ {c}

\* RouteNotConfigured, the clients of the pool being forgotten.  update_routing
\* may run at any time, and the pool be there or not.
RouteMissing(c) ==
    /\ call[c].pc = "start"
    /\ clients' = [v \in Versions |-> NoClient]
    /\ Finish(c)
    /\ UNCHANGED <<cancelVars, hubVars, hostVars, binding, settings, clearing, raced>>

\* client_for_pool: the client of the current binding, or a new one.
FindClient(c) ==
    /\ call[c].pc = "start"
    /\ call' = [call EXCEPT
                  ![c].pc = IF clients[binding] # NoClient THEN "wait" ELSE "build",
                  ![c].binding = IF clients[binding] # NoClient THEN 0 ELSE binding]
    /\ UNCHANGED <<operations, cancelVars, hubVars, hostVars, cacheVars, shared>>

\* http_engine_config, and the client with it.
BuildClient(c) ==
    /\ call[c].pc = "build"
    /\ call' = [call EXCEPT ![c].pc = "insert", ![c].built = settings]
    /\ UNCHANGED <<operations, cancelVars, hubVars, hostVars, cacheVars, shared>>

\* The pool is gone since: the error is the call's outcome.
BuildFails(c) ==
    /\ call[c].pc = "build"
    /\ Finish(c)
    /\ UNCHANGED <<cancelVars, hubVars, hostVars, cacheVars>>

InsertClient(c) ==
    /\ call[c].pc = "insert"
    /\ clients' = [clients EXCEPT ![call[c].binding] = call[c].built]
    /\ call' = [call EXCEPT ![c] = [NewCall EXCEPT !.pc = "wait", !.id = call[c].id]]
    /\ UNCHANGED <<operations, cancelVars, hubVars, hostVars, binding, settings, clearing, raced,
                   shared>>

\* ---- generate_text_on

\* The reader of a stream is dropped: HostStreamGuard takes the stream out of
\* the hub and tells the host, if nobody did.
DropStream(r) ==
    IF r # 0 /\ stream[r].state = "pending"
    THEN stream' = [stream EXCEPT ![r] = GivenUp(@)]
    ELSE UNCHANGED stream

\* The work is dropped: its token is cancelled.
DropWork(c) ==
    /\ call[c].pc = "wait" /\ c \in cancelled
    /\ DropStream(call[c].stream)
    /\ Finish(c)
    /\ UNCHANGED <<cancelVars, opened, hostVars, cacheVars>>

\* Faulty variant: the work is polled without a look at the token.
PollBlindly(c) ==
    /\ call[c].pc = "wait"
    /\ call' = [call EXCEPT ![c].pc = "poll"]
    /\ UNCHANGED <<operations, cancelVars, hubVars, hostVars, cacheVars, shared>>

\* The token is not cancelled, and the work has something to go on with: HTTP,
\* a stream that says something or is over, or its time being up.
Poll(c) ==
    /\ call[c].pc = "wait" /\ c \notin cancelled
    /\ call' = [call EXCEPT ![c].pc = "poll"]
    /\ UNCHANGED <<operations, cancelVars, hubVars, hostVars, cacheVars, shared>>

\* The work waits again.
Await(c) ==
    /\ call[c].pc = "poll"
    /\ call' = [call EXCEPT ![c].pc = "wait"]
    /\ UNCHANGED <<operations, cancelVars, hubVars, hostVars, cacheVars, shared>>

\* begin_with_meta, for a visit of a host slot: the stream is put in the hub
\* under the operation's id, and the host is asked.
OpenStream(c) ==
    /\ call[c].pc = "poll" /\ call[c].stream = 0
    /\ callback /\ opened < MaxStreams
    /\ opened' = opened + 1
    /\ stream' = [stream EXCEPT ![opened + 1] =
                    [owner |-> c, id |-> call[c].id, state |-> "pending", told |-> 0]]
    /\ call' = [call EXCEPT ![c].stream = opened + 1]
    /\ UNCHANGED <<operations, cancelVars, hostVars, cacheVars, shared>>

\* The visit is over, with its stream: the host has closed it, it was aborted,
\* or the client gave it up.
CloseStream(c) ==
    /\ call[c].pc = "poll" /\ call[c].stream # 0
    /\ DropStream(call[c].stream)
    /\ call' = [call EXCEPT ![c].stream = 0]
    /\ UNCHANGED <<operations, cancelVars, opened, hostVars, cacheVars, shared>>

\* Faulty variant: the stream is left in the hub.
WorkEndsUndropped(c) ==
    /\ call[c].pc = "poll"
    /\ UNCHANGED stream
    /\ Finish(c)
    /\ UNCHANGED <<cancelVars, opened, hostVars, cacheVars>>

\* The operation has an outcome, its timeout among them: the work is dropped.
WorkEnds(c) ==
    /\ call[c].pc = "poll"
    /\ DropStream(call[c].stream)
    /\ Finish(c)
    /\ UNCHANGED <<cancelVars, opened, hostVars, cacheVars>>

CallStep(c) ==
    \/ RouteMissing(c) \/ FindClient(c) \/ BuildClient(c) \/ BuildFails(c) \/ InsertClient(c)
    \/ DropWork(c) \/ Poll(c) \/ Await(c)
    \/ OpenStream(c) \/ CloseStream(c) \/ WorkEnds(c)

\* ---- the host

\* finish, fail: the stream leaves the hub.
HostCloses(r) ==
    /\ stream[r].state = "pending"
    /\ stream' = [stream EXCEPT ![r].state = "closed"]
    /\ UNCHANGED <<call, operations, cancelVars, opened, hostVars, cacheVars, shared>>

\* Faulty variant: the token is taken out of the table as it is cancelled.
CancelTakesToken(d) ==
    /\ cancels < MaxCancels /\ Acts < MaxActs
    /\ cancels' = cancels + 1
    /\ cancelled' = cancelled \cup ({operations[d]} \ {NoCall})
    /\ operations' = [operations EXCEPT ![d] = NoCall]
    /\ aborting' = aborting \cup {d}
    /\ UNCHANGED <<call, abortingAll, hubVars, hostVars, cacheVars, shared>>

\* cancel_operation: first the token, then the streams.
CancelOperation(d) ==
    /\ cancels < MaxCancels /\ Acts < MaxActs
    /\ cancels' = cancels + 1
    /\ cancelled' = cancelled \cup ({operations[d]} \ {NoCall})
    /\ aborting' = aborting \cup {d}
    /\ UNCHANGED <<call, operations, abortingAll, hubVars, hostVars, cacheVars, shared>>

CancelAll ==
    /\ cancels < MaxCancels /\ Acts < MaxActs
    /\ cancels' = cancels + 1
    /\ cancelled' = cancelled \cup ({operations[d] : d \in OpIds} \ {NoCall})
    /\ abortingAll' = TRUE
    /\ UNCHANGED <<call, operations, aborting, hubVars, hostVars, cacheVars, shared>>

\* abort_operation, abort_all: the pending streams S fail and leave the hub
\* together, and the host is told of each.
Abort(S) ==
    stream' = [r \in Streams |->
                 IF r \in S /\ stream[r].state = "pending"
                 THEN GivenUp(stream[r]) ELSE stream[r]]

AbortOperation(d) ==
    /\ d \in aborting
    /\ aborting' = aborting \ {d}
    /\ Abort({r \in 1 .. opened : stream[r].id = d})
    /\ UNCHANGED <<call, operations, cancelled, abortingAll, cancels, opened, hostVars,
                   cacheVars, shared>>

AbortAll ==
    /\ abortingAll
    /\ abortingAll' = FALSE
    /\ Abort(Streams)
    /\ UNCHANGED <<call, operations, cancelled, aborting, cancels, opened, hostVars,
                   cacheVars, shared>>

\* A new binding; the clients of the old one can no longer be found and are dropped.
NewBinding ==
    /\ binding < MaxVersions /\ Acts < MaxActs
    /\ binding' = binding + 1
    /\ clients' = [v \in Versions |-> NoClient]
    /\ UNCHANGED <<call, operations, cancelVars, hubVars, settings, clearing, raced, shared>>

\* set_host_llm_notify
SetHost == NewBinding /\ callback' = TRUE /\ UNCHANGED listening

\* clear_host_llm_notify: nobody is asked, nor told, any more.  Pending streams
\* stay in the hub.
ClearHost == NewBinding /\ callback' = FALSE /\ listening' = FALSE

\* set_host_llm_cancel_notify
Listen ==
    /\ ~listening
    /\ listening' = TRUE
    /\ UNCHANGED <<call, operations, cancelVars, hubVars, callback, cacheVars, shared>>

\* adopt_http_settings, under the lock of the settings.
AdoptSettings ==
    /\ settings < MaxVersions /\ Acts < MaxActs /\ ~clearing
    /\ settings' = settings + 1
    /\ clearing' = TRUE
    /\ raced' = (raced \/ \E c \in Calls : call[c].pc = "insert")
    /\ UNCHANGED <<call, operations, cancelVars, hubVars, hostVars, binding, clients,
                   shared>>

\* Faulty variant: the clients built with the old settings are kept.
KeepClients ==
    /\ clearing
    /\ clearing' = FALSE
    /\ UNCHANGED <<call, operations, cancelVars, hubVars, hostVars, binding, settings,
                   clients, raced, shared>>

\* ... and after it.
ClearClients ==
    /\ clearing
    /\ clearing' = FALSE
    /\ clients' = [v \in Versions |-> NoClient]
    /\ UNCHANGED <<call, operations, cancelVars, hubVars, hostVars, binding, settings,
                   raced, shared>>

AbortStep == AbortAll \/ \E d \in OpIds : AbortOperation(d)

Next ==
    \/ \E c \in Calls : CallStep(c) \/ \E d \in IdsOf[c] : Generate(c, d)
    \/ \E r \in Streams : HostCloses(r)
    \/ \E d \in OpIds : CancelOperation(d)
    \/ CancelAll \/ AbortStep
    \/ SetHost \/ ClearHost \/ Listen \/ AdoptSettings \/ ClearClients

Spec == Init /\ [][Next]_vars

\* The executor polls a call whose token is cancelled; the host may leave its
\* streams open for ever.
FairSpec ==
    /\ Spec
    /\ \A c \in Calls :
          /\ WF_vars(\/ RouteMissing(c) \/ FindClient(c)
                     \/ BuildClient(c) \/ BuildFails(c) \/ InsertClient(c))
          /\ WF_vars(DropWork(c))
          /\ WF_vars(Await(c) \/ CloseStream(c) \/ WorkEnds(c))

-----------------------------------------------------------------------------

\* "Notifies the host that an in-flight request was cancelled or dropped": of
\* every stream the runtime gave up a listening host is told, once, and of a stream it
\* has closed itself never, however closing, aborting and dropping race.  No
\* stream stays in the hub without a reader.
HostToldOnce ==
    \A r \in Streams :
        /\ stream[r].told = IF stream[r].state = "given up" THEN 1 ELSE 0
        /\ stream[r].state = "pending" => call[stream[r].owner].stream = r

\* A call that has its id to itself can be cancelled until it ends, and the
\* table holds no token of a call that has ended.
LoneCallCancellable ==
    /\ \A c \in Calls : InFlight(c) /\ c \notin shared => operations[call[c].id] = c
    /\ \A d \in OpIds : operations[d] # NoCall => InFlight(operations[d])

\* A cancelled call ends, whatever the host does with its streams, and takes
\* them with it.
CancelledCallsEnd == \A c \in Calls : c \in cancelled ~> call[c].pc = "done"

\* A client found in the cache has the settings the last engine brought, unless
\* it was being built while they changed: such a client stays until the next
\* change.
ClientsCurrent ==
    ~clearing /\ ~raced => clients[binding] \in {settings, NoClient}

=============================================================================
