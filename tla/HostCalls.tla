------------------------------ MODULE HostCalls ------------------------------
(***************************************************************************)
(* The tool calls of chats and subagents that need the host: the hub of    *)
(* the host's own tools (tools/host.rs), the WebView the host lends        *)
(* (tools/webview.rs), and how an agent waits for them (execute_tool in    *)
(* engine.rs, the loop of agent/task_manager.rs).  An agent makes one call *)
(* at a time.  The id of a call, a random UUID in the code, is the agent   *)
(* and the number of the call.                                             *)
(***************************************************************************)
EXTENDS Naturals, FiniteSets

CONSTANTS Chats,       \* turns of the engine
          Subagents,   \* turns of the task manager
          Repertoires, \* agent -> the tools its model calls: the combinations
          HostSets,    \* the sets of names the host registers as its tools
          MaxCalls,    \* bound on the calls of an agent
          MaxChanges   \* bound on the host's changes of callbacks and tools

Agents == Chats \cup Subagents
Hubs   == {"tools", "web"}

\* What assemble registers for subagents, and on top of it for chats.  talent
\* stands for a name that only the host may register; browse for web_fetch and
\* web_search.
SubagentTools == {"browse", "plan", "scheduler", "notification"}
ChatTools     == SubagentTools \cup {"ask_user_question"}
BuiltIns(a)   == IF a \in Chats THEN ChatTools ELSE SubagentTools

ASSUME HostCallsAssumption ==
    /\ Chats \cap Subagents = {}
    /\ Repertoires \subseteq [Agents -> SUBSET (ChatTools \cup {"talent"})]
    /\ {MaxCalls, MaxChanges} \subseteq Nat

VARIABLES repertoire,\* the combination of this behaviour
          call,      \* agent -> the call it is in: its tool, and where it is
          made,      \* agent -> calls begun
          cancelled, \* agents whose token is cancelled
          hook,      \* hub -> a callback is set
          specs,     \* HostToolHub.specs: names of the host's tools
          pending,   \* hub -> ids whose answers are awaited
          mail,      \* calls with an answer in their channel: output or error
          telling,   \* agents whose event is in the host's callback: they
                     \* hold the lock of HostToolHub.notify
          changes,   \* changes the host has made
          accepted,  \* history: id -> answers complete() took
          outcome    \* history: id -> how a call for the host ended

agentVars == <<repertoire, call, made, cancelled, outcome>>
hubVars   == <<hook, specs, pending, mail, telling, changes, accepted>>
hostVars  == <<agentVars, hubVars>>

-----------------------------------------------------------------------------
Idle   == [tool |-> "none", at |-> "idle", arg |-> "none", num |-> 0]
Ids    == Agents \X (1 .. MaxCalls)
Id(a)  == <<a, made[a]>>
Hub(a) == IF call[a].tool = "browse" THEN "web" ELSE "tools"

At(a, tool, at) == call[a].tool = tool /\ call[a].at = at
Waiting(a)      == call[a].at = "waiting"
Awaited(id)     == \E a \in Agents : Waiting(a) /\ Id(a) = id

HostInit ==
    /\ repertoire \in Repertoires
    /\ call = [a \in Agents |-> Idle] /\ made = [a \in Agents |-> 0]
    /\ cancelled = {}
    /\ hook = [h \in Hubs |-> TRUE]
    /\ specs = {} /\ changes = 0
    /\ pending = [h \in Hubs |-> {}] /\ mail = {}
    /\ telling = {}
    /\ accepted = [id \in Ids |-> 0] /\ outcome = [id \in Ids |-> "none"]

\* a's call goes on at another step, or ends.
Goto(a, at) ==
    /\ call' = [call EXCEPT ![a].at = at]
    /\ UNCHANGED <<repertoire, made, cancelled, outcome>>

Return(a) ==
    /\ call' = [call EXCEPT ![a] = Idle]
    /\ UNCHANGED <<repertoire, made, cancelled, outcome>>

\* A call for the host ends.
End(a, how) ==
    /\ call' = [call EXCEPT ![a] = Idle]
    /\ outcome' = [outcome EXCEPT ![Id(a)] = how]
    /\ UNCHANGED <<repertoire, made, cancelled>>

\* ---- an agent calls a tool

\* execute_tool: a built-in tool before one of the host's.  The task manager
\* knows no tools of the host.
Route(a, tool) ==
    IF tool \in BuiltIns(a) THEN "run"
    ELSE IF a \in Chats /\ tool \in specs THEN "routed"
    ELSE "unknown"

CallTool(a, tool, arg, num) ==
    /\ call[a].at = "idle" /\ a \notin cancelled /\ made[a] < MaxCalls
    /\ tool \in repertoire[a]
    /\ made' = [made EXCEPT ![a] = @ + 1]
    /\ IF Route(a, tool) = "unknown"
       THEN call' = call /\ outcome' = [outcome EXCEPT ![<<a, made[a] + 1>>] = "refused"]
       ELSE /\ call' = [call EXCEPT ![a] = [tool |-> tool, at |-> Route(a, tool),
                                              arg |-> arg, num |-> num]]
            /\ UNCHANGED outcome
    /\ UNCHANGED <<repertoire, cancelled, hubVars>>

\* HostToolHub::execute looks its name up again: the host may have replaced its
\* tools since.
TalentGone(a) ==
    /\ At(a, "talent", "routed") /\ "talent" \notin specs
    /\ End(a, "refused")
    /\ UNCHANGED hubVars

\* dispatch_host_call and WebViewHost::fetch begin: the callback is read, the
\* call entered in the table, and the host told.
AtDispatch(a) ==
    \/ At(a, "talent", "routed") /\ "talent" \in specs
    \/ At(a, "ask_user_question", "run")
    \/ At(a, "browse", "run")

\* Without a callback ask_user_question says so in its output, the others fail.
NoHost(a) ==
    /\ AtDispatch(a) /\ ~hook[Hub(a)]
    /\ Hub(a) = "tools" => telling = {}
    /\ End(a, "refused")
    /\ UNCHANGED hubVars

Dispatch(a) ==
    /\ AtDispatch(a) /\ hook[Hub(a)]
    /\ Hub(a) = "tools" => telling = {}
    /\ pending' = [pending EXCEPT ![Hub(a)] = @ \cup {Id(a)}]
    /\ Goto(a, "waiting")
    /\ UNCHANGED <<hook, specs, mail, telling, changes, accepted>>

\* ---- the host

\* Faulty variant: the entry stays for a second answer.
CompleteTwice(h, id) ==
    /\ id \in pending[h]
    /\ IF Awaited(id)
       THEN /\ mail' = mail \cup {id}
            /\ accepted' = [accepted EXCEPT ![id] = @ + 1]
       ELSE UNCHANGED <<mail, accepted>>
    /\ UNCHANGED <<agentVars, pending, hook, specs, telling, changes>>

\* complete: an id that is not in the table is refused, one whose call has
\* ended is forgotten ("receiver dropped").
Complete(h, id) ==
    /\ id \in pending[h]
    /\ pending' = [pending EXCEPT ![h] = @ \ {id}]
    /\ IF Awaited(id)
       THEN /\ mail' = mail \cup {id}
            /\ accepted' = [accepted EXCEPT ![id] = @ + 1]
       ELSE UNCHANGED <<mail, accepted>>
    /\ UNCHANGED <<agentVars, hook, specs, telling, changes>>

\* Changes that no agent of the behaviour can notice are left out.
Noticed(tools) == \E a \in Agents : repertoire[a] \cap tools # {}
HubUsers(h)    == IF h = "web" THEN {"browse"} ELSE (ChatTools \cup {"talent"}) \ {"browse", "plan"}

\* set_notify and clear_notify, which wait while an event is being told.
SetCallback(h, set) ==
    /\ changes < MaxChanges /\ hook[h] # set /\ Noticed(HubUsers(h))
    /\ h = "tools" => telling = {}
    /\ hook' = [hook EXCEPT ![h] = set]
    /\ changes' = changes + 1
    /\ UNCHANGED <<agentVars, specs, pending, mail, telling, accepted>>

\* set_tools: a name of a built-in tool is skipped.
SetTools(names) ==
    /\ changes < MaxChanges /\ specs # names \ ChatTools /\ Noticed({"talent"})
    /\ specs' = names \ ChatTools
    /\ changes' = changes + 1
    /\ UNCHANGED <<agentVars, hook, pending, mail, telling, accepted>>

\* ---- the wait ends

Forgotten(a) == [pending EXCEPT ![Hub(a)] = @ \ {Id(a)}]

\* The channel is dropped with the call, and what the host sent into it.
Leave(a, how) ==
    /\ End(a, how)
    /\ mail' = mail \ {Id(a)}
    /\ UNCHANGED <<hook, specs, telling, changes, accepted>>

Receive(a) ==
    /\ Waiting(a) /\ Id(a) \in mail
    /\ Leave(a, "answered")
    /\ UNCHANGED pending

\* Two selects of the engine watch the token besides the one of the call; when
\* one of them sees it first, the call is dropped and its entry stays.
Cancelled(a) ==
    /\ Waiting(a) /\ a \in cancelled
    /\ Leave(a, "dropped")
    /\ \/ pending' = Forgotten(a)
       \/ a \in Chats /\ UNCHANGED pending

\* Faulty variant: built-in tools alone have a limit.
BuiltInTimeout(a) ==
    /\ Waiting(a) /\ a \in Chats /\ call[a].tool \in ChatTools
    /\ Leave(a, "dropped")
    /\ UNCHANGED pending

\* The engine drops a call after 120 s.
ToolTimeout(a) ==
    /\ Waiting(a) /\ a \in Chats
    /\ Leave(a, "dropped")
    /\ UNCHANGED pending

\* A WebView call has a limit of its own.
WebViewTimeout(a) ==
    /\ Waiting(a) /\ Hub(a) = "web"
    /\ Leave(a, "dropped")
    /\ pending' = Forgotten(a)

\* Outside the host's calls no tool looks at the token: the turn just makes no
\* other call.
CancelTurn(a) ==
    /\ a \notin cancelled /\ Waiting(a)
    /\ cancelled' = cancelled \cup {a}
    /\ UNCHANGED <<repertoire, call, made, outcome, hubVars>>

\* ---- events, which await no answer

\* notify_event keeps the lock of the callback while the host has the event.
\* Without a callback the event is lost.
CanTell == telling = {}

TellHost(a, at) ==
    /\ CanTell
    /\ telling' = IF hook["tools"] THEN {a} ELSE {}
    /\ Goto(a, at)
    /\ UNCHANGED <<hook, specs, pending, mail, changes, accepted>>

Told(a) == telling' = telling \ {a}

\* The notification tool: an event, and done.
Notify(a) == At(a, "notification", "run") /\ TellHost(a, "told")

Notified(a) ==
    /\ At(a, "notification", "told")
    /\ Told(a)
    /\ Return(a)
    /\ UNCHANGED <<hook, specs, pending, mail, changes, accepted>>

HostStep(a) ==
    \/ TalentGone(a) \/ NoHost(a) \/ Dispatch(a)
    \/ Receive(a) \/ Cancelled(a) \/ ToolTimeout(a) \/ WebViewTimeout(a)
    \/ Notify(a) \/ Notified(a)

HostNext ==
    \/ \E h \in Hubs, id \in Ids : Complete(h, id)
    \/ \E h \in Hubs, set \in BOOLEAN : SetCallback(h, set)
    \/ \E names \in HostSets : SetTools(names)
    \/ \E a \in Agents : CancelTurn(a)

=============================================================================
