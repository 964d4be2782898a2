------------------------------ MODULE ToolCalls ------------------------------
(***************************************************************************)
(* The tool calls of concurrent agents over what they share: the host      *)
(* (HostCalls), the schedules with their file and the system's scheduler   *)
(* the host arms for them (agent/scheduler_manager.rs, tools/scheduler.rs),*)
(* and the plan (tools/plan.rs).  The process may die and start again.     *)
(***************************************************************************)
EXTENDS HostCalls

FSE == INSTANCE FiniteSetsExt
LOCAL INSTANCE TLC

CONSTANT MaxFaults \* bound on failed writes and restarts

VARIABLES tasks,    \* SchedulerManager.tasks, by number; all are Scheduled
          counter,  \* SchedulerManager.counter
          file,     \* scheduler.json: the tasks in it, or Torn
          armed,    \* what the host was told to schedule and not told to drop
          loose,    \* history: tasks for which file and host need not agree
          planned,  \* PlanState.todo: step -> status
          shown,    \* PlanState.items, which snapshot() reads
          drafts,   \* agent -> the copy of the plan its call took
          overtaken,\* history: an update was made while another had a copy
          faults    \* faults so far

scheduleVars == <<tasks, counter, file, armed, loose>>
planVars     == <<planned, shown, drafts, overtaken>>
vars         == <<hostVars, scheduleVars, planVars, faults>>

Torn == {0}

-----------------------------------------------------------------------------
\* ---- the scheduler

InScheduler(a, action, at) == At(a, "scheduler", at) /\ call[a].arg = action

\* delete_task tells the host under the lock of the tasks.
Locked == \E a \in Agents : InScheduler(a, "delete", "telling")

\* load_from_disk: a file that does not parse leaves no tasks, and the counter
\* where it starts.
Loaded(f) == f \ Torn

FirstFree(f) == FSE!Max(Loaded(f) \cup {0}) + 1

List(a) ==
    /\ InScheduler(a, "list", "run") /\ ~Locked
    /\ Return(a)
    /\ UNCHANGED <<hubVars, scheduleVars>>

\* create_task up to its save: an id, and the task in memory.
Create(a) ==
    /\ InScheduler(a, "create", "run") /\ ~Locked
    /\ tasks' = tasks \cup {counter}
    /\ counter' = counter + 1
    /\ call' = [call EXCEPT ![a].at = "saving", ![a].num = counter]
    /\ UNCHANGED <<repertoire, made, cancelled, outcome, hubVars, file, armed, loose>>

\* A task is being created by another agent, and the host does not know it yet.
BeingCreated(t) ==
    \E a \in Agents : call[a].num = t /\ (InScheduler(a, "create", "saving")
                                           \/ InScheduler(a, "create", "arming"))

DeleteUnknown(a) ==
    /\ InScheduler(a, "delete", "run") /\ ~Locked /\ call[a].num \notin tasks
    /\ Return(a)
    /\ UNCHANGED <<hubVars, scheduleVars>>

\* Faulty variant: the task is out of the file before the host hears of it.
DeleteSavesFirst(a) ==
    LET t == call[a].num
    IN /\ InScheduler(a, "delete", "run") /\ ~Locked /\ t \in tasks
       /\ TellHost(a, "telling")
       /\ tasks' = tasks \ {t}
       /\ file' = tasks \ {t}
       /\ loose' = loose
       /\ UNCHANGED <<counter, armed>>

\* delete_task up to the event: out of memory, and the host told.  A task whose
\* creation is not over will be armed after this.
Delete(a) ==
    LET t == call[a].num
    IN /\ InScheduler(a, "delete", "run") /\ ~Locked /\ t \in tasks
       /\ TellHost(a, "telling")
       /\ tasks' = tasks \ {t}
       /\ armed' = IF hook["tools"] THEN armed \ {t} ELSE armed
       /\ loose' = IF BeingCreated(t) \/ ~hook["tools"] THEN loose \cup {t} ELSE loose
       /\ UNCHANGED <<counter, file>>

\* save_to_disk, under the lock of the tasks; a failure is ignored.
Saves(a) == call[a].at = "saving" /\ ~Locked

AfterSave(a) == IF call[a].arg = "create" THEN Goto(a, "arming") ELSE Return(a)

Save(a) ==
    /\ Saves(a)
    /\ file' = tasks
    /\ AfterSave(a)
    /\ UNCHANGED <<hubVars, tasks, counter, armed, loose>>

\* The write fails before it has changed the file, or after it was truncated.
SaveFails(a) ==
    /\ Saves(a)
    /\ file' \in {file, Torn}
    /\ loose' = loose \cup {t \in tasks \cup armed : (t \in tasks) # (t \in file')}
    /\ AfterSave(a)
    /\ UNCHANGED <<hubVars, tasks, counter, armed>>

\* The host is told of the new task.
Arm(a) ==
    /\ InScheduler(a, "create", "arming")
    /\ TellHost(a, "telling")
    /\ armed' = IF hook["tools"] THEN armed \cup {call[a].num} ELSE armed
    /\ UNCHANGED <<tasks, counter, file, loose>>

\* The callback returns; delete_task drops its lock and saves.
HostKnows(a) ==
    /\ At(a, "scheduler", "telling")
    /\ Told(a)
    /\ IF call[a].arg = "delete" THEN Goto(a, "saving") ELSE Return(a)
    /\ UNCHANGED <<hook, specs, pending, mail, changes, accepted, scheduleVars>>

SchedulerStep(a) ==
    \/ List(a) \/ Create(a) \/ DeleteUnknown(a) \/ Delete(a)
    \/ Save(a) \/ Arm(a) \/ HostKnows(a)

\* ---- the plan, one for all sessions and subagents

\* The updates a model may send, as the steps they name with their status.
\* Names that come twice, or none, are refused.
PlanArgs == [replace |-> "s1" :> "pending",
             finish  |-> "s1" :> "completed",
             extend  |-> "s2" :> "pending",
             nothing |-> [s \in {} |-> "pending"]]

\* apply_merge and apply_replace
Updated(arg) ==
    IF arg = "replace" THEN PlanArgs[arg] ELSE PlanArgs[arg] @@ planned

PlanRefused(a) ==
    /\ At(a, "plan", "run") /\ DOMAIN PlanArgs[call[a].arg] = {}
    /\ Return(a)
    /\ UNCHANGED planVars

\* Faulty variant: the copy is taken before the update.
UpdatePlanLate(a) ==
    /\ At(a, "plan", "run") /\ DOMAIN PlanArgs[call[a].arg] # {}
    /\ planned' = Updated(call[a].arg)
    /\ drafts' = [drafts EXCEPT ![a] = planned]
    /\ overtaken' = (overtaken \/ \E b \in Agents : At(b, "plan", "copied"))
    /\ Goto(a, "copied")
    /\ UNCHANGED shown

\* Under the lock of the plan: the update, and a copy of the plan.
UpdatePlan(a) ==
    /\ At(a, "plan", "run") /\ DOMAIN PlanArgs[call[a].arg] # {}
    /\ planned' = Updated(call[a].arg)
    /\ drafts' = [drafts EXCEPT ![a] = planned']
    /\ overtaken' = (overtaken \/ \E b \in Agents : At(b, "plan", "copied"))
    /\ Goto(a, "copied")
    /\ UNCHANGED shown

\* Under the lock of the items: the copy is what snapshot() and the UI get.
ShowPlan(a) ==
    /\ At(a, "plan", "copied")
    /\ shown' = drafts[a]
    /\ drafts' = [drafts EXCEPT ![a] = <<>>]
    /\ Return(a)
    /\ UNCHANGED <<planned, overtaken>>

PlanStep(a) == PlanRefused(a) \/ UpdatePlan(a) \/ ShowPlan(a)

\* ---- the process

Init ==
    /\ HostInit
    /\ tasks = {} /\ counter = 1 /\ file = {} /\ armed = {} /\ loose = {}
    /\ planned = <<>> /\ shown = <<>> /\ drafts = [a \in Agents |-> <<>>]
    /\ overtaken = FALSE
    /\ faults = 0

\* The process dies and starts again; the host sets its callbacks anew.
Restart ==
    /\ faults < MaxFaults
    /\ faults' = faults + 1
    /\ call' = [a \in Agents |-> Idle]
    /\ outcome' = [id \in Ids |-> IF Awaited(id) THEN "dropped" ELSE outcome[id]]
    /\ cancelled' = {} /\ pending' = [h \in Hubs |-> {}] /\ mail' = {} /\ telling' = {}
    /\ specs' = {}
    /\ UNCHANGED <<repertoire, made, hook, changes, accepted>>
    /\ tasks' = Loaded(file) /\ counter' = FirstFree(file)
    /\ UNCHANGED <<file, armed, loose>>
    /\ planned' = <<>> /\ shown' = <<>> /\ drafts' = [a \in Agents |-> <<>>]
    /\ UNCHANGED overtaken

\* The calls a model makes: the host's tools take no argument here.
Calls(a) ==
    \/ \E tool \in {"talent", "browse", "ask_user_question", "notification"} :
          CallTool(a, tool, "none", 0)
    \/ \E arg \in {"create", "list"} : CallTool(a, "scheduler", arg, 0)
    \/ \E t \in 1 .. counter : CallTool(a, "scheduler", "delete", t)
    \/ \E arg \in DOMAIN PlanArgs : CallTool(a, "plan", arg, 0)

AgentStep(a) ==
    \/ HostStep(a) /\ UNCHANGED <<scheduleVars, planVars, faults>>
    \/ SchedulerStep(a) /\ UNCHANGED <<planVars, faults>>
    \/ PlanStep(a) /\ UNCHANGED <<hubVars, scheduleVars, faults>>

Fault ==
    \/ Restart
    \/ \E a \in Agents : SaveFails(a) /\ faults < MaxFaults /\ faults' = faults + 1
                                      /\ UNCHANGED planVars

Next ==
    \/ \E a \in Agents : AgentStep(a)
    \/ (HostNext \/ \E a \in Agents : Calls(a)) /\ UNCHANGED <<scheduleVars, planVars, faults>>
    \/ Fault

\* The code of an agent runs on, its timers fire, and the host's callbacks
\* return.  The host need not answer any call.
Spec == Init /\ [][Next]_vars /\ \A a \in Agents : WF_vars(AgentStep(a))

-----------------------------------------------------------------------------
\* What the host does with a call and what the call makes of it agree: complete
\* succeeds at most once for an id, a call that ends with an answer ends with
\* the one that was taken, and an answer that was taken is not lost unless the
\* call was cancelled, ran out of time or died with the process.
AnswersDelivered ==
    \A id \in Ids :
        /\ accepted[id] <= 1
        /\ outcome[id] = "answered" => accepted[id] = 1
        /\ accepted[id] = 1 =>
             (Awaited(id) /\ id \in mail) \/ outcome[id] \in {"answered", "dropped"}

\* An entry in the tables of the hubs is that of a call that waits, or of a
\* chat's call that an outer timeout or cancel dropped without the hub.
PendingAccounted ==
    \A h \in Hubs : \A id \in pending[h] :
        Awaited(id) \/ (id[1] \in Chats /\ outcome[id] = "dropped")

\* The tables of the hubs, the channels and the calls agree.
HubsConsistent == AnswersDelivered /\ PendingAccounted

\* Whatever the host's system was told to run and not told to drop is on file
\* and survives a restart, between any two steps of creations and deletions by
\* several agents.  Not so (loose) after a write failed, when no callback took
\* the cancellation, or when a task was deleted before its creation was over.
ArmedOnFile == armed \ loose \subseteq Loaded(file)

\* A new task never has the id of one the host still runs, after restarts and
\* deletions too: it would replace that one.
IdsFresh ==
    \A a \in Agents : BeingCreated(call[a].num) => call[a].num \notin armed \ loose

\* The schedules of the host's system, of the file and of the ids to come agree.
SchedulesKept == ArmedOnFile /\ IdsFresh

\* With no update between its two locks, what snapshot() and the UI have is the
\* plan, unless an update overtook another one there.
PlanShown == overtaken \/ shown = planned \/ \E a \in Agents : At(a, "plan", "copied")

\* Every call of a tool ends, whether the host answers it or not.
CallsEnd == \A a \in Agents : call[a].at # "idle" ~> call[a].at = "idle"

=============================================================================
