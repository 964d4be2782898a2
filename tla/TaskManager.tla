---------------------------- MODULE TaskManager ----------------------------
(***************************************************************************)
(* The subagent task manager (agent/task_manager.rs) and its tools         *)
(* (tools/task.rs): tasks spawned in the background or awaited by the tool *)
(* call that spawned them, resumed from earlier tasks, killed and waited   *)
(* for while they run their own loop of LLM requests and tool calls.       *)
(*                                                                         *)
(* Tasks are numbered by the manager's counter.  The conversation of a     *)
(* task is the set of the prompts it contains, each named by its task.     *)
(* Everything is in memory: nothing of it outlives the process.            *)
(***************************************************************************)
EXTENDS Integers, FiniteSets

CONSTANTS MaxTasks,   \* bound on the tasks spawned
          MaxTurns,   \* min(EngineConfig.max_turns, 10)
          MaxCalls,   \* bound on the tool calls of one answer
          Waiters     \* concurrent calls of wait_tasks

ASSUME TaskAssumption == {MaxTasks, MaxTurns, MaxCalls} \subseteq Nat

Ids == 1 .. MaxTasks

\* resume_from = None
Nothing == 0

VARIABLES next,    \* counter
          record,  \* TaskRecord: its status and items
          worker,  \* per task: the locals of run_subagent
          token,   \* tasks whose cancel_token is cancelled
          waiter,  \* per wait_tasks call: where it is and what it waits for
          late     \* history: requests started once the task was killed

taskVars == <<next, record, worker, token, waiter, late>>

-----------------------------------------------------------------------------
NoRecord == [status |-> "not_found", items |-> {}]
NoWorker == [pc |-> "none", background |-> FALSE, from |-> Nothing, items |-> {},
             turns |-> 0, left |-> 0, failed |-> FALSE]
NoWait   == [pc |-> "idle", ids |-> {}, any |-> FALSE]

\* The locals go with the function; how the task was run stays known.
Over(k)  == [NoWorker EXCEPT !.pc = "over", !.background = worker[k].background]

Terminal == {"completed", "failed", "cancelled"}

\* An id that names no task is as good as an ended one.
Running(k) == k \in Ids /\ record[k].status = "running"

TaskInit ==
    /\ next = 1
    /\ record = [k \in Ids |-> NoRecord]
    /\ worker = [k \in Ids |-> NoWorker]
    /\ token = {}
    /\ waiter = [w \in Waiters |-> NoWait]
    /\ late = [k \in Ids |-> 0]

\* spawn_task: the record is there before the worker runs.  An id given out
\* earlier can be resumed; any other names no task.
SpawnTask(background, from) ==
    /\ next <= MaxTasks
    /\ from \in Nothing .. next - 1
    /\ record' = [record EXCEPT ![next] = [status |-> "running", items |-> {}]]
    /\ worker' = [worker EXCEPT ![next] =
                    [NoWorker EXCEPT !.pc = "start", !.background = background, !.from = from]]
    /\ next' = next + 1
    /\ UNCHANGED <<token, waiter, late>>

\* The tool call that awaits a foreground task is cancelled or times out, and
\* the task's worker is dropped with it.
DropForeground(k) ==
    /\ worker[k].pc \notin {"none", "over"}
    /\ ~worker[k].background
    /\ worker' = [worker EXCEPT ![k] = Over(k)]
    /\ UNCHANGED <<next, record, token, waiter, late>>

\* ---- run_subagent

\* Faulty variant: a resumed task does not take up the earlier conversation.
StartAfresh(k) ==
    /\ worker[k].pc = "start"
    /\ worker' = [worker EXCEPT ![k].pc = "top", ![k].items = {k}, ![k].from = Nothing]
    /\ UNCHANGED <<next, record, token, waiter, late>>

\* The conversation of the task to resume is read now, not when it was asked.
StartWorker(k) ==
    LET earlier == IF worker[k].from \in Ids THEN record[worker[k].from].items ELSE {}
    IN /\ worker[k].pc = "start"
       /\ worker' = [worker EXCEPT ![k].pc = "top", ![k].items = earlier \cup {k},
                                   ![k].from = Nothing]
       /\ UNCHANGED <<next, record, token, waiter, late>>

\* Faulty variant: the head of the loop does not look at the token.
BeginTurnBlindly(k) ==
    /\ worker[k].pc = "top" /\ worker[k].turns < MaxTurns
    /\ worker' = [worker EXCEPT ![k].pc = "ask", ![k].turns = @ + 1]
    /\ UNCHANGED <<next, record, token, waiter, late>>

\* Head of the loop: another turn, unless the limit is reached or the token is
\* cancelled.
BeginTurn(k) ==
    /\ worker[k].pc = "top" /\ worker[k].turns < MaxTurns
    /\ k \notin token
    /\ worker' = [worker EXCEPT ![k].pc = "ask", ![k].turns = @ + 1]
    /\ UNCHANGED <<next, record, token, waiter, late>>

StopCancelled(k) ==
    /\ worker[k].pc = "top" /\ worker[k].turns < MaxTurns
    /\ k \in token
    /\ record' = [record EXCEPT ![k].status = "cancelled"]
    /\ worker' = [worker EXCEPT ![k] = Over(k)]
    /\ UNCHANGED <<next, token, waiter, late>>

\* The turns are used up: the task ends like one that has answered.
OutOfTurns(k) ==
    /\ worker[k].pc = "top" /\ worker[k].turns = MaxTurns
    /\ worker' = [worker EXCEPT ![k].pc = "finish", ![k].turns = 0]
    /\ UNCHANGED <<next, record, token, waiter, late>>

SendRequest(k) ==
    /\ worker[k].pc = "ask"
    /\ worker' = [worker EXCEPT ![k].pc = "asking"]
    /\ late' = IF k \in token THEN [late EXCEPT ![k] = @ + 1] ELSE late
    /\ UNCHANGED <<next, record, token, waiter>>

Answered(k, calls) ==
    /\ worker[k].pc = "asking"
    /\ worker' = [worker EXCEPT ![k].pc = IF calls = 0 THEN "finish" ELSE "tools",
                                ![k].turns = IF calls = 0 THEN 0 ELSE @,
                                ![k].left = calls]
    /\ UNCHANGED <<next, record, token, waiter, late>>

RequestFails(k) ==
    /\ worker[k].pc = "asking"
    /\ worker' = [worker EXCEPT ![k].pc = "finish", ![k].turns = 0, ![k].failed = TRUE]
    /\ UNCHANGED <<next, record, token, waiter, late>>

\* A tool of the batch runs; the token is not looked at.
RunTool(k) ==
    /\ worker[k].pc = "tools"
    /\ worker' = [worker EXCEPT ![k].left = @ - 1,
                                ![k].pc = IF worker[k].left = 1 THEN "top" ELSE @]
    /\ UNCHANGED <<next, record, token, waiter, late>>

\* Faulty variant: the outcome is written over whatever the record says.
FinishAnyway(k) ==
    /\ worker[k].pc = "finish"
    /\ record' = [record EXCEPT ![k] =
                    [status |-> IF worker[k].failed THEN "failed" ELSE "completed",
                     items  |-> worker[k].items]]
    /\ worker' = [worker EXCEPT ![k] = Over(k)]
    /\ UNCHANGED <<next, token, waiter, late>>

\* Faulty variant: a failed task leaves its record as it is.
FinishUnlessFailed(k) ==
    /\ worker[k].pc = "finish"
    /\ record' = IF record[k].status = "cancelled" \/ worker[k].failed THEN record
                 ELSE [record EXCEPT ![k] = [status |-> "completed", items |-> worker[k].items]]
    /\ worker' = [worker EXCEPT ![k] = Over(k)]
    /\ UNCHANGED <<next, token, waiter, late>>

\* The outcome is recorded, unless the task was killed meanwhile.
FinishTask(k) ==
    /\ worker[k].pc = "finish"
    /\ record' = IF record[k].status = "cancelled" THEN record
                 ELSE [record EXCEPT ![k] =
                         [status |-> IF worker[k].failed THEN "failed" ELSE "completed",
                          items  |-> worker[k].items]]
    /\ worker' = [worker EXCEPT ![k] = Over(k)]
    /\ UNCHANGED <<next, token, waiter, late>>

\* ---- the other tools

KillTask(k) ==
    /\ Running(k)
    /\ token' = token \cup {k}
    /\ record' = [record EXCEPT ![k].status = "cancelled"]
    /\ UNCHANGED <<next, worker, waiter, late>>

\* The ids were given out earlier, or name no task; there is at least one.
WaitTasks(w, ids, any) ==
    /\ waiter[w].pc = "idle"
    /\ ids # {}
    /\ waiter' = [waiter EXCEPT ![w] = [pc |-> "polling", ids |-> ids, any |-> any]]
    /\ UNCHANGED <<next, record, worker, token, late>>

\* Faulty variant: the two modes are taken for one another.
WaitOverSwapped(ids, any) ==
    IF any THEN \A k \in ids : ~Running(k) ELSE \E k \in ids : ~Running(k)

\* wait_any or wait_all is satisfied.
WaitOver(ids, any) ==
    IF any THEN \E k \in ids : ~Running(k) ELSE \A k \in ids : ~Running(k)

WaitReturns(w) ==
    /\ waiter[w].pc = "polling"
    /\ WaitOver(waiter[w].ids, waiter[w].any)
    /\ waiter' = [waiter EXCEPT ![w].pc = "returned"]
    /\ UNCHANGED <<next, record, worker, token, late>>

WaitTimesOut(w) ==
    /\ waiter[w].pc = "polling"
    /\ waiter' = [waiter EXCEPT ![w] = NoWait]
    /\ UNCHANGED <<next, record, worker, token, late>>

WorkerStep(k) ==
    \/ StartWorker(k) \/ BeginTurn(k) \/ StopCancelled(k) \/ OutOfTurns(k) \/ SendRequest(k)
    \/ (\E calls \in 0 .. MaxCalls : Answered(k, calls)) \/ RequestFails(k)
    \/ RunTool(k) \/ FinishTask(k)

TaskNext ==
    \/ \E background \in BOOLEAN, from \in Ids \cup {Nothing} : SpawnTask(background, from)
    \/ \E k \in Ids : WorkerStep(k) \/ DropForeground(k) \/ KillTask(k)
    \/ \E w \in Waiters :
          \/ \E ids \in SUBSET (Nothing .. next - 1), any \in BOOLEAN : WaitTasks(w, ids, any)
          \/ WaitReturns(w) \/ WaitTimesOut(w)

TaskSpec == TaskInit /\ [][TaskNext]_taskVars

\* The runtime polls every worker; requests end by themselves (see LlmClient)
\* and the tools of a subagent have timeouts of their own.
FairTaskSpec == TaskSpec /\ \A k \in Ids : WF_taskVars(WorkerStep(k))

-----------------------------------------------------------------------------

\* kill_task races the end of the task it kills: whichever comes first stands,
\* and no later write of the worker changes a task that has ended.
TerminalIsFinal ==
    [][\A k \in Ids : record[k].status \in Terminal => record'[k] = record[k]]_taskVars

\* A killed task makes at most the request it was about to make.  Its current
\* batch of tools, on the other hand, runs to its end.
KilledTaskStops == \A k \in Ids : late[k] <= 1

\* "Pass `resume_from` with a prior subagent id to continue that conversation":
\* so it does for a prior task that had run to its end when it was named.  A
\* killed or dropped one has left no conversation to continue.
ResumeContinues ==
    [][\A k \in Ids : worker[k].pc = "start" /\ worker'[k].pc = "top" /\ worker[k].from \in Ids
          /\ record[worker[k].from].status \in {"completed", "failed"}
             => worker[k].from \in worker'[k].items]_taskVars

\* What wait_tasks reports when it was not the timeout that ended it: all of
\* the tasks have ended, and stay so, or one of them.
WaitMeansEnded ==
    \A w \in Waiters : waiter[w].pc = "returned" =>
        IF waiter[w].any THEN \E k \in waiter[w].ids : ~Running(k)
                         ELSE \A k \in waiter[w].ids : ~Running(k)

\* A background task ends, also for those who look at its record only.  (A
\* foreground one that is dropped is reported as running for ever.)
BackgroundTasksEnd ==
    \A k \in Ids : Running(k) /\ worker[k].background ~> record[k].status \in Terminal

=============================================================================
