---------------------------- MODULE AgentEngine ----------------------------
(***************************************************************************)
(* The agent engine (engine.rs): concurrent chat calls, each running one   *)
(* turn of a session through its loop of LLM requests and tool calls; the  *)
(* cancellation of sessions; and the session files (session.rs).           *)
(*                                                                         *)
(* A chat is dropped by the select! of its cancellation token at any await *)
(* once its token is cancelled.  select! polls its branches in no fixed    *)
(* order, so what was about to start when the token was cancelled may      *)
(* start, and what had already come back may be taken.                     *)
(*                                                                         *)
(* A session file is written to <id>.tmp and renamed, so a crash leaves the *)
(* old file or the new one, and saving is one step.                        *)
(***************************************************************************)
EXTENDS SessionItems

CONSTANTS Sessions,    \* session ids
          NoSession,   \* a chat not yet begun
          Answers,     \* per chat, what models may answer: calls, or the last answer
          MaxTurns,    \* EngineConfig.max_turns
          MaxCancels,  \* bound on the calls of cancel
          MayCrash,    \* BOOLEAN: the process may die, once
          MayDelete    \* BOOLEAN: sessions may be deleted

ASSUME EngineAssumption ==
    /\ NoSession \notin Sessions
    /\ Answers \in [Chats -> SUBSET Answer]
    /\ \A c \in Chats : \A a \in Answers[c] : a.calls = 0 <=> a.sig = NoSignature
    /\ {MaxTurns, MaxCancels} \subseteq Nat
    /\ {MayCrash, MayDelete} \subseteq BOOLEAN

NoFile == <<>>

VARIABLES chat,       \* per chat: the locals of chat_async and run_turn
          active,     \* cancellation.active, as the chat whose token is there
          started,    \* cancellation.started
          pending,    \* cancellation.pending
          cancelled,  \* chats whose token is cancelled
          aborting,   \* cancel calls that have yet to abort the host streams
          disk,       \* <id>.json, NoFile when absent
          cancels,    \* history: number of cancel calls
          stillborn,  \* history: chats whose token was cancelled as they began
          overlapped, \* history: chats that shared their session with another
          late,       \* history: requests and tools started once cancelled
          shrunk,     \* history: sessions compacted or deleted
          crashed

tokenVars   == <<active, started, pending, cancelled, aborting>>
historyVars == <<cancels, stillborn, overlapped, late, shrunk, crashed>>
vars == <<chat, tokenVars, disk, historyVars>>

-----------------------------------------------------------------------------
\* pc: where the turn is; left: calls of the batch yet to run; aborted: the open
\* request waited for the host's own model and was aborted.
NewChat ==
    [pc |-> "idle", session |-> NoSession, items |-> <<>>, turns |-> 0, run |-> NoRun,
     left |-> 0, aborted |-> FALSE, outcome |-> "none"]

InFlight(c) == chat[c].pc \notin {"idle", "done"}

Init ==
    /\ chat = [c \in Chats |-> NewChat]
    /\ active = [s \in Sessions |-> NoChat]
    /\ started = {} /\ pending = {} /\ cancelled = {} /\ aborting = 0
    /\ disk = [s \in Sessions |-> NoFile]
    /\ cancels = 0 /\ stillborn = {} /\ overlapped = {}
    /\ late = [c \in Chats |-> 0]
    /\ shrunk = {} /\ crashed = FALSE

\* Faulty variant: a cancel that waits for the next turn is not consumed.
BeginKeepsPending(c, s) ==
    LET others == {d \in Chats : InFlight(d) /\ chat[d].session = s}
    IN /\ chat[c].pc = "idle"
       /\ chat' = [chat EXCEPT ![c].pc = "load", ![c].session = s]
       /\ cancelled' = cancelled \cup (IF s \in pending THEN {c} ELSE {})
       /\ pending' = pending
       /\ started' = started \cup {s}
       /\ active' = [active EXCEPT ![s] = c]
       /\ stillborn' = stillborn \cup (IF s \in pending THEN {c} ELSE {})
       /\ overlapped' = overlapped \cup (IF others = {} THEN {} ELSE {c} \cup others)
       /\ UNCHANGED <<aborting, disk, cancels, late, shrunk, crashed>>

\* chat_async registers a token, cancelled at once if a cancel came first.
BeginChat(c, s) ==
    LET others == {d \in Chats : InFlight(d) /\ chat[d].session = s}
        dead   == IF s \in pending THEN {c} ELSE {}
    IN /\ chat[c].pc = "idle"
       /\ chat' = [chat EXCEPT ![c].pc = "load", ![c].session = s]
       /\ cancelled' = cancelled \cup dead
       /\ pending' = pending \ {s}
       /\ started' = started \cup {s}
       /\ active' = [active EXCEPT ![s] = c]
       /\ stillborn' = stillborn \cup dead
       /\ overlapped' = overlapped \cup (IF others = {} THEN {} ELSE {c} \cup others)
       /\ UNCHANGED <<aborting, disk, cancels, late, shrunk, crashed>>

\* run_turn is over: the session's token is removed, whose ever it is, and the
\* observer gets its last event.
Finish(c, outcome) ==
    /\ chat' = [chat EXCEPT ![c] =
                  [NewChat EXCEPT !.pc = "done", !.session = chat[c].session, !.outcome = outcome]]
    /\ active' = [active EXCEPT ![chat[c].session] = NoChat]
    /\ UNCHANGED <<started, pending, cancelled, aborting>>

\* A select! takes the branch of the cancelled token.
Dropped(c) ==
    /\ c \in cancelled
    /\ chat[c].pc \in {"load", "ask", "asking", "call", "tool"}
    /\ Finish(c, "failed")
    /\ UNCHANGED <<disk, historyVars>>

\* ---- run_turn

\* The user item is malformed or unsupported, or the session file unreadable.
Refused(c) ==
    /\ chat[c].pc = "load"
    /\ Finish(c, "failed")
    /\ UNCHANGED <<disk, historyVars>>

LoadSession(c) ==
    /\ chat[c].pc = "load"
    /\ chat' = [chat EXCEPT ![c].pc = "top",
                            ![c].items = Append(disk[chat[c].session], User(c))]
    /\ UNCHANGED <<tokenVars, disk, historyVars>>

\* The checks at the head of the loop, in their order.
StopsAtTop(c) ==
    \/ c \in cancelled
    \/ chat[c].turns + 1 > MaxTurns
    \/ HardStop(chat[c].run)

StopTurn(c) ==
    /\ chat[c].pc = "top"
    /\ StopsAtTop(c)
    /\ Finish(c, "failed")
    /\ UNCHANGED <<disk, historyVars>>

NextRequest(c) ==
    LET compacted == Compact(chat[c].items)
    IN /\ chat[c].pc = "top"
       /\ ~StopsAtTop(c)
       /\ chat' = [chat EXCEPT ![c].pc = "ask", ![c].turns = @ + 1, ![c].items = compacted]
       /\ shrunk' = IF compacted = chat[c].items THEN shrunk ELSE shrunk \cup {chat[c].session}
       /\ UNCHANGED <<tokenVars, disk, cancels, stillborn, overlapped, late, crashed>>

CountLate(c) == late' = IF c \in cancelled THEN [late EXCEPT ![c] = @ + 1] ELSE late

\* The LLM operation starts.
SendRequest(c) ==
    /\ chat[c].pc = "ask"
    /\ chat' = [chat EXCEPT ![c].pc = "asking"]
    /\ CountLate(c)
    /\ UNCHANGED <<tokenVars, disk, cancels, stillborn, overlapped, shrunk, crashed>>

RequestFails(c) ==
    /\ chat[c].pc = "asking"
    /\ Finish(c, "failed")
    /\ UNCHANGED <<disk, historyVars>>

\* Faulty variant: the last answer of a turn is not saved.
AnsweredUnsaved(c, a) ==
    /\ chat[c].pc = "asking" /\ ~chat[c].aborted
    /\ IF a.calls = 0 THEN Finish(c, "completed")
       ELSE /\ chat' = [chat EXCEPT ![c].pc = "calls",
                                    ![c].items = @ \o AnswerItems(a),
                                    ![c].run = Observe(@, a.sig), ![c].left = a.calls]
            /\ UNCHANGED tokenVars
    /\ UNCHANGED <<disk, historyVars>>

\* The operation returns a turn.  Without client calls it is the last one.
Answered(c, a) ==
    /\ chat[c].pc = "asking" /\ ~chat[c].aborted
    /\ chat' = [chat EXCEPT
                  ![c].pc = IF a.calls = 0 THEN "save" ELSE "calls",
                  ![c].items = @ \o AnswerItems(a),
                  ![c].run = IF a.calls = 0 THEN @ ELSE Observe(@, a.sig),
                  ![c].left = a.calls]
    /\ UNCHANGED <<tokenVars, disk, historyVars>>

\* Faulty variant: the token is not looked at between two calls of a batch.
TakeCallBlindly(c) ==
    /\ chat[c].pc = "calls" /\ chat[c].left > 0
    /\ chat' = [chat EXCEPT ![c].pc = "call"]
    /\ UNCHANGED <<tokenVars, disk, historyVars>>

\* The next call of the batch is announced to the observer, unless the token
\* is cancelled.
TakeCall(c) ==
    /\ chat[c].pc = "calls" /\ chat[c].left > 0
    /\ IF c \in cancelled THEN Finish(c, "failed")
       ELSE chat' = [chat EXCEPT ![c].pc = "call"] /\ UNCHANGED tokenVars
    /\ UNCHANGED <<disk, historyVars>>

StartTool(c) ==
    /\ chat[c].pc = "call"
    /\ chat' = [chat EXCEPT ![c].pc = "tool"]
    /\ CountLate(c)
    /\ UNCHANGED <<tokenVars, disk, cancels, stillborn, overlapped, shrunk, crashed>>

\* Position in its batch of the call that is running.
CallPosition(items, left) ==
    LET batch == CHOOSE i \in DOMAIN items :
                    items[i].kind = "assistant"
                      /\ \A j \in i + 1 .. Len(items) : items[j].kind # "assistant"
    IN items[batch].calls - left + 1

\* Faulty variant: a tool that times out is run again.
ToolRetried(c) ==
    /\ chat[c].pc = "tool"
    /\ \/ chat' = [chat EXCEPT ![c].pc = "calls"]
       \/ chat' = [chat EXCEPT ![c].pc = "calls", ![c].left = @ - 1,
                        ![c].items = Append(@, ToolResult(CallPosition(@, chat[c].left)))]
    /\ UNCHANGED <<tokenVars, disk, historyVars>>

\* execute_tool returns: an output, an error, or its 120 s timeout, all of
\* which become the call's result.
ToolReturns(c) ==
    /\ chat[c].pc = "tool"
    /\ chat' = [chat EXCEPT ![c].pc = "calls", ![c].left = @ - 1,
                    ![c].items = Append(@, ToolResult(CallPosition(@, chat[c].left)))]
    /\ UNCHANGED <<tokenVars, disk, historyVars>>

\* The batch is complete: the nudge, then the session is saved.
BatchDone(c) ==
    LET nudge == TakesNudge(chat[c].run)
    IN /\ chat[c].pc = "calls" /\ chat[c].left = 0
       /\ chat' = [chat EXCEPT ![c].pc = "save",
                        ![c].run.nudged = @ \/ nudge,
                        ![c].items = IF nudge THEN Append(@, Nudge) ELSE @]
       /\ UNCHANGED <<tokenVars, disk, historyVars>>

\* The session is saved: the chat goes on, or is complete when the turn's last
\* answer is saved.
SaveSession(c) ==
    /\ chat[c].pc = "save"
    /\ disk' = [disk EXCEPT ![chat[c].session] = chat[c].items]
    /\ IF IsFinal(chat[c].items[Len(chat[c].items)])
       THEN Finish(c, "completed")
       ELSE chat' = [chat EXCEPT ![c].pc = "top"] /\ UNCHANGED tokenVars
    /\ UNCHANGED historyVars

\* The file is not replaced, or it is, by another chat of the session that
\* renamed this chat's <id>.tmp first.
SaveFails(c) ==
    /\ chat[c].pc = "save"
    /\ \/ disk' = disk
       \/ /\ c \in overlapped
          /\ disk' = [disk EXCEPT ![chat[c].session] = chat[c].items]
    /\ Finish(c, "failed")
    /\ UNCHANGED historyVars

\* ---- the host

\* Faulty variant: the token is taken out of the table as it is cancelled.
CancelTakesToken(s) ==
    /\ cancels < MaxCancels
    /\ cancels' = cancels + 1
    /\ cancelled' = cancelled \cup ({active[s]} \ {NoChat})
    /\ active' = [active EXCEPT ![s] = NoChat]
    /\ pending' = IF active[s] = NoChat /\ s \notin started THEN pending \cup {s} ELSE pending
    /\ aborting' = aborting + 1
    /\ UNCHANGED <<chat, started, disk, stillborn, overlapped, late, shrunk, crashed>>

\* cancel, under the lock; the host's streams are aborted after it is released.
Cancel(s) ==
    /\ cancels < MaxCancels
    /\ cancels' = cancels + 1
    /\ cancelled' = cancelled \cup ({active[s]} \ {NoChat})
    /\ pending' = IF active[s] = NoChat /\ s \notin started THEN pending \cup {s} ELSE pending
    /\ aborting' = aborting + 1
    /\ UNCHANGED <<chat, active, started, disk, stillborn, overlapped, late, shrunk, crashed>>

\* HostLlmHub::abort_all: the open requests that wait for the host's model, any
\* of them, whatever their session.
AbortHostStreams ==
    /\ aborting > 0
    /\ aborting' = aborting - 1
    /\ \E hosted \in SUBSET {c \in Chats : chat[c].pc = "asking"} :
          chat' = [c \in Chats |->
                     IF c \in hosted THEN [chat[c] EXCEPT !.aborted = TRUE] ELSE chat[c]]
    /\ UNCHANGED <<active, started, pending, cancelled, disk, historyVars>>

DeleteSession(s) ==
    /\ MayDelete /\ disk[s] # NoFile
    /\ disk' = [disk EXCEPT ![s] = NoFile]
    /\ shrunk' = shrunk \cup {s}
    /\ UNCHANGED <<chat, tokenVars, cancels, stillborn, overlapped, late, crashed>>

\* The process dies; a new engine opens on the same directory.
Crash ==
    /\ MayCrash /\ ~crashed
    /\ crashed' = TRUE
    /\ chat' = [c \in Chats |->
                  IF InFlight(c)
                  THEN [NewChat EXCEPT !.pc = "done", !.session = chat[c].session, !.outcome = "failed"]
                  ELSE chat[c]]
    /\ active' = [s \in Sessions |-> NoChat]
    /\ started' = {} /\ pending' = {} /\ aborting' = 0
    /\ UNCHANGED <<cancelled, disk, cancels, stillborn, overlapped, late, shrunk>>

ChatStep(c) ==
    \/ Refused(c) \/ LoadSession(c) \/ StopTurn(c) \/ NextRequest(c) \/ SendRequest(c)
    \/ RequestFails(c) \/ (\E a \in Answers[c] : Answered(c, a))
    \/ TakeCall(c) \/ StartTool(c) \/ ToolReturns(c) \/ BatchDone(c)
    \/ SaveSession(c) \/ SaveFails(c) \/ Dropped(c)

Next ==
    \/ \E c \in Chats : ChatStep(c) \/ \E s \in Sessions : BeginChat(c, s)
    \/ \E s \in Sessions : Cancel(s) \/ DeleteSession(s)
    \/ AbortHostStreams
    \/ Crash

Spec == Init /\ [][Next]_vars

\* A started chat is polled until it ends: requests end by themselves (see
\* LlmClient), tools by their timeout.
FairSpec == Spec /\ \A c \in Chats : WF_vars(ChatStep(c))

-----------------------------------------------------------------------------

\* Whatever is cancelled, dropped, compacted, overwritten by another chat or
\* cut short by a crash: every request and every session file pairs each tool
\* call with its result.  "Ensures the cut point never leaves orphan tool
\* messages without their corresponding assistant tool_calls."
HistoriesWellPaired ==
    /\ \A s \in Sessions : WellPaired(disk[s])
    /\ \A c \in Chats : chat[c].pc \in {"ask", "asking"} => WellPaired(chat[c].items)

\* In every history that is saved, over compactions and turns, a run of
\* identical tool-call steps is nudged once at most and stops at the hard stop.
StationaryRuns == \A c \in Chats : chat[c].pc = "save" => RunsBounded(chat[c].items)

\* Once its token is cancelled a turn starts at most the one request or tool
\* it was about to start; a turn whose cancel came before it starts none.
CancelStops ==
    \A c \in Chats : late[c] <= IF c \in stillborn THEN 0 ELSE 1

\* One cancel stops one turn at most: a cancel that comes late, or waits for
\* the session's first turn, does not poison the turns after.
CancelStopsOneTurn == Cardinality(cancelled) <= cancels

\* A turn that has its session to itself can be cancelled until it ends.
LoneTurnCancellable ==
    \A c \in Chats : InFlight(c) /\ c \notin overlapped => active[chat[c].session] = c

\* A turn reported as completed is in the session's file, over the turns that
\* follow and a crash, unless another chat shared the session, or the session
\* was compacted or deleted.
CompletedTurnsKept ==
    \A c \in Chats :
        LET s == chat[c].session
        IN chat[c].outcome = "completed" /\ c \notin overlapped /\ s \notin shrunk
              => \E i \in DOMAIN disk[s] : disk[s][i] = User(c)

\* Every chat ends, whatever its models answer.
ChatsEnd == \A c \in Chats : InFlight(c) ~> ~InFlight(c)

=============================================================================
