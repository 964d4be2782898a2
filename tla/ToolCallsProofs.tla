-------------------------- MODULE ToolCallsProofs --------------------------
(***************************************************************************)
(* The safety properties of the tool calls over what they share, for any   *)
(* number of agents, calls, changes by the host and faults.                *)
(***************************************************************************)
EXTENDS ToolCalls, WellFoundedInduction, TLAPS

Places == {"idle", "run", "routed", "waiting", "saving", "arming", "telling", "told", "copied"}
Tools  == {"talent", "browse", "ask_user_question", "notification", "scheduler", "plan", "none"}
Args   == DOMAIN PlanArgs \cup {"none", "create", "list", "delete"}
CallState == [tool : Tools, at : Places, arg : Args, num : Nat]

\* A call that goes on has a number.
Numbered == \A a \in Agents : call[a].at # "idle" => made[a] # 0

CallTyped ==
    /\ call \in [Agents -> CallState]
    /\ made \in [Agents -> 0 .. MaxCalls]
    /\ outcome = [id \in Ids |-> outcome[id]]
    /\ Numbered
HubTyped  == pending \in [Hubs -> SUBSET Ids] /\ accepted \in [Ids -> Nat]
FileTyped == tasks \subseteq Nat \ {0} /\ counter \in Nat \ {0} /\ file \subseteq Nat
PlanTyped == drafts = [a \in Agents |-> drafts[a]]

Typed == CallTyped /\ HubTyped

-----------------------------------------------------------------------------
\* What the tables, the channels and the history hold of the n-th call of a:
\* nothing before it is made and, until it waits for the host, while it runs.
Untouched(id) ==
    /\ accepted[id] = 0 /\ outcome[id] = "none" /\ id \notin mail
    /\ \A h \in Hubs : id \notin pending[h]

AwaitsAnswer(a, id) ==
    /\ outcome[id] = "none" /\ accepted[id] \in {0, 1}
    /\ id \in mail <=> accepted[id] = 1
    /\ \A h \in Hubs : id \in pending[h] => accepted[id] = 0 /\ h = Hub(a)

Over(a, id) ==
    /\ id \notin mail
    /\ accepted[id] \in {0, 1}
    /\ accepted[id] = 1 => outcome[id] \in {"answered", "dropped"}
    /\ outcome[id] = "answered" => accepted[id] = 1
    /\ \A h \in Hubs : id \in pending[h] =>
          accepted[id] = 0 /\ a \in Chats /\ outcome[id] = "dropped"

Runs(a) == call[a].at \notin {"idle", "waiting"}

CallInv(a, n) ==
    /\ n > made[a] => Untouched(<<a, n>>)
    /\ n = made[a] /\ Runs(a) => Untouched(<<a, n>>)
    /\ n = made[a] /\ call[a].at = "waiting" => AwaitsAnswer(a, <<a, n>>)
    /\ n < made[a] => Over(a, <<a, n>>)
    /\ n = made[a] /\ call[a].at = "idle" => Over(a, <<a, n>>)

HubInv == \A a \in Agents : \A n \in 1 .. MaxCalls : CallInv(a, n)

-----------------------------------------------------------------------------
\* The schedules the host runs are in memory and on file; one that is being
\* created has a number of its own, and is in memory and, once saved, on file.
Creating(a)   == InScheduler(a, "create", "saving") \/ InScheduler(a, "create", "arming")
NumbersBelow  == tasks \cup file \subseteq 0 .. counter - 1
ArmedHeld     == armed \ loose \subseteq tasks \cap Loaded(file)
CreatedNumber == \A a \in Agents : Creating(a) =>
                    /\ call[a].num \in 1 .. counter - 1
                    /\ call[a].num \notin armed \ loose
                    /\ call[a].num \in tasks \cup loose
CreatedOnFile == \A a \in Agents : InScheduler(a, "create", "arming") =>
                    call[a].num \in Loaded(file) \cup loose
NumbersApart  == \A a, b \in Agents : Creating(a) /\ Creating(b) /\ a # b =>
                    call[a].num # call[b].num

ScheduleInv == FileTyped /\ NumbersBelow /\ ArmedHeld
                 /\ CreatedNumber /\ CreatedOnFile /\ NumbersApart

-----------------------------------------------------------------------------
\* Without an overtaken update one agent at most has a copy of the plan, and it
\* is the plan.
Copied(a) == At(a, "plan", "copied")

PlanInv ==
    /\ PlanTyped
    /\ ~overtaken =>
          /\ \A a, b \in Agents : Copied(a) /\ Copied(b) => a = b
          /\ \A a \in Agents : Copied(a) => drafts[a] = planned
          /\ (\A a \in Agents : ~Copied(a)) => shown = planned

Inv == Typed /\ HubInv /\ ScheduleInv /\ PlanInv

-----------------------------------------------------------------------------
\* A set of naturals with a bound has a greatest element.
LEMMA Greatest ==
    ASSUME NEW n \in Nat, NEW S \in SUBSET (0 .. n), S # {}
    PROVE  FSE!Max(S) \in S /\ \A y \in S : FSE!Max(S) >= y
<1> DEFINE Gaps == {g \in Nat : n - g \in S}
<1>1. Gaps \in SUBSET Nat /\ Gaps # {}
  <2>1. PICK x \in S : TRUE
    OBVIOUS
  <2>2. n - x \in Gaps
    BY <2>1
  <2>3. QED
    BY <2>2
<1>2. \E g \in Gaps : \A k \in Gaps : g <= k
  <2> HIDE DEF Gaps
  <2>1. \E g \in Gaps : \A k \in Gaps : <<k, g>> \notin OpToRel(<, Nat)
    BY <1>1, NatLessThanWellFounded, WFMin
  <2>2. \A g, k \in Gaps : <<k, g>> \notin OpToRel(<, Nat) => g <= k
    BY <1>1 DEF OpToRel
  <2>3. QED
    BY <2>1, <2>2
<1>3. PICK g \in Gaps : \A k \in Gaps : g <= k
  BY <1>2
<1>4. n - g \in S
  BY <1>3
<1>5. ASSUME NEW y \in S
      PROVE  n - g >= y
  <2>1. n - y \in Gaps
    OBVIOUS
  <2>2. g <= n - y
    BY <1>3, <2>1
  <2>3. QED
    BY <1>3, <2>2
<1>6. QED
  BY <1>4, <1>5 DEF FSE!Max

\* The counter starts above every schedule of the file.
LEMMA FirstFreeAbove ==
    ASSUME NEW n \in Nat, NEW f \in SUBSET (0 .. n)
    PROVE  FirstFree(f) \in Nat \ {0} /\ Loaded(f) \subseteq 0 .. FirstFree(f) - 1
<1> DEFINE S == Loaded(f) \cup {0}
<1>1. S \in SUBSET (0 .. n) /\ S # {}
  BY DEF Loaded, Torn
<1>2. FSE!Max(S) \in S /\ \A y \in S : FSE!Max(S) >= y
  <2> HIDE DEF S
  <2> QED
    BY <1>1, Greatest
<1>3. FirstFree(f) = FSE!Max(S) + 1
  BY DEF FirstFree
<1> HIDE DEF S
<1>4. FSE!Max(S) \in 0 .. n
  BY <1>1, <1>2
<1>5. \A t \in Loaded(f) : t \in Nat /\ t <= FSE!Max(S)
  BY <1>1, <1>2 DEF S
<1>6. QED
  BY <1>3, <1>4, <1>5
-----------------------------------------------------------------------------
\* The locals of a call and its history stay of their type when it goes on,
\* returns or ends.
LEMMA CallsStayTyped ==
    ASSUME CallTyped, NEW a \in Agents, call[a].at # "idle"
    PROVE  /\ \A at \in Places : Goto(a, at) => CallTyped'
           /\ Return(a) => CallTyped'
           /\ \A how : End(a, how) => CallTyped'
           /\ \A how : Leave(a, how) => CallTyped'
           /\ Id(a) \in Ids
<1>1. made[a] \in 1 .. MaxCalls
  BY HostCallsAssumption DEF CallTyped, Numbered
<1>2. Idle \in CallState /\ Idle.at = "idle"
  BY DEF Idle, CallState, Tools, Places, Args
<1>3. ASSUME NEW at \in Places, Goto(a, at)
      PROVE  CallTyped'
  <2>1. \A w \in CallState : [w EXCEPT !.at = at] \in CallState
    BY DEF CallState
  <2>2. call' \in [Agents -> CallState]
    BY <1>3, <2>1 DEF CallTyped, Goto
  <2>3. \A b \in Agents : b # a => call'[b] = call[b]
    BY <1>3 DEF CallTyped, Goto
  <2>4. QED
    BY <1>1, <1>3, <2>2, <2>3 DEF CallTyped, Numbered, Goto
<1>4. ASSUME call' = [call EXCEPT ![a] = Idle]
      PROVE  /\ call' \in [Agents -> CallState]
             /\ \A b \in Agents : call'[b].at # "idle" => call[b].at # "idle"
  BY <1>2, <1>4 DEF CallTyped
<1>5. Return(a) => CallTyped'
  BY <1>4 DEF Return, CallTyped, Numbered
<1>6. ASSUME NEW how, End(a, how)
      PROVE  CallTyped'
  <2>1. outcome' = [id \in Ids |-> outcome'[id]]
    BY <1>6 DEF CallTyped, End
  <2>2. QED
    BY <1>4, <1>6, <2>1 DEF End, CallTyped, Numbered
<1>7. QED
  BY <1>1, <1>3, <1>5, <1>6 DEF Leave, Id, Ids

-----------------------------------------------------------------------------
\* Steps at which no call takes up or leaves one of the steps S.
Quiet(S) == \A b \in Agents :
    call'[b] = call[b] \/ (call[b].at \notin S /\ call'[b].at \notin S)

\* Steps of calls that do not wait for the host, and stay away from it.
Passive ==
    /\ UNCHANGED <<made, pending, mail, accepted, outcome>>
    /\ \A b \in Agents :
          call'[b] = call[b] \/ (Runs(b) /\ (Runs(b)' \/ call'[b].at = "idle"))

\* Such steps leave the schedules as they are.
LEMMA QuietSchedules ==
    ASSUME ScheduleInv, Quiet({"saving", "arming"}), UNCHANGED scheduleVars
    PROVE  ScheduleInv'
<1>1. \A a \in Agents, at \in {"saving", "arming"} :
         /\ InScheduler(a, "create", at)' <=> InScheduler(a, "create", at)
         /\ InScheduler(a, "create", at) => call'[a] = call[a]
  BY DEF Quiet, InScheduler, At
<1>2. \A a \in Agents : /\ Creating(a)' <=> Creating(a)
                        /\ Creating(a) => call'[a] = call[a]
  BY <1>1 DEF Creating
<1>3. FileTyped' /\ NumbersBelow' /\ ArmedHeld'
  BY DEF ScheduleInv, scheduleVars, FileTyped, NumbersBelow, ArmedHeld, Loaded, Torn
<1>4. CreatedNumber' /\ NumbersApart'
  BY <1>2 DEF ScheduleInv, scheduleVars, CreatedNumber, NumbersApart
<1>5. CreatedOnFile'
  BY <1>1 DEF ScheduleInv, scheduleVars, CreatedOnFile, Loaded, Torn
<1>6. QED
  BY <1>3, <1>4, <1>5 DEF ScheduleInv

\* Such steps leave the plan as it is.
LEMMA QuietPlans ==
    ASSUME PlanInv, Quiet({"copied"}), UNCHANGED planVars
    PROVE  PlanInv'
<1>1. \A a \in Agents : Copied(a)' <=> Copied(a)
  BY DEF Quiet, Copied, At
<1>2. QED
  BY <1>1 DEF PlanInv, PlanTyped, planVars

\* Passive steps keep what the hubs hold of every call.
LEMMA PassiveCalls ==
    ASSUME HubInv, Passive
    PROVE  HubInv'
<1> SUFFICES ASSUME NEW a \in Agents, NEW n \in 1 .. MaxCalls
             PROVE  CallInv(a, n)'
  BY DEF HubInv
<1>1. CallInv(a, n)
  BY DEF HubInv
<1>2. Untouched(<<a, n>>) => Untouched(<<a, n>>)' /\ Over(a, <<a, n>>)'
  BY DEF Passive, Untouched, Over
<1>3. Over(a, <<a, n>>) => Over(a, <<a, n>>)'
  BY DEF Passive, Over
<1>4. call'[a] = call[a] /\ AwaitsAnswer(a, <<a, n>>) => AwaitsAnswer(a, <<a, n>>)'
  BY DEF Passive, AwaitsAnswer, Hub
<1>5. CASE call'[a] = call[a]
  BY <1>1, <1>2, <1>3, <1>4, <1>5 DEF CallInv, Passive, Runs
<1>6. CASE Runs(a) /\ (Runs(a)' \/ call'[a].at = "idle")
  BY <1>1, <1>2, <1>3, <1>6 DEF CallInv, Passive, Runs
<1>7. QED
  BY <1>5, <1>6 DEF Passive

-----------------------------------------------------------------------------
\* The tables, the channels and the history say of a call what they said.
SameId(id) ==
    /\ accepted'[id] = accepted[id] /\ outcome'[id] = outcome[id]
    /\ id \in mail' <=> id \in mail
    /\ \A h \in Hubs : id \in pending'[h] => id \in pending[h]

\* What holds of a call of which they say the same holds after the step.
LEMMA SameCalls ==
    ASSUME NEW a, NEW id, SameId(id)
    PROVE  /\ Untouched(id) => Untouched(id)'
           /\ Over(a, id) => Over(a, id)'
           /\ AwaitsAnswer(a, id) /\ call'[a] = call[a] => AwaitsAnswer(a, id)'
BY DEF SameId, Untouched, Over, AwaitsAnswer, Hub

\* A step that touches the call a is in, and no other.
LEMMA OneCall ==
    ASSUME HubInv, Typed, NEW a \in Agents,
           UNCHANGED made, \A b \in Agents : b # a => call'[b] = call[b],
           \A id \in Ids : id # Id(a) => SameId(id),
           made[a] \in 1 .. MaxCalls => CallInv(a, made[a])'
    PROVE  HubInv'
<1> SUFFICES ASSUME NEW b \in Agents, NEW n \in 1 .. MaxCalls
             PROVE  CallInv(b, n)'
  BY DEF HubInv
<1>1. CallInv(b, n)
  BY DEF HubInv
<1>2. CASE b = a /\ n = made[a]
  BY <1>2
<1>3. CASE ~(b = a /\ n = made[a])
  <2>1. <<b, n>> \in Ids /\ <<b, n>> # Id(a)
    BY <1>3 DEF Ids, Id
  <2>2. SameId(<<b, n>>)
    BY <2>1
  <2>3. /\ Untouched(<<b, n>>) => Untouched(<<b, n>>)'
        /\ Over(b, <<b, n>>) => Over(b, <<b, n>>)'
        /\ AwaitsAnswer(b, <<b, n>>) /\ call'[b] = call[b] => AwaitsAnswer(b, <<b, n>>)'
    BY <2>2, SameCalls
  <2>4. CASE b # a
    BY <1>1, <2>3, <2>4 DEF CallInv, Runs
  <2>5. CASE b = a /\ n # made[a]
    BY <1>1, <2>3, <2>5 DEF CallInv, Runs
  <2>6. QED
    BY <1>3, <2>4, <2>5
<1>4. QED
  BY <1>2, <1>3

-----------------------------------------------------------------------------
\* The end of a call that has not waited for the host.
LEMMA RefusedCalls ==
    ASSUME Typed, HubInv, NEW a \in Agents, call[a].at \in {"run", "routed"},
           End(a, "refused"), UNCHANGED hubVars
    PROVE  Typed' /\ HubInv' /\ Quiet({"saving", "arming", "copied"})
<1>1. CallTyped' /\ Id(a) \in Ids
  BY CallsStayTyped DEF Typed
<1>2. HubTyped'
  BY DEF Typed, HubTyped, hubVars
<1>3. /\ UNCHANGED <<made, mail, pending, accepted>>
      /\ call' = [call EXCEPT ![a] = Idle]
      /\ outcome' = [outcome EXCEPT ![Id(a)] = "refused"]
  BY DEF End, hubVars
<1>4. call'[a].at = "idle" /\ \A b \in Agents : b # a => call'[b] = call[b]
  BY <1>3 DEF Typed, CallTyped, Idle
<1>5. \A id \in Ids : id # Id(a) => SameId(id)
  BY <1>3 DEF SameId, Typed, CallTyped
<1>6. ASSUME made[a] \in 1 .. MaxCalls
      PROVE  CallInv(a, made[a])'
  <2>1. Untouched(Id(a))
    BY <1>6 DEF HubInv, CallInv, Id, Runs
  <2>2. outcome'[Id(a)] = "refused"
    BY <1>1, <1>3 DEF Typed, CallTyped
  <2>3. Over(a, Id(a))'
    BY <1>3, <2>1, <2>2 DEF Over, Untouched, Id
  <2>4. QED
    BY <1>3, <1>4, <1>6, <2>3 DEF CallInv, Id, Runs
<1>7. HubInv'
  BY <1>3, <1>4, <1>5, <1>6, OneCall
<1>8. QED
  BY <1>1, <1>2, <1>4, <1>7 DEF Typed, Quiet

\* The end of a wait: the channel goes, and if the entry stays it is a chat's.
LEMMA EndedWaits ==
    ASSUME Typed, HubInv, NEW a \in Agents, Waiting(a),
           NEW how \in {"answered", "dropped"}, Leave(a, how),
           how = "answered" => Id(a) \in mail /\ UNCHANGED pending,
           pending' = Forgotten(a) \/ UNCHANGED pending,
           pending' = Forgotten(a) \/ a \in Chats \/ how = "answered"
    PROVE  Typed' /\ HubInv' /\ Quiet({"saving", "arming", "copied"})
<1>1. CallTyped' /\ Id(a) \in Ids
  BY CallsStayTyped DEF Typed, Waiting
<1>2. /\ UNCHANGED <<made, accepted>>
      /\ mail' = mail \ {Id(a)}
      /\ call' = [call EXCEPT ![a] = Idle]
      /\ outcome' = [outcome EXCEPT ![Id(a)] = how]
  BY DEF Leave, End
<1>3. HubTyped'
  BY <1>2 DEF Typed, HubTyped, Forgotten
<1>4. call'[a].at = "idle" /\ \A b \in Agents : b # a => call'[b] = call[b]
  BY <1>2 DEF Typed, CallTyped, Idle
<1>5. \A h \in Hubs : pending'[h] \subseteq pending[h]
  BY DEF Forgotten, Typed, HubTyped
<1>6. \A id \in Ids : id # Id(a) => SameId(id)
  BY <1>2, <1>5 DEF SameId, Typed, CallTyped
<1>7. ASSUME made[a] \in 1 .. MaxCalls
      PROVE  CallInv(a, made[a])'
  <2>1. AwaitsAnswer(a, Id(a))
    BY <1>7 DEF HubInv, CallInv, Id, Waiting
  <2>2. outcome'[Id(a)] = how
    BY <1>1, <1>2 DEF Typed, CallTyped
  <2>3. \A h \in Hubs : Id(a) \in pending'[h] =>
           accepted[Id(a)] = 0 /\ a \in Chats /\ how = "dropped"
    <3>1. ASSUME pending' = Forgotten(a), NEW h \in Hubs
          PROVE  Id(a) \notin pending'[h]
      BY <2>1, <3>1 DEF AwaitsAnswer, Forgotten, Typed, HubTyped
    <3>2. QED
      BY <1>5, <2>1, <3>1 DEF AwaitsAnswer
  <2>4. Over(a, Id(a))'
    BY <1>2, <2>1, <2>2, <2>3 DEF Over, AwaitsAnswer, Id
  <2>5. QED
    BY <1>2, <1>4, <1>7, <2>4 DEF CallInv, Id, Runs
<1>8. HubInv'
  BY <1>2, <1>4, <1>6, <1>7, OneCall
<1>9. QED
  BY <1>1, <1>3, <1>4, <1>8 DEF Typed, Quiet, Waiting

\* A call that runs on, or returns, without the host.
LEMMA RunningCalls ==
    ASSUME Typed, HubInv, NEW a \in Agents, Runs(a),
           UNCHANGED <<pending, mail, accepted>>,
           Return(a) \/ \E at \in Places \ {"idle", "waiting"} : Goto(a, at)
    PROVE  /\ Typed' /\ HubInv'
           /\ \A b \in Agents : b # a => call'[b] = call[b]
           /\ Return(a) => call'[a].at = "idle"
           /\ \A at \in Places : Goto(a, at) =>
                 /\ call'[a].at = at /\ call'[a].tool = call[a].tool
                 /\ call'[a].arg = call[a].arg /\ call'[a].num = call[a].num
<1>1. Typed'
  BY CallsStayTyped DEF Typed, HubTyped, Runs
<1>2. \A b \in Agents : b # a => call'[b] = call[b]
  BY DEF Return, Goto, Typed, CallTyped
<1>3. Return(a) => call'[a].at = "idle"
  BY DEF Return, Typed, CallTyped, Idle
<1>4. \A w \in CallState, at \in Places :
         /\ [w EXCEPT !.at = at].at = at /\ [w EXCEPT !.at = at].tool = w.tool
         /\ [w EXCEPT !.at = at].arg = w.arg /\ [w EXCEPT !.at = at].num = w.num
  BY DEF CallState
<1>5. ASSUME NEW at \in Places, Goto(a, at)
      PROVE  /\ call'[a].at = at /\ call'[a].tool = call[a].tool
             /\ call'[a].arg = call[a].arg /\ call'[a].num = call[a].num
  <2>1. call[a] \in CallState
    BY DEF Typed, CallTyped
  <2>2. call'[a] = [call[a] EXCEPT !.at = at]
    BY <1>5 DEF Goto, Typed, CallTyped
  <2>3. QED
    BY <1>4, <2>1, <2>2
<1>6. UNCHANGED <<made, outcome>>
  BY DEF Return, Goto
<1>7. Passive
  BY <1>2, <1>3, <1>5, <1>6 DEF Passive, Runs
<1>8. QED
  BY <1>1, <1>2, <1>3, <1>5, <1>7, PassiveCalls

\* The steps of an agent over the host's hubs.
LEMMA HostSteps ==
    ASSUME Typed, HubInv, NEW a \in Agents, HostStep(a)
    PROVE  Typed' /\ HubInv' /\ Quiet({"saving", "arming", "copied"})
<1>1. CASE TalentGone(a)
  BY <1>1, RefusedCalls DEF TalentGone, At
<1>2. CASE NoHost(a)
  BY <1>2, RefusedCalls DEF NoHost, AtDispatch, At
<1>3. CASE Dispatch(a)
  <2>1. call[a].at \in {"run", "routed"} /\ Hub(a) \in Hubs
    BY <1>3 DEF Dispatch, AtDispatch, At, Hub, Hubs
  <2>2. CallTyped' /\ Id(a) \in Ids
    BY <1>3, <2>1, CallsStayTyped DEF Dispatch, Typed, Places
  <2>3. /\ UNCHANGED <<made, outcome, mail, accepted>>
        /\ call' = [call EXCEPT ![a].at = "waiting"]
        /\ pending' = [pending EXCEPT ![Hub(a)] = @ \cup {Id(a)}]
    BY <1>3 DEF Dispatch, Goto
  <2>4. HubTyped'
    BY <2>1, <2>2, <2>3 DEF Typed, HubTyped
  <2>5. /\ call'[a].at = "waiting" /\ call'[a].tool = call[a].tool
        /\ \A b \in Agents : b # a => call'[b] = call[b]
    <3>1. \A w \in CallState : /\ [w EXCEPT !.at = "waiting"].at = "waiting"
                               /\ [w EXCEPT !.at = "waiting"].tool = w.tool
      BY DEF CallState
    <3>2. call[a] \in CallState /\ call'[a] = [call[a] EXCEPT !.at = "waiting"]
      BY <2>3 DEF Typed, CallTyped
    <3>3. QED
      BY <2>3, <3>1, <3>2 DEF Typed, CallTyped
  <2>6. \A h \in Hubs, id \in Ids : id \in pending'[h] =>
           id \in pending[h] \/ (id = Id(a) /\ h = Hub(a))
    BY <2>1, <2>3 DEF Typed, HubTyped
  <2>7. \A id \in Ids : id # Id(a) => SameId(id)
    BY <2>3, <2>6 DEF SameId
  <2>8. ASSUME made[a] \in 1 .. MaxCalls
        PROVE  CallInv(a, made[a])'
    <3>1. Untouched(Id(a))
      BY <2>1, <2>8 DEF HubInv, CallInv, Id, Runs
    <3>2. AwaitsAnswer(a, Id(a))'
      BY <2>2, <2>3, <2>5, <2>6, <3>1 DEF AwaitsAnswer, Untouched, Id, Hub
    <3>3. QED
      BY <2>3, <2>5, <2>8, <3>2 DEF CallInv, Id, Runs
  <2>9. HubInv'
    BY <2>3, <2>5, <2>7, <2>8, OneCall
  <2>10. QED
    BY <2>1, <2>2, <2>4, <2>5, <2>9 DEF Typed, Quiet
<1>4. CASE Receive(a)
  BY <1>4, EndedWaits DEF Receive
<1>5. CASE Cancelled(a)
  BY <1>5, EndedWaits DEF Cancelled
<1>6. CASE ToolTimeout(a)
  BY <1>6, EndedWaits DEF ToolTimeout
<1>7. CASE WebViewTimeout(a)
  BY <1>7, EndedWaits DEF WebViewTimeout
<1>8. CASE Notify(a) \/ Notified(a)
  <2>1. Runs(a) /\ call[a].at \in {"run", "told"}
    BY <1>8 DEF Notify, Notified, At, Runs
  <2>2. UNCHANGED <<pending, mail, accepted>> /\ (Return(a) \/ Goto(a, "told"))
    BY <1>8 DEF Notify, Notified, TellHost
  <2>3. QED
    BY <2>1, <2>2, RunningCalls DEF Quiet, Places
<1>9. QED
  BY <1>1, <1>2, <1>3, <1>4, <1>5, <1>6, <1>7, <1>8 DEF HostStep

\* The answers and the changes of the host, and the cancel of a turn.
LEMMA HostChanges ==
    ASSUME Typed, HubInv, HostNext
    PROVE  Typed' /\ HubInv' /\ UNCHANGED call
<1>1. ASSUME NEW h \in Hubs, NEW id \in Ids, Complete(h, id)
      PROVE  Typed' /\ HubInv' /\ UNCHANGED call
  <2>1. /\ UNCHANGED <<call, made, outcome>>
        /\ \A g \in Hubs, i \in Ids :
              i \in pending'[g] => i \in pending[g] /\ ~(g = h /\ i = id)
    BY <1>1 DEF Complete, agentVars, Typed, HubTyped
  <2>2. Typed'
    BY <1>1, <2>1 DEF Complete, Typed, HubTyped, CallTyped, Numbered
  <2>3. \A i \in Ids : i # id => SameId(i)
    BY <1>1, <2>1 DEF Complete, SameId, Typed, HubTyped
  <2>4. CASE Awaited(id)
    <3>1. PICK a \in Agents : Waiting(a) /\ Id(a) = id
      BY <2>4 DEF Awaited
    <3>2. AwaitsAnswer(a, id) /\ made[a] \in 1 .. MaxCalls
      BY <3>1 DEF HubInv, CallInv, Id, Ids, Waiting
    <3>3. accepted[id] = 0 /\ h = Hub(a)
      BY <1>1, <3>2 DEF AwaitsAnswer, Complete
    <3>4. accepted'[id] = 1 /\ id \in mail'
      BY <1>1, <2>4, <3>3 DEF Complete, Typed, HubTyped
    <3>5. AwaitsAnswer(a, id)'
      BY <2>1, <3>2, <3>3, <3>4 DEF AwaitsAnswer, Hub
    <3>6. CallInv(a, made[a])'
      BY <2>1, <3>1, <3>2, <3>5 DEF CallInv, Id, Runs, Waiting
    <3>7. HubInv'
      BY <2>1, <2>3, <3>1, <3>6, OneCall
    <3>8. QED
      BY <2>1, <2>2, <3>7
  <2>5. CASE ~Awaited(id)
    <3>1. SameId(id)
      BY <1>1, <2>1, <2>5 DEF Complete, SameId
    <3>2. PICK a \in Agents : TRUE
      BY DEF Ids
    <3>3. ASSUME made[a] \in 1 .. MaxCalls
          PROVE  CallInv(a, made[a])'
      <4>1. Id(a) \in Ids /\ SameId(Id(a))
        BY <2>3, <3>1, <3>3 DEF Ids, Id
      <4>2. /\ Untouched(Id(a)) => Untouched(Id(a))'
            /\ Over(a, Id(a)) => Over(a, Id(a))'
            /\ AwaitsAnswer(a, Id(a)) => AwaitsAnswer(a, Id(a))'
        BY <2>1, <4>1 DEF Id, SameId, Untouched, Over, AwaitsAnswer, Hub
      <4>3. CallInv(a, made[a])
        BY <3>3 DEF HubInv
      <4>4. QED
        BY <2>1, <4>2, <4>3 DEF CallInv, Id, Runs
    <3>4. HubInv'
      BY <2>1, <2>3, <3>1, <3>3, OneCall
    <3>5. QED
      BY <2>1, <2>2, <3>4
  <2>6. QED
    BY <2>4, <2>5
<1>2. ASSUME UNCHANGED <<call, made, outcome, pending, mail, accepted>>
      PROVE  Typed' /\ HubInv' /\ UNCHANGED call
  <2>1. Passive
    BY <1>2 DEF Passive
  <2>2. QED
    BY <1>2, <2>1, PassiveCalls DEF Typed, CallTyped, HubTyped, Numbered
<1>3. ASSUME NEW h \in Hubs, NEW set \in BOOLEAN, SetCallback(h, set)
      PROVE  UNCHANGED <<call, made, outcome, pending, mail, accepted>>
  BY <1>3 DEF SetCallback, agentVars
<1>4. ASSUME NEW names \in HostSets, SetTools(names)
      PROVE  UNCHANGED <<call, made, outcome, pending, mail, accepted>>
  BY <1>4 DEF SetTools, agentVars
<1>5. ASSUME NEW a \in Agents, CancelTurn(a)
      PROVE  UNCHANGED <<call, made, outcome, pending, mail, accepted>>
  BY <1>5 DEF CancelTurn, hubVars
<1>6. QED
  BY <1>1, <1>2, <1>3, <1>4, <1>5 DEF HostNext

\* A call is made: it runs, it is routed to the host, or it is refused.
LEMMA MadeCalls ==
    ASSUME Typed, HubInv, NEW a \in Agents, NEW tool \in Tools, NEW arg \in Args,
           NEW num \in Nat, CallTool(a, tool, arg, num)
    PROVE  Typed' /\ HubInv' /\ Quiet({"saving", "arming", "copied"})
<1>1. /\ call[a].at = "idle" /\ made[a] < MaxCalls
      /\ made' = [made EXCEPT ![a] = @ + 1]
      /\ UNCHANGED <<pending, mail, accepted>>
  BY DEF CallTool, hubVars
<1>2. /\ made'[a] = made[a] + 1 /\ made'[a] \in 1 .. MaxCalls
      /\ \A b \in Agents : b # a => made'[b] = made[b]
      /\ made' \in [Agents -> 0 .. MaxCalls]
  BY <1>1, HostCallsAssumption DEF Typed, CallTyped
<1> DEFINE new == <<a, made[a] + 1>>
<1>3. new \in Ids
  BY <1>2 DEF Ids
<1>4. \/ call' = call /\ outcome' = [outcome EXCEPT ![new] = "refused"]
      \/ /\ call' = [call EXCEPT ![a] = [tool |-> tool, at |-> Route(a, tool),
                                         arg |-> arg, num |-> num]]
         /\ UNCHANGED outcome /\ Route(a, tool) \in {"run", "routed"}
  BY DEF CallTool, Route
<1> HIDE DEF new
<1>5. /\ \A b \in Agents : b # a => call'[b] = call[b]
      /\ call'[a].at \in {"idle", "run", "routed"}
      /\ call'[a].at = "idle" => outcome'[new] = "refused"
      /\ call'[a].at # "idle" => UNCHANGED outcome
      /\ call' \in [Agents -> CallState]
      /\ outcome' = [id \in Ids |-> outcome'[id]]
      /\ \A id \in Ids : id # new => outcome'[id] = outcome[id]
  <2>1. CASE call' = call /\ outcome' = [outcome EXCEPT ![new] = "refused"]
    BY <1>1, <1>3, <2>1 DEF Typed, CallTyped
  <2>2. ASSUME NEW at \in {"run", "routed"},
               call' = [call EXCEPT ![a] = [tool |-> tool, at |-> at, arg |-> arg, num |-> num]],
               UNCHANGED outcome
        PROVE  <1>5
    <3>1. [tool |-> tool, at |-> at, arg |-> arg, num |-> num] \in CallState
      BY DEF CallState, Places
    <3>2. QED
      BY <2>2, <3>1 DEF Typed, CallTyped
  <2>3. QED
    BY <1>4, <2>1, <2>2
<1>6. Typed'
  BY <1>1, <1>2, <1>5 DEF Typed, CallTyped, HubTyped, Numbered
<1>7. ASSUME NEW b \in Agents, NEW n \in 1 .. MaxCalls
      PROVE  CallInv(b, n)'
  <2>1. CallInv(b, n)
    BY DEF HubInv
  <2>2. CASE b = a /\ n = made[a] + 1
    <3>1. <<b, n>> = new /\ Untouched(new)
      BY <1>2, <2>1, <2>2 DEF new, CallInv, Typed, CallTyped
    <3>2. call'[a].at = "idle" => Over(a, <<b, n>>)'
      BY <1>1, <1>5, <3>1 DEF Untouched, Over
    <3>3. call'[a].at # "idle" => Untouched(<<b, n>>)'
      BY <1>1, <1>5, <3>1 DEF Untouched
    <3>4. QED
      BY <1>2, <1>5, <2>2, <3>1, <3>2, <3>3 DEF CallInv, Runs
  <2>3. CASE ~(b = a /\ n = made[a] + 1)
    <3>1. <<b, n>> \in Ids /\ <<b, n>> # new
      BY <2>3 DEF new, Ids
    <3>2. SameId(<<b, n>>)
      BY <1>1, <1>5, <3>1 DEF SameId
    <3>3. /\ Untouched(<<b, n>>) => Untouched(<<b, n>>)'
          /\ Over(b, <<b, n>>) => Over(b, <<b, n>>)'
          /\ AwaitsAnswer(b, <<b, n>>) /\ call'[b] = call[b] => AwaitsAnswer(b, <<b, n>>)'
      BY <3>2, SameCalls
    <3>4. CASE b # a
      BY <1>2, <1>5, <2>1, <3>3, <3>4 DEF CallInv, Runs
    <3>5. CASE b = a /\ n # made[a] + 1
      BY <1>1, <1>2, <2>1, <3>3, <3>5 DEF CallInv, Runs, Typed, CallTyped
    <3>6. QED
      BY <2>3, <3>4, <3>5
  <2>4. QED
    BY <2>2, <2>3
<1>8. HubInv'
  BY <1>7 DEF HubInv
<1>9. QED
  BY <1>1, <1>5, <1>6, <1>8 DEF Quiet

-----------------------------------------------------------------------------
\* No step but create_task's first begins a creation.
NoNewCreation == \A b \in Agents : Creating(b)' => Creating(b) /\ call'[b].num = call[b].num

\* The schedules after a step that begins no creation: what the file, the host
\* and the history must still hold.
LEMMA SchedulesAfter ==
    ASSUME ScheduleInv, NoNewCreation, UNCHANGED counter,
           tasks' \subseteq tasks, file' \subseteq Nat, NumbersBelow', ArmedHeld',
           \A b \in Agents : Creating(b)' =>
              call[b].num \notin armed' \ loose' /\ call[b].num \in tasks' \cup loose',
           CreatedOnFile'
    PROVE  ScheduleInv'
<1>1. FileTyped'
  BY DEF ScheduleInv, FileTyped
<1>2. CreatedNumber'
  BY DEF ScheduleInv, NoNewCreation, CreatedNumber
<1>3. NumbersApart'
  BY DEF ScheduleInv, NoNewCreation, NumbersApart
<1>4. QED
  BY <1>1, <1>2, <1>3 DEF ScheduleInv

\* create_task's first part: a number no schedule of the host has.
LEMMA CreateStep ==
    ASSUME Typed, HubInv, ScheduleInv, NEW a \in Agents, Create(a)
    PROVE  Typed' /\ HubInv' /\ ScheduleInv' /\ Quiet({"copied"})
<1>1. /\ call[a].tool = "scheduler" /\ call[a].at = "run" /\ call[a].arg = "create"
      /\ tasks' = tasks \cup {counter} /\ counter' = counter + 1
      /\ call' = [call EXCEPT ![a].at = "saving", ![a].num = counter]
      /\ UNCHANGED <<made, outcome, hubVars, file, armed, loose>>
  BY DEF Create, InScheduler, At
<1>2. counter \in Nat \ {0} /\ call[a] \in CallState
  BY DEF ScheduleInv, FileTyped, Typed, CallTyped
<1> DEFINE Saving(w, n) == [w EXCEPT !.at = "saving", !.num = n]
<1>3. \A w \in CallState, n \in Nat :
         /\ Saving(w, n) \in CallState /\ Saving(w, n).at = "saving" /\ Saving(w, n).num = n
         /\ Saving(w, n).tool = w.tool /\ Saving(w, n).arg = w.arg
  BY DEF CallState, Places
<1>4. call'[a] = Saving(call[a], counter)
  BY <1>1 DEF Typed, CallTyped
<1> HIDE DEF Saving
<1>5. /\ call'[a] \in CallState /\ call'[a].at = "saving" /\ call'[a].num = counter
      /\ call'[a].tool = "scheduler" /\ call'[a].arg = "create"
  BY <1>1, <1>2, <1>3, <1>4
<1>6. \A b \in Agents : b # a => call'[b] = call[b]
  BY <1>1 DEF Typed, CallTyped
<1>7. call' \in [Agents -> CallState]
  BY <1>1, <1>5, <1>6 DEF Typed, CallTyped
<1>8. Typed'
  BY <1>1, <1>5, <1>6, <1>7 DEF Typed, CallTyped, HubTyped, Numbered, hubVars
<1>9. HubInv'
  <2>1. Passive
    BY <1>1, <1>5, <1>6 DEF Passive, Runs, hubVars
  <2>2. QED
    BY <2>1, PassiveCalls
<1>10. ScheduleInv'
  <2>1. FileTyped' /\ NumbersBelow' /\ ArmedHeld'
    BY <1>1, <1>2 DEF ScheduleInv, FileTyped, NumbersBelow, ArmedHeld, Loaded, Torn
  <2>2. \A b \in Agents : b # a => (Creating(b)' <=> Creating(b))
    BY <1>6 DEF Creating, InScheduler, At
  <2>3. counter \notin armed \ loose
    BY <1>2 DEF ScheduleInv, NumbersBelow, ArmedHeld, FileTyped
  <2>4. CreatedNumber'
    <3>1. ASSUME NEW b \in Agents, b # a, Creating(b)
          PROVE  /\ call'[b].num \in 1 .. counter' - 1
                 /\ call'[b].num \notin armed' \ loose' /\ call'[b].num \in tasks' \cup loose'
      <4>1. /\ call[b].num \in 1 .. counter - 1 /\ call[b].num \notin armed \ loose
            /\ call[b].num \in tasks \cup loose
        BY <3>1 DEF ScheduleInv, CreatedNumber
      <4>2. call'[b].num = call[b].num
        BY <1>6, <3>1
      <4>3. QED
        BY <1>1, <1>2, <4>1, <4>2
    <3>2. /\ call'[a].num \in 1 .. counter' - 1
          /\ call'[a].num \notin armed' \ loose' /\ call'[a].num \in tasks' \cup loose'
      BY <1>1, <1>2, <1>5, <2>3
    <3>3. QED
      BY <2>2, <3>1, <3>2 DEF CreatedNumber
  <2>5. CreatedOnFile'
    <3>1. ~InScheduler(a, "create", "arming")'
      BY <1>5 DEF InScheduler, At
    <3>2. \A b \in Agents : b # a /\ InScheduler(b, "create", "arming")' =>
             InScheduler(b, "create", "arming") /\ call'[b].num = call[b].num
      BY <1>6 DEF InScheduler, At
    <3>3. QED
      BY <1>1, <3>1, <3>2 DEF ScheduleInv, CreatedOnFile, Loaded, Torn
  <2>6. NumbersApart'
    <3>1. \A b \in Agents : b # a /\ Creating(b) => call[b].num # counter
      BY <1>2 DEF ScheduleInv, CreatedNumber
    <3>2. QED
      BY <1>5, <1>6, <2>2, <3>1 DEF ScheduleInv, NumbersApart
  <2>7. QED
    BY <2>1, <2>4, <2>5, <2>6 DEF ScheduleInv
<1>11. QED
  BY <1>1, <1>5, <1>6, <1>8, <1>9, <1>10 DEF Quiet

\* A call of the scheduler that goes on begins no creation, unless it was one.
LEMMA NoCreation ==
    ASSUME NEW a \in Agents, \A b \in Agents : b # a => call'[b] = call[b],
           Creating(a)' => Creating(a) /\ call'[a].num = call[a].num
    PROVE  NoNewCreation
BY DEF NoNewCreation, Creating, InScheduler, At

\* Steps that leave the schedules, the file and the host's system alone.
LEMMA IdleSchedules ==
    ASSUME ScheduleInv, NoNewCreation, UNCHANGED scheduleVars,
           \A b \in Agents : InScheduler(b, "create", "arming")' =>
              InScheduler(b, "create", "arming") /\ call'[b].num = call[b].num
    PROVE  ScheduleInv'
<1>1. UNCHANGED <<tasks, counter, file, armed, loose>>
  BY DEF scheduleVars
<1>2. NumbersBelow' /\ ArmedHeld' /\ file' \subseteq Nat
  BY <1>1 DEF ScheduleInv, NumbersBelow, ArmedHeld, Loaded, Torn, FileTyped
<1>3. CreatedOnFile'
  BY <1>1 DEF ScheduleInv, CreatedOnFile, Loaded, Torn
<1>4. \A b \in Agents : Creating(b)' =>
         call[b].num \notin armed' \ loose' /\ call[b].num \in tasks' \cup loose'
  BY <1>1 DEF ScheduleInv, NoNewCreation, CreatedNumber
<1>5. QED
  BY <1>1, <1>2, <1>3, <1>4, SchedulesAfter

\* delete_task's first part: a task whose creation is not over is loose.
LEMMA DeleteStep ==
    ASSUME ScheduleInv, NEW a \in Agents, Delete(a), NoNewCreation,
           \A b \in Agents : InScheduler(b, "create", "arming")' =>
              InScheduler(b, "create", "arming") /\ call'[b].num = call[b].num
    PROVE  ScheduleInv'
<1> DEFINE t == call[a].num
<1>1. /\ t \in tasks /\ tasks' = tasks \ {t} /\ UNCHANGED <<counter, file>>
      /\ armed' = IF hook["tools"] THEN armed \ {t} ELSE armed
      /\ loose' = IF BeingCreated(t) \/ ~hook["tools"] THEN loose \cup {t} ELSE loose
  BY DEF Delete
<1>2. \A b \in Agents : Creating(b) /\ call[b].num = t => t \in loose'
  BY <1>1 DEF BeingCreated, Creating
<1> HIDE DEF t
<1>3. /\ loose \subseteq loose' /\ armed' \ loose' \subseteq armed \ loose
      /\ t \notin armed' \ loose'
  BY <1>1
<1>4. NumbersBelow' /\ file' \subseteq Nat
  BY <1>1 DEF ScheduleInv, NumbersBelow, FileTyped
<1>5. ArmedHeld'
  BY <1>1, <1>3 DEF ScheduleInv, ArmedHeld, Loaded, Torn
<1>6. CreatedOnFile'
  BY <1>1, <1>3 DEF ScheduleInv, CreatedOnFile, Loaded, Torn
<1>7. ASSUME NEW b \in Agents, Creating(b)'
      PROVE  call[b].num \notin armed' \ loose' /\ call[b].num \in tasks' \cup loose'
  <2>1. Creating(b)
    BY <1>7 DEF NoNewCreation
  <2>2. call[b].num \notin armed \ loose /\ call[b].num \in tasks \cup loose
    BY <2>1 DEF ScheduleInv, CreatedNumber
  <2>3. QED
    BY <1>1, <1>2, <1>3, <2>1, <2>2
<1>8. QED
  BY <1>1, <1>4, <1>5, <1>6, <1>7, SchedulesAfter

\* save_to_disk, and its failure: what the file lost is loose.
LEMMA SaveStep ==
    ASSUME ScheduleInv, NEW a \in Agents, UNCHANGED <<tasks, counter, armed>>,
           \/ file' = tasks /\ loose' = loose
           \/ /\ file' \in {file, Torn}
              /\ loose' = loose \cup {t \in tasks \cup armed : (t \in tasks) # (t \in file')},
           NoNewCreation
    PROVE  ScheduleInv'
<1>1. loose \subseteq loose' /\ \A t \in tasks : t \in file' \cup loose'
  OBVIOUS
<1>2. tasks \subseteq Nat \ {0} /\ file' \subseteq 0 .. counter - 1 /\ counter \in Nat \ {0}
  <2>1. /\ tasks \subseteq Nat \ {0} /\ counter \in Nat \ {0}
        /\ tasks \subseteq 0 .. counter - 1 /\ file \subseteq 0 .. counter - 1
    BY DEF ScheduleInv, FileTyped, NumbersBelow
  <2>2. Torn \subseteq 0 .. counter - 1
    BY <2>1 DEF Torn
  <2>3. QED
    BY <2>1, <2>2
<1>3. NumbersBelow' /\ file' \subseteq Nat
  BY <1>2 DEF ScheduleInv, NumbersBelow
<1>4. \A t \in tasks : t \in Loaded(file') \cup loose'
  BY <1>1, <1>2 DEF Loaded, Torn
<1>5. ArmedHeld'
  BY <1>1, <1>4 DEF ScheduleInv, ArmedHeld, Loaded, Torn
<1>6. \A b \in Agents : Creating(b)' =>
         call[b].num \notin armed' \ loose' /\ call[b].num \in tasks' \cup loose'
  BY <1>1 DEF ScheduleInv, NoNewCreation, CreatedNumber
<1>7. CreatedOnFile'
  <2>1. ASSUME NEW b \in Agents, InScheduler(b, "create", "arming")'
        PROVE  call'[b].num \in tasks \cup loose
    BY <2>1 DEF ScheduleInv, NoNewCreation, CreatedNumber, Creating
  <2>2. QED
    BY <1>1, <1>4, <2>1 DEF CreatedOnFile, Loaded
<1>8. QED
  BY <1>3, <1>5, <1>6, <1>7, SchedulesAfter

\* The host is told of the task that was created.
LEMMA ArmStep ==
    ASSUME ScheduleInv, NEW a \in Agents, Arm(a), NoNewCreation, ~Creating(a)',
           \A b \in Agents : InScheduler(b, "create", "arming")' =>
              InScheduler(b, "create", "arming") /\ call'[b].num = call[b].num
    PROVE  ScheduleInv'
<1> DEFINE t == call[a].num
<1>1. /\ InScheduler(a, "create", "arming") /\ Creating(a)
      /\ UNCHANGED <<tasks, counter, file, loose>>
      /\ armed' = armed \/ armed' = armed \cup {t}
  BY DEF Arm, Creating
<1>2. t \in tasks \cup loose /\ t \in Loaded(file) \cup loose
  BY <1>1 DEF ScheduleInv, CreatedNumber, CreatedOnFile
<1>3. \A b \in Agents : Creating(b)' => b # a /\ Creating(b) /\ call[b].num # t
  BY <1>1 DEF NoNewCreation, ScheduleInv, NumbersApart
<1> HIDE DEF t
<1>4. NumbersBelow' /\ file' \subseteq Nat
  BY <1>1 DEF ScheduleInv, NumbersBelow, FileTyped
<1>5. ArmedHeld'
  BY <1>1, <1>2 DEF ScheduleInv, ArmedHeld, Loaded, Torn
<1>6. CreatedOnFile'
  BY <1>1 DEF ScheduleInv, CreatedOnFile, Loaded, Torn
<1>7. ASSUME NEW b \in Agents, Creating(b)'
      PROVE  call[b].num \notin armed' \ loose' /\ call[b].num \in tasks' \cup loose'
  <2>1. call[b].num \notin armed \ loose /\ call[b].num \in tasks \cup loose
    BY <1>3, <1>7 DEF ScheduleInv, CreatedNumber
  <2>2. QED
    BY <1>1, <1>3, <1>7, <2>1
<1>8. QED
  BY <1>1, <1>4, <1>5, <1>6, <1>7, SchedulesAfter

\* The steps of an agent in the scheduler.
LEMMA SchedulerSteps ==
    ASSUME Typed, HubInv, ScheduleInv, NEW a \in Agents, SchedulerStep(a) \/ SaveFails(a)
    PROVE  Typed' /\ HubInv' /\ ScheduleInv' /\ Quiet({"copied"})
<1>1. CASE Create(a)
  BY <1>1, CreateStep
<1>2. ASSUME NEW at \in {"telling", "arming", "saving", "idle"},
             call[a].at \in {"run", "saving", "arming", "telling"},
             IF at = "idle" THEN Return(a) ELSE Goto(a, at),
             UNCHANGED <<pending, mail, accepted>>,
             at = "saving" => call[a].arg = "delete",
             at = "arming" => call[a].at = "saving"
      PROVE  /\ Typed' /\ HubInv' /\ Quiet({"copied"}) /\ NoNewCreation
             /\ call'[a].at = at
             /\ \A b \in Agents : b # a => call'[b] = call[b]
  <2>1. Runs(a)
    BY <1>2 DEF Runs
  <2>2. Return(a) \/ \E p \in Places \ {"idle", "waiting"} : Goto(a, p)
    BY <1>2 DEF Places
  <2>3. /\ Typed' /\ HubInv'
        /\ \A b \in Agents : b # a => call'[b] = call[b]
        /\ Return(a) => call'[a].at = "idle"
        /\ \A p \in Places : Goto(a, p) =>
              /\ call'[a].at = p /\ call'[a].tool = call[a].tool
              /\ call'[a].arg = call[a].arg /\ call'[a].num = call[a].num
    BY <1>2, <2>1, <2>2, RunningCalls
  <2>4. /\ call'[a].at = at
        /\ at # "idle" => /\ call'[a].tool = call[a].tool
                          /\ call'[a].arg = call[a].arg /\ call'[a].num = call[a].num
    BY <1>2, <2>3 DEF Places
  <2>5. Creating(a)' => Creating(a) /\ call'[a].num = call[a].num
    BY <1>2, <2>4 DEF Creating, InScheduler, At
  <2>6. NoNewCreation
    BY <2>3, <2>5, NoCreation
  <2>7. Quiet({"copied"})
    BY <1>2, <2>3, <2>4 DEF Quiet
  <2>8. QED
    BY <2>3, <2>4, <2>6, <2>7
<1>3. ASSUME \A b \in Agents : b # a => call'[b] = call[b], call'[a].at # "arming"
      PROVE  \A b \in Agents : InScheduler(b, "create", "arming")' =>
                InScheduler(b, "create", "arming") /\ call'[b].num = call[b].num
  BY <1>3 DEF InScheduler, At
<1>4. CASE List(a) \/ DeleteUnknown(a)
  <2>1. /\ call[a].at = "run" /\ Return(a) /\ UNCHANGED scheduleVars
        /\ UNCHANGED <<pending, mail, accepted>>
    BY <1>4 DEF List, DeleteUnknown, InScheduler, At, hubVars
  <2>2. /\ Typed' /\ HubInv' /\ Quiet({"copied"}) /\ NoNewCreation
        /\ call'[a].at = "idle" /\ \A b \in Agents : b # a => call'[b] = call[b]
    BY <1>2, <2>1
  <2>3. QED
    BY <1>3, <2>1, <2>2, IdleSchedules
<1>5. CASE Delete(a)
  <2>1. /\ call[a].at = "run" /\ Goto(a, "telling")
        /\ UNCHANGED <<pending, mail, accepted>>
    BY <1>5 DEF Delete, InScheduler, At, TellHost
  <2>2. /\ Typed' /\ HubInv' /\ Quiet({"copied"}) /\ NoNewCreation
        /\ call'[a].at = "telling" /\ \A b \in Agents : b # a => call'[b] = call[b]
    BY <1>2, <2>1
  <2>3. QED
    BY <1>3, <1>5, <2>2, DeleteStep
<1>6. CASE Save(a) \/ SaveFails(a)
  <2>1. /\ call[a].at = "saving" /\ (Return(a) \/ Goto(a, "arming"))
        /\ UNCHANGED <<pending, mail, accepted>>
    BY <1>6 DEF Save, SaveFails, Saves, AfterSave, hubVars
  <2>2. Typed' /\ HubInv' /\ Quiet({"copied"}) /\ NoNewCreation
    BY <1>2, <2>1
  <2>3. /\ UNCHANGED <<tasks, counter, armed>>
        /\ \/ file' = tasks /\ loose' = loose
           \/ /\ file' \in {file, Torn}
              /\ loose' = loose \cup {t \in tasks \cup armed : (t \in tasks) # (t \in file')}
    BY <1>6 DEF Save, SaveFails
  <2>4. QED
    BY <2>2, <2>3, SaveStep
<1>7. CASE Arm(a)
  <2>1. /\ call[a].at = "arming" /\ Goto(a, "telling")
        /\ UNCHANGED <<pending, mail, accepted>>
    BY <1>7 DEF Arm, InScheduler, At, TellHost
  <2>2. /\ Typed' /\ HubInv' /\ Quiet({"copied"}) /\ NoNewCreation
        /\ call'[a].at = "telling" /\ \A b \in Agents : b # a => call'[b] = call[b]
    BY <1>2, <2>1
  <2>3. ~Creating(a)'
    BY <2>2 DEF Creating, InScheduler, At
  <2>4. QED
    BY <1>3, <1>7, <2>2, <2>3, ArmStep
<1>8. CASE HostKnows(a)
  <2>1. /\ call[a].at = "telling" /\ UNCHANGED scheduleVars
        /\ Return(a) \/ (Goto(a, "saving") /\ call[a].arg = "delete")
        /\ UNCHANGED <<pending, mail, accepted>>
    BY <1>8 DEF HostKnows, At
  <2>2. /\ Typed' /\ HubInv' /\ Quiet({"copied"}) /\ NoNewCreation
        /\ call'[a].at # "arming" /\ \A b \in Agents : b # a => call'[b] = call[b]
    BY <1>2, <2>1
  <2>3. QED
    BY <1>3, <2>1, <2>2, IdleSchedules
<1>9. QED
  BY <1>1, <1>4, <1>5, <1>6, <1>7, <1>8 DEF SchedulerStep

\* The steps of an agent in the plan tool.
LEMMA PlanSteps ==
    ASSUME Typed, HubInv, PlanInv, NEW a \in Agents, PlanStep(a), UNCHANGED hubVars
    PROVE  Typed' /\ HubInv' /\ PlanInv' /\ Quiet({"saving", "arming"})
<1>1. /\ Runs(a) /\ call[a].at \in {"run", "copied"} /\ call[a].tool = "plan"
      /\ Return(a) \/ Goto(a, "copied")
  BY DEF PlanStep, PlanRefused, UpdatePlan, ShowPlan, At, Runs
<1>2. UNCHANGED <<pending, mail, accepted>>
  BY DEF hubVars
<1>3. Return(a) \/ \E p \in Places \ {"idle", "waiting"} : Goto(a, p)
  BY <1>1 DEF Places
<1>4. /\ Typed' /\ HubInv'
      /\ \A b \in Agents : b # a => call'[b] = call[b]
      /\ Return(a) => call'[a].at = "idle"
      /\ Goto(a, "copied") => call'[a].at = "copied" /\ call'[a].tool = "plan"
  BY <1>1, <1>2, <1>3, RunningCalls DEF Places
<1>5. Quiet({"saving", "arming"})
  BY <1>1, <1>4 DEF Quiet
<1>6. /\ \A b \in Agents : b # a => (Copied(b)' <=> Copied(b))
      /\ Return(a) => ~Copied(a)'
      /\ Goto(a, "copied") => Copied(a)'
  BY <1>4 DEF Copied, At
<1>7. PlanInv'
  <2>1. CASE PlanRefused(a)
    <3>1. ~Copied(a) /\ ~Copied(a)' /\ UNCHANGED planVars
      BY <1>6, <2>1 DEF PlanRefused, Copied, At
    <3>2. QED
      BY <1>6, <3>1 DEF PlanInv, PlanTyped, planVars
  <2>2. CASE UpdatePlan(a)
    <3>1. /\ ~Copied(a) /\ Copied(a)' /\ UNCHANGED shown
          /\ drafts' = [drafts EXCEPT ![a] = planned']
          /\ ~overtaken' => ~overtaken /\ \A b \in Agents : ~Copied(b)
      <4>1. ~Copied(a)
        BY <2>2 DEF UpdatePlan, Copied, At
      <4>2. UNCHANGED shown /\ drafts' = [drafts EXCEPT ![a] = planned'] /\ Goto(a, "copied")
        BY <2>2 DEF UpdatePlan
      <4>3. ~overtaken' => ~overtaken /\ \A b \in Agents : ~Copied(b)
        BY <2>2, Zenon DEF UpdatePlan, Copied
      <4>4. QED
        BY <1>6, <4>1, <4>2, <4>3
    <3>2. drafts'[a] = planned' /\ drafts' = [b \in Agents |-> drafts'[b]]
      BY <3>1 DEF PlanInv, PlanTyped
    <3>3. QED
      BY <1>6, <3>1, <3>2 DEF PlanInv, PlanTyped
  <2>3. CASE ShowPlan(a)
    <3>1. /\ Copied(a) /\ ~Copied(a)' /\ shown' = drafts[a]
          /\ UNCHANGED <<planned, overtaken>>
          /\ drafts' = [drafts EXCEPT ![a] = <<>>]
      BY <1>6, <2>3 DEF ShowPlan, Copied, At
    <3>2. drafts' = [b \in Agents |-> drafts'[b]]
      BY <3>1 DEF PlanInv, PlanTyped
    <3>3. QED
      BY <1>6, <3>1, <3>2 DEF PlanInv, PlanTyped
  <2>4. QED
    BY <2>1, <2>2, <2>3 DEF PlanStep
<1>8. QED
  BY <1>4, <1>5, <1>7

\* The process starts again.
LEMMA Restarts ==
    ASSUME Inv, Restart
    PROVE  Inv'
<1>1. /\ call' = [a \in Agents |-> Idle] /\ UNCHANGED <<made, accepted, file, armed, loose>>
      /\ outcome' = [id \in Ids |-> IF Awaited(id) THEN "dropped" ELSE outcome[id]]
      /\ pending' = [h \in Hubs |-> {}] /\ mail' = {}
      /\ tasks' = Loaded(file) /\ counter' = FirstFree(file)
      /\ planned' = <<>> /\ shown' = <<>> /\ drafts' = [a \in Agents |-> <<>>]
  BY DEF Restart
<1>2. Idle \in CallState /\ Idle.at = "idle"
  BY DEF Idle, CallState, Tools, Places, Args
<1>3. \A a \in Agents : call'[a].at = "idle" /\ call'[a] \in CallState
  BY <1>1, <1>2
<1>4. Typed'
  BY <1>1, <1>2, <1>3 DEF Inv, Typed, CallTyped, HubTyped, Numbered
<1>5. HubInv'
  <2> SUFFICES ASSUME NEW a \in Agents, NEW n \in 1 .. MaxCalls
               PROVE  CallInv(a, n)'
    BY DEF HubInv
  <2> DEFINE id == <<a, n>>
  <2>1. id \in Ids /\ CallInv(a, n)
    BY DEF Ids, Inv, HubInv
  <2>2. Awaited(id) <=> Waiting(a) /\ n = made[a]
    BY DEF Awaited, Id
  <2>3. outcome'[id] = IF Waiting(a) /\ n = made[a] THEN "dropped" ELSE outcome[id]
    BY <1>1, <2>1, <2>2
  <2>4. Untouched(id) /\ outcome'[id] = outcome[id] => Untouched(id)' /\ Over(a, id)'
    BY <1>1 DEF Untouched, Over
  <2>5. Over(a, id) /\ outcome'[id] = outcome[id] => Over(a, id)'
    BY <1>1 DEF Over
  <2>6. AwaitsAnswer(a, id) /\ outcome'[id] = "dropped" => Over(a, id)'
    BY <1>1 DEF AwaitsAnswer, Over
  <2>7. n > made[a] \/ n < made[a] \/ n = made[a]
    BY DEF Inv, Typed, CallTyped
  <2> HIDE DEF id
  <2>8. /\ n > made[a] => Untouched(id)
        /\ n = made[a] /\ Runs(a) => Untouched(id)
        /\ n = made[a] /\ Waiting(a) => AwaitsAnswer(a, id)
        /\ n < made[a] => Over(a, id)
        /\ n = made[a] /\ call[a].at = "idle" => Over(a, id)
    BY <2>1 DEF id, CallInv, Waiting
  <2>9. n > made[a] => Untouched(id)'
    BY <2>3, <2>4, <2>8 DEF Inv, Typed, CallTyped
  <2>10. n <= made[a] => Over(a, id)'
    BY <2>3, <2>4, <2>5, <2>6, <2>7, <2>8 DEF Runs, Waiting, Inv, Typed, CallTyped
  <2>11. QED
    BY <1>1, <1>3, <2>9, <2>10 DEF id, CallInv, Runs, Inv, Typed, CallTyped
<1>6. ScheduleInv'
  <2>1. counter - 1 \in Nat /\ file \in SUBSET (0 .. counter - 1) /\ file \subseteq Nat
    BY DEF Inv, ScheduleInv, FileTyped, NumbersBelow
  <2>2. counter' \in Nat \ {0} /\ tasks' \subseteq 0 .. counter' - 1
    BY <1>1, <2>1, FirstFreeAbove
  <2>3. file' \subseteq 0 .. counter' - 1
    BY <1>1, <2>2 DEF Loaded, Torn
  <2>4. ArmedHeld'
    BY <1>1 DEF Inv, ScheduleInv, ArmedHeld, Loaded, Torn
  <2>5. \A a \in Agents : ~Creating(a)' /\ ~InScheduler(a, "create", "arming")'
    BY <1>3 DEF Creating, InScheduler, At
  <2>6. FileTyped' /\ NumbersBelow'
    BY <1>1, <2>1, <2>2, <2>3 DEF FileTyped, NumbersBelow, Loaded, Torn
  <2>7. QED
    BY <2>4, <2>5, <2>6 DEF ScheduleInv, CreatedNumber, CreatedOnFile, NumbersApart
<1>7. PlanInv'
  BY <1>1, <1>3 DEF PlanInv, PlanTyped, Copied, At
<1>8. QED
  BY <1>4, <1>5, <1>6, <1>7 DEF Inv

-----------------------------------------------------------------------------
\* The invariant holds at the start.
LEMMA InvHoldsAtFirst == Init => Inv
<1> SUFFICES ASSUME Init
             PROVE  Inv
  OBVIOUS
<1>1. /\ call = [a \in Agents |-> Idle] /\ made = [a \in Agents |-> 0]
      /\ pending = [h \in Hubs |-> {}] /\ mail = {}
      /\ accepted = [id \in Ids |-> 0] /\ outcome = [id \in Ids |-> "none"]
      /\ tasks = {} /\ counter = 1 /\ file = {} /\ armed = {} /\ loose = {}
      /\ planned = <<>> /\ shown = <<>> /\ drafts = [a \in Agents |-> <<>>]
  BY DEF Init, HostInit
<1>2. \A a \in Agents : call[a] \in CallState /\ call[a].at = "idle"
  BY <1>1 DEF Idle, CallState, Tools, Places, Args
<1>3. Typed
  BY <1>1, <1>2, HostCallsAssumption DEF Typed, CallTyped, HubTyped, Numbered
<1>4. HubInv
  BY <1>1, <1>2 DEF HubInv, CallInv, Untouched, Over, Runs, Ids
<1>5. ScheduleInv
  BY <1>1, <1>2 DEF ScheduleInv, FileTyped, NumbersBelow, ArmedHeld, CreatedNumber,
       CreatedOnFile, NumbersApart, Creating, InScheduler, At, Loaded
<1>6. PlanInv
  BY <1>1, <1>2 DEF PlanInv, PlanTyped, Copied, At
<1>7. QED
  BY <1>3, <1>4, <1>5, <1>6 DEF Inv

\* Every step keeps the invariant: agents, host, faults.
LEMMA StepsKeepInv == Inv /\ [Next]_vars => Inv'
<1> SUFFICES ASSUME Inv, [Next]_vars
             PROVE  Inv'
  OBVIOUS
<1>1. Typed /\ HubInv /\ ScheduleInv /\ PlanInv
  BY DEF Inv
<1>2. ASSUME Typed', HubInv', Quiet({"saving", "arming", "copied"}),
             UNCHANGED <<scheduleVars, planVars>>
      PROVE  Inv'
  <2>1. Quiet({"saving", "arming"}) /\ Quiet({"copied"})
    BY <1>2 DEF Quiet
  <2>2. ScheduleInv' /\ PlanInv'
    BY <1>1, <1>2, <2>1, QuietSchedules, QuietPlans
  <2>3. QED
    BY <1>2, <2>2 DEF Inv
<1>3. ASSUME NEW a \in Agents, HostStep(a), UNCHANGED <<scheduleVars, planVars>>
      PROVE  Inv'
  BY <1>1, <1>2, <1>3, HostSteps
<1>4. ASSUME NEW a \in Agents, SchedulerStep(a) \/ SaveFails(a), UNCHANGED planVars
      PROVE  Inv'
  <2>1. Typed' /\ HubInv' /\ ScheduleInv' /\ Quiet({"copied"})
    BY <1>1, <1>4, SchedulerSteps
  <2>2. PlanInv'
    BY <1>1, <1>4, <2>1, QuietPlans
  <2>3. QED
    BY <2>1, <2>2 DEF Inv
<1>5. ASSUME NEW a \in Agents, PlanStep(a), UNCHANGED <<hubVars, scheduleVars>>
      PROVE  Inv'
  <2>1. Typed' /\ HubInv' /\ PlanInv' /\ Quiet({"saving", "arming"})
    BY <1>1, <1>5, PlanSteps
  <2>2. ScheduleInv'
    BY <1>1, <1>5, <2>1, QuietSchedules
  <2>3. QED
    BY <2>1, <2>2 DEF Inv
<1>6. ASSUME HostNext, UNCHANGED <<scheduleVars, planVars>>
      PROVE  Inv'
  <2>1. Typed' /\ HubInv' /\ UNCHANGED call
    BY <1>1, <1>6, HostChanges
  <2>2. Quiet({"saving", "arming", "copied"})
    BY <2>1 DEF Quiet
  <2>3. QED
    BY <1>2, <1>6, <2>1, <2>2
<1>7. ASSUME NEW a \in Agents, Calls(a), UNCHANGED <<scheduleVars, planVars>>
      PROVE  Inv'
  <2>1. counter \in Nat
    BY <1>1 DEF ScheduleInv, FileTyped
  <2>2. \E tool \in Tools, arg \in Args, num \in Nat : CallTool(a, tool, arg, num)
    <3>1. CASE \E tool \in {"talent", "browse", "ask_user_question", "notification"} :
                  CallTool(a, tool, "none", 0)
      BY <3>1 DEF Tools, Args
    <3>2. CASE \E arg \in {"create", "list"} : CallTool(a, "scheduler", arg, 0)
      BY <3>2 DEF Tools, Args
    <3>3. CASE \E t \in 1 .. counter : CallTool(a, "scheduler", "delete", t)
      BY <2>1, <3>3 DEF Tools, Args
    <3>4. CASE \E arg \in DOMAIN PlanArgs : CallTool(a, "plan", arg, 0)
      BY <3>4 DEF Tools, Args
    <3>5. QED
      BY <1>7, <3>1, <3>2, <3>3, <3>4 DEF Calls
  <2>3. Typed' /\ HubInv' /\ Quiet({"saving", "arming", "copied"})
    BY <1>1, <2>2, MadeCalls
  <2>4. QED
    BY <1>2, <1>7, <2>3
<1>8. CASE Restart
  BY <1>8, Restarts
<1>9. CASE UNCHANGED vars
  <2>1. /\ UNCHANGED <<call, made, outcome, pending, mail, accepted>>
        /\ UNCHANGED <<scheduleVars, planVars>>
    BY <1>9 DEF vars, hostVars, agentVars, hubVars
  <2>2. Typed'
    BY <1>1, <2>1 DEF Typed, CallTyped, HubTyped, Numbered
  <2>3. HubInv'
    BY <1>1, <2>1, PassiveCalls DEF Passive
  <2>4. Quiet({"saving", "arming", "copied"})
    BY <2>1 DEF Quiet
  <2>5. QED
    BY <1>2, <2>1, <2>2, <2>3, <2>4
<1>10. ASSUME NEW a \in Agents, AgentStep(a)
       PROVE  Inv'
  BY <1>3, <1>4, <1>5, <1>10 DEF AgentStep
<1>11. CASE Fault
  BY <1>4, <1>8, <1>11 DEF Fault
<1>12. QED
  BY <1>6, <1>7, <1>9, <1>10, <1>11 DEF Next

-----------------------------------------------------------------------------
\* The invariant says what the hubs promise.
LEMMA InvConsistent == Inv => HubsConsistent
<1> SUFFICES ASSUME Inv
             PROVE  HubsConsistent
  OBVIOUS
<1>1. ASSUME NEW a \in Agents, NEW n \in 1 .. MaxCalls
      PROVE  LET id == <<a, n>>
             IN /\ accepted[id] <= 1
                /\ outcome[id] = "answered" => accepted[id] = 1
                /\ accepted[id] = 1 =>
                     (Awaited(id) /\ id \in mail) \/ outcome[id] \in {"answered", "dropped"}
                /\ \A h \in Hubs : id \in pending[h] =>
                      Awaited(id) \/ (a \in Chats /\ outcome[id] = "dropped")
  <2>1. CallInv(a, n)
    BY DEF Inv, HubInv
  <2>2. n = made[a] /\ Waiting(a) => Awaited(<<a, n>>)
    BY DEF Awaited, Id
  <2>3. n > made[a] \/ n < made[a] \/ n = made[a]
    BY DEF Inv, Typed, CallTyped
  <2>4. Untouched(<<a, n>>) \/ Over(a, <<a, n>>) \/ (AwaitsAnswer(a, <<a, n>>) /\ Awaited(<<a, n>>))
    BY <2>1, <2>2, <2>3 DEF CallInv, Runs, Waiting
  <2>5. QED
    BY <2>4 DEF Untouched, Over, AwaitsAnswer
<1>2. AnswersDelivered
  BY <1>1 DEF AnswersDelivered, Ids
<1>3. PendingAccounted
  BY <1>1 DEF PendingAccounted, Ids, Inv, Typed, HubTyped
<1>4. QED
  BY <1>2, <1>3 DEF HubsConsistent

\* The invariant says what the schedules promise.
LEMMA InvKept == Inv => SchedulesKept
<1> SUFFICES ASSUME Inv
             PROVE  SchedulesKept
  OBVIOUS
<1>1. ArmedOnFile
  BY DEF Inv, ScheduleInv, ArmedHeld, ArmedOnFile
<1>2. IdsFresh
  BY DEF Inv, ScheduleInv, CreatedNumber, IdsFresh, BeingCreated, Creating
<1>3. QED
  BY <1>1, <1>2 DEF SchedulesKept

\* The tables of the hubs, the channels of the answers and the calls agree,
\* whatever agents call, the host answers, and times out, is cancelled or dies.
THEOREM HubsAgree == Spec => []HubsConsistent
<1>1. Spec => []Inv
  BY InvHoldsAtFirst, StepsKeepInv, PTL DEF Spec
<1>2. QED
  BY <1>1, InvConsistent, PTL

\* What the host's system was told to run is on file, and a new schedule never
\* takes the number of one of those.
THEOREM SchedulesAgree == Spec => []SchedulesKept
<1>1. Spec => []Inv
  BY InvHoldsAtFirst, StepsKeepInv, PTL DEF Spec
<1>2. QED
  BY <1>1, InvKept, PTL

\* The plan that snapshot() and the UI have is the plan, between updates.
THEOREM PlanAgrees == Spec => []PlanShown
<1>1. Spec => []Inv
  BY InvHoldsAtFirst, StepsKeepInv, PTL DEF Spec
<1>2. Inv => PlanShown
  BY DEF Inv, PlanInv, PlanShown, Copied
<1>3. QED
  BY <1>1, <1>2, PTL

=============================================================================
