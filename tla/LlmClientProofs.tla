-------------------------- MODULE LlmClientProofs --------------------------
(***************************************************************************)
(* What an operation asks of its providers: the budget of a visit, the     *)
(* switch to a local model, the order and the reports of its visits        *)
(* (VisitLoop), and that an agent turn shows the text it returns, for      *)
(* every plan, policy and text.                                            *)
(***************************************************************************)
EXTENDS LlmClient, SequenceTheorems, TLAPS

Texts    == Seq(Nat)
TryState == [attempt : Int, rate : Nat, doom : Nat, continued : BOOLEAN,
             prefix : Texts, carried : Texts]

Visiting == pc \in {"send", "stream"}

Typed ==
    /\ plan \in Plans
    /\ pc \in {"pick", "send", "stream", "done"}
    /\ i \in 1 .. Len(plan) + 1 /\ (Visiting => i <= Len(plan))
    /\ maxTier \in Nat /\ tripped \in Seq(Nat)
    /\ pc # "done" => result.kind = "none"
    /\ try \in TryState /\ contFrom \in Texts
    /\ skip \in Texts /\ reply \in Texts /\ got \in Texts /\ ui \in Texts

\* A request is sent only while the budget has one left.
Budget == (IF chainMode THEN MaxAttempts ELSE MaxRetries + 1) + try.doom

BudgetInv ==
    /\ try.attempt <= Budget
    /\ pc = "send" => try.attempt < Budget

\* A plan of one slot is at its head until that is visited.
SingleInv == ~chainMode /\ pc = "pick" => i = 1 /\ maxTier = 0 /\ badOrigins = {}

\* The last report of a trip, and why the slot after it is no local model that
\* an agent turn with output must not cross to.
LastTripped == tripped # <<>> /\ tripped[Len(tripped)] = i - 1

SwitchInv ==
    /\ pc # "done" => \A k \in 1 .. Len(tripped) : tripped[k] < i
    /\ Visiting => plan[i].tier <= maxTier
    /\ pc = "pick" /\ ui # <<>> => tripped # <<>>
    /\ pc = "pick" /\ LastTripped /\ ~oneShot /\ ui # <<>> /\ i <= Len(plan) =>
          ~(plan[i].host /\ plan[i].tier > maxTier /\ plan[i].origin \notin badOrigins)

Inv == Typed /\ BudgetInv /\ SingleInv /\ SwitchInv

-----------------------------------------------------------------------------
\* Plans are sequences of slots, and not empty.
LEMMA PlanSlots ==
    ASSUME NEW p \in Plans
    PROVE  /\ p \in Seq(Slot) /\ Len(p) \in Nat \ {0}
           /\ \A k \in 1 .. Len(p) : p[k].tier \in Nat
<1>1. p \in Seq(Slot) /\ p # <<>>
  BY ClientAssumption
<1>2. Len(p) \in Nat \ {0}
  BY <1>1
<1>3. \A k \in 1 .. Len(p) : p[k] \in Slot
  BY <1>1
<1>4. QED
  BY <1>1, <1>2, <1>3 DEF Slot

\* The budget is a number, of one at least without the resamples.
LEMMA BudgetType == Budget = (IF chainMode THEN MaxAttempts ELSE MaxRetries + 1) + try.doom
                    /\ MaxAttempts \in Nat \ {0} /\ MaxRetries \in Nat
BY ClientAssumption DEF Budget, MaxAttempts, Max2

\* The locals after an attempt, a rate limit, a resample and a continuation.
Tried(t, n)      == [t EXCEPT !.attempt = n]
Limited(t, n, r) == [t EXCEPT !.attempt = n, !.rate = r]

\* They are locals of a visit, and change nothing else.
LEMMA TryChanges ==
    ASSUME NEW t \in TryState, NEW n \in Int, NEW r \in Nat
    PROVE  /\ Tried(t, n) \in TryState
           /\ Tried(t, n).attempt = n /\ Tried(t, n).doom = t.doom
           /\ Limited(t, n, r) \in TryState
           /\ Limited(t, n, r).attempt = n /\ Limited(t, n, r).doom = t.doom
BY DEF TryState, Tried, Limited

Resampled(t)    == [t EXCEPT !.doom = @ + 1]
Continued(t, p) == [t EXCEPT !.continued = TRUE, !.attempt = @ - 1, !.prefix = p]

\* So are a resample counted and a continuation begun.
LEMMA MoreTryChanges ==
    ASSUME NEW t \in TryState, NEW p \in Texts
    PROVE  /\ Resampled(t) \in TryState
           /\ Resampled(t).attempt = t.attempt /\ Resampled(t).doom = t.doom + 1
           /\ Continued(t, p) \in TryState
           /\ Continued(t, p).attempt = t.attempt - 1 /\ Continued(t, p).doom = t.doom
<1>1. \A n \in Nat : /\ [t EXCEPT !.doom = n] \in TryState
                     /\ [t EXCEPT !.doom = n].attempt = t.attempt /\ [t EXCEPT !.doom = n].doom = n
  BY DEF TryState
<1>2. \A n \in Int : /\ [t EXCEPT !.continued = TRUE, !.attempt = n, !.prefix = p] \in TryState
                     /\ [t EXCEPT !.continued = TRUE, !.attempt = n, !.prefix = p].attempt = n
                     /\ [t EXCEPT !.continued = TRUE, !.attempt = n, !.prefix = p].doom = t.doom
  BY DEF TryState
<1> DEFINE d == t.doom + 1
           a == t.attempt - 1
<1>3. d \in Nat /\ a \in Int
  BY DEF TryState
<1> HIDE DEF d, a
<1>4. /\ [t EXCEPT !.doom = d] \in TryState
      /\ [t EXCEPT !.doom = d].attempt = t.attempt /\ [t EXCEPT !.doom = d].doom = d
      /\ [t EXCEPT !.continued = TRUE, !.attempt = a, !.prefix = p] \in TryState
      /\ [t EXCEPT !.continued = TRUE, !.attempt = a, !.prefix = p].attempt = a
      /\ [t EXCEPT !.continued = TRUE, !.attempt = a, !.prefix = p].doom = t.doom
  BY <1>1, <1>2, <1>3
<1>5. QED
  BY <1>4 DEF d, a, Resampled, Continued

\* The locals at the start of a visit.
LEMMA NewTry ==
    ASSUME NEW c \in Texts
    PROVE  /\ NoTry \in TryState /\ NoTry.attempt = 0 /\ NoTry.doom = 0
           /\ [NoTry EXCEPT !.carried = c] \in TryState
           /\ [NoTry EXCEPT !.carried = c].attempt = 0 /\ [NoTry EXCEPT !.carried = c].doom = 0
<1>1. <<>> \in Texts
  BY DEF Texts
<1>2. NoTry \in TryState /\ NoTry.attempt = 0 /\ NoTry.doom = 0
  BY <1>1 DEF NoTry, TryState
<1>3. \A t \in TryState : /\ [t EXCEPT !.carried = c] \in TryState
                          /\ [t EXCEPT !.carried = c].attempt = t.attempt
                          /\ [t EXCEPT !.carried = c].doom = t.doom
  BY DEF TryState
<1>4. QED
  BY <1>2, <1>3

\* A turn continued is a text.
LEMMA MergeType == \A p, c \in Texts : Merge(p, c) \in Texts
BY DEF Merge, Texts

-----------------------------------------------------------------------------
\* The operation is over, with its visits as they were.
LEMMA Finishes ==
    ASSUME Inv, NEW kind, NEW text, Finish(kind, text),
           UNCHANGED <<inputVars, visitVars, try, skip, ui, tripped>>
    PROVE  Inv'
<1>1. /\ pc' = "done" /\ reply' = <<>> /\ got' = <<>>
      /\ UNCHANGED <<plan, i, maxTier, badOrigins, contFrom, try, skip, ui, tripped>>
  BY DEF Finish, inputVars, visitVars
<1>2. Typed'
  BY <1>1 DEF Inv, Typed, Visiting, Texts
<1>3. BudgetInv'
  BY <1>1 DEF Inv, BudgetInv, Budget, chainMode, MaxAttempts
<1>4. SingleInv' /\ SwitchInv'
  BY <1>1 DEF SingleInv, SwitchInv, Visiting
<1>5. QED
  BY <1>2, <1>3, <1>4 DEF Inv

\* The same provider is asked again.
LEMMA Retries ==
    ASSUME Inv, Visiting, NEW t \in TryState, Retry(t),
           t.attempt < (IF chainMode THEN MaxAttempts ELSE MaxRetries + 1) + t.doom
    PROVE  Inv'
<1>1. /\ pc' = "send" /\ try' = t /\ reply' = <<>> /\ got' = <<>>
      /\ UNCHANGED <<plan, oneShot, i, maxTier, badOrigins, contFrom, skip, ui, tripped, result>>
  BY DEF Retry, inputVars, visitVars
<1>2. Typed'
  BY <1>1 DEF Inv, Typed, Visiting, Texts
<1>3. BudgetInv'
  <2>1. Budget' = (IF chainMode THEN MaxAttempts ELSE MaxRetries + 1) + t.doom
    BY <1>1 DEF Budget, chainMode, MaxAttempts
  <2>2. Budget' \in Int /\ t.attempt \in Int
    BY <2>1, BudgetType DEF TryState
  <2>3. QED
    BY <1>1, <2>1, <2>2 DEF BudgetInv
<1>4. SingleInv' /\ SwitchInv'
  BY <1>1 DEF Inv, SingleInv, SwitchInv, Visiting
<1>5. QED
  BY <1>2, <1>3, <1>4 DEF Inv

\* The visit is over, and the next one begins or the operation is over too.
LEMMA Failovers ==
    ASSUME Inv, Visiting, NEW bad, NEW hostCode, NEW partial \in Texts,
           Failover(bad, hostCode, partial)
    PROVE  Inv'
<1>1. /\ plan \in Plans /\ Len(plan) \in Nat \ {0} /\ i \in 1 .. Len(plan)
      /\ maxTier \in Nat /\ tripped \in Seq(Nat) /\ plan[i].tier <= maxTier
      /\ \A k \in 1 .. Len(plan) : plan[k].tier \in Nat
      /\ result.kind = "none" /\ skip \in Texts /\ contFrom \in Texts /\ ui \in Texts
  BY PlanSlots DEF Inv, Typed, SwitchInv, Visiting
<1> DEFINE carry == IF partial = <<>> THEN contFrom ELSE Merge(contFrom, partial)
           nexts == NextSlots(bad)
           next  == plan[CHOOSE k \in nexts : \A m \in nexts : k <= m]
           over  == ~chainMode \/ nexts = {} \/ Refuses(next, carry)
<1>2. carry \in Texts
  BY <1>1, MergeType
<1>3. /\ badOrigins' = bad /\ maxTier' = maxTier /\ try' = NoTry /\ ui' = ui
      /\ reply' = <<>> /\ got' = <<>> /\ UNCHANGED <<plan, oneShot>>
      /\ tripped' = IF chainMode THEN Append(tripped, i) ELSE tripped
      /\ over => pc' = "done" /\ i' = i
      /\ ~over => pc' = "pick" /\ i' = i + 1 /\ result' = result
  BY DEF Failover, Finish, inputVars
<1>4. contFrom' \in Texts /\ skip' \in Texts
  <2>1. <<>> \in Texts
    BY DEF Texts
  <2>2. contFrom' \in {carry, <<>>} /\ skip' \in {skip, carry, <<>>}
    BY DEF Failover
  <2>3. QED
    BY <1>1, <1>2, <2>1, <2>2
<1> HIDE DEF carry, over
<1>5. <<>> \in Texts /\ NoTry \in TryState /\ NoTry.attempt = 0 /\ NoTry.doom = 0
  <2>1. <<>> \in Texts
    BY DEF Texts
  <2>2. QED
    BY <2>1, NewTry
<1>6. Typed'
  <2>1. tripped' \in Seq(Nat)
    BY <1>1, <1>3
  <2>2. i' \in 1 .. Len(plan) + 1 /\ pc' \in {"pick", "done"}
    BY <1>1, <1>3
  <2>3. QED
    BY <1>1, <1>3, <1>4, <1>5, <2>1, <2>2 DEF Typed, Visiting
<1>7. BudgetInv'
  <2>1. Budget' \in Nat \ {0}
    BY <1>3, <1>5, BudgetType DEF Budget, chainMode, MaxAttempts
  <2>2. pc' # "send"
    BY <1>3
  <2>3. QED
    BY <1>3, <1>5, <2>1, <2>2 DEF BudgetInv
<1>8. SingleInv'
  BY <1>3 DEF SingleInv, over, chainMode
<1>9. SwitchInv'
  <2>1. CASE over
    BY <1>3, <2>1 DEF SwitchInv, Visiting
  <2>2. CASE ~over
    <3>1. /\ pc' = "pick" /\ i' = i + 1 /\ tripped' = Append(tripped, i)
          /\ UNCHANGED <<plan, oneShot, ui, maxTier>> /\ badOrigins' = bad
      BY <1>3, <2>2 DEF over
    <3>2. /\ Len(tripped') = Len(tripped) + 1 /\ tripped'[Len(tripped')] = i
          /\ tripped' # <<>>
          /\ \A k \in 1 .. Len(tripped') : tripped'[k] < i'
      <4>1. \A k \in 1 .. Len(tripped) : tripped[k] < i /\ tripped[k] \in Nat
        BY <1>1 DEF Inv, SwitchInv, Visiting
      <4>2. QED
        BY <1>1, <3>1, <4>1
    <3>3. ASSUME ~oneShot, ui # <<>>, i + 1 <= Len(plan), plan[i + 1].host,
                 plan[i + 1].tier > maxTier, plan[i + 1].origin \notin bad
          PROVE  FALSE
      <4>1. i + 1 \in nexts /\ nexts \subseteq i + 1 .. Len(plan)
        BY <1>1, <3>3 DEF NextSlots
      <4>2. \A m \in nexts : i + 1 <= m
        BY <1>1, <4>1
      <4> HIDE DEF nexts
      <4>3. next = plan[i + 1]
        <5>1. \A k \in nexts : (\A m \in nexts : k <= m) => k = i + 1
          BY <1>1, <4>1, <4>2
        <5>2. QED
          BY <4>1, <4>2, <5>1
      <4> HIDE DEF next
      <4>4. Crossing(next)
        BY <1>1, <3>3, <4>3 DEF Crossing, Current
      <4>5. Refuses(next, carry)
        BY <3>3, <4>4 DEF Refuses
      <4>6. QED
        BY <2>2, <4>5 DEF over
    <3>4. QED
      BY <1>1, <3>1, <3>2, <3>3 DEF SwitchInv, Visiting, LastTripped
  <2>3. QED
    BY <2>1, <2>2
<1>10. QED
  BY <1>6, <1>7, <1>8, <1>9 DEF Inv

-----------------------------------------------------------------------------
\* The kinds of step there are: at the head of the loop, within a stream, and
\* at the end of a request or a visit.
Same == UNCHANGED <<inputVars, visitVars, try, skip, ui, tripped>>

Ended(kinds) == \E kind, text : kind \in kinds /\ Finish(kind, text) /\ Same

Again == \E t \in TryState :
    Retry(t) /\ t.attempt < (IF chainMode THEN MaxAttempts ELSE MaxRetries + 1) + t.doom

Left == \E bad, hostCode : \E partial \in Texts : Failover(bad, hostCode, partial)

Failed == {"exhausted", "terminal", "unavailable", "veto", "dropped"}

Handled == Ended(Failed) \/ Again \/ Left

\* To terminate is one of the ways an operation fails.
LEMMA TerminateEnds == \A kind \in Failed : Terminate(kind) => Ended(Failed)
BY DEF Terminate, Ended, Same

\* The failures of a request, each of which is retried, ends the visit or ends
\* the operation.
LEMMA RequestFailures ==
    ASSUME Inv,
           Vetoed \/ ConnectFailed \/ FatalStatus \/ RateLimited \/ RetryableError
    PROVE  pc = "send" /\ Handled
<1>1. pc = "send"
  BY DEF Vetoed, ConnectFailed, FatalStatus, RateLimited, RetryableError, Fails
<1>2. <<>> \in Texts /\ try.prefix \in Texts /\ try \in TryState /\ try.attempt \in Int
  <2>1. <<>> \in Texts
    BY DEF Texts
  <2>2. QED
    BY <2>1 DEF Inv, Typed, TryState
<1>3. \A bad, hostCode : \A partial \in Texts : Failover(bad, hostCode, partial) => Left
  BY DEF Left
<1>4. \A kind \in Failed : Terminate(kind) => Ended(Failed)
  BY TerminateEnds
<1>5. ASSUME ~Exhausted(Attempt)
      PROVE  /\ Retry([try EXCEPT !.attempt = Attempt]) => Again
             /\ \A r \in Nat : Retry([try EXCEPT !.attempt = Attempt, !.rate = r]) => Again
  <2>1. Attempt \in Int /\ try.doom \in Nat
    BY <1>2 DEF Attempt, TryState
  <2>2. Attempt < (IF chainMode THEN MaxAttempts ELSE MaxRetries + 1) + try.doom
    BY <1>5, <2>1, BudgetType DEF Exhausted
  <2>3. ASSUME NEW t \in TryState, t.attempt = Attempt, t.doom = try.doom
        PROVE  Retry(t) => Again
    BY <2>2, <2>3 DEF Again
  <2>4. Retry(Tried(try, Attempt)) => Again
    <3>1. 0 \in Nat
      OBVIOUS
    <3>2. QED
      BY <1>2, <2>1, <2>3, <3>1, TryChanges
  <2>5. \A r \in Nat : Retry(Limited(try, Attempt, r)) => Again
    BY <1>2, <2>1, <2>3, TryChanges
  <2>6. QED
    BY <2>4, <2>5 DEF Tried, Limited
<1>6. CASE Vetoed
  BY <1>1, <1>4, <1>6 DEF Vetoed, Failed, Handled
<1>7. CASE ConnectFailed
  BY <1>1, <1>2, <1>3, <1>7 DEF ConnectFailed, Handled
<1>8. CASE FatalStatus
  BY <1>1, <1>2, <1>3, <1>4, <1>8 DEF FatalStatus, Failed, Handled
<1>9. CASE RateLimited
  <2> DEFINE rate == try.rate + 1
  <2>1. rate \in Nat
    BY <1>2 DEF TryState
  <2>2. \/ Failover(badOrigins, FALSE, try.prefix) \/ Terminate("terminal")
        \/ ~Exhausted(Attempt) /\ Retry([try EXCEPT !.attempt = Attempt, !.rate = rate])
    BY <1>9 DEF RateLimited
  <2> HIDE DEF rate
  <2>3. QED
    BY <1>1, <1>2, <1>3, <1>4, <1>5, <2>1, <2>2 DEF Failed, Handled
<1>10. CASE RetryableError
  BY <1>1, <1>2, <1>3, <1>4, <1>5, <1>10 DEF RetryableError, Failed, Handled
<1>11. QED
  BY <1>6, <1>7, <1>8, <1>9, <1>10

\* A continuation on the same provider gives its attempt back.
Continues == \E text \in Texts :
    /\ pc' = "send" /\ try' = Continued(try, text) /\ skip' = text
    /\ reply' = <<>> /\ got' = <<>>
    /\ UNCHANGED <<inputVars, visitVars, ui, tripped, result>>

\* How a stream ends: with the turn, or like a request.
LEMMA StreamOutcomes ==
    ASSUME Inv,
           \/ \E calls : StreamEnds(calls) \/ IdleTimeout(calls)
           \/ DoomLooped \/ StreamFails
    PROVE  pc = "stream" /\ (Handled \/ Ended({"ok"}) \/ Continues)
<1>1. pc = "stream"
  BY DEF StreamEnds, IdleTimeout, DoomLooped, StreamFails
<1>2. /\ <<>> \in Texts /\ try.prefix \in Texts /\ try \in TryState /\ got \in Texts
      /\ try.attempt \in Int /\ try.doom \in Nat
  <2>1. <<>> \in Texts
    BY DEF Texts
  <2>2. QED
    BY <2>1 DEF Inv, Typed, TryState
<1>3. \A bad, hostCode : \A partial \in Texts : Failover(bad, hostCode, partial) => Left
  BY DEF Left
<1>4. \A kind \in Failed : Terminate(kind) => Ended(Failed)
  BY TerminateEnds
<1>5. \A text : Finish("ok", text) /\ Same => Ended({"ok"})
  BY DEF Ended
<1>6. /\ MaxAttempts \in Nat \ {0} /\ MaxRetries \in Nat
      /\ try.attempt <= (IF chainMode THEN MaxAttempts ELSE MaxRetries + 1) + try.doom
  BY BudgetType DEF Inv, BudgetInv, Budget
<1>7. ASSUME NEW calls, StreamEnds(calls)
      PROVE  Handled \/ Ended({"ok"})
  <2> DEFINE turn == Merge(try.prefix, got)
             budget == IF chainMode THEN MaxAttempts ELSE MaxRetries
  <2>1. \/ Finish("ok", Merge(contFrom, turn)) /\ Same
        \/ try.attempt < budget /\ Retry(try)
        \/ Failover(badOrigins, FALSE, <<>>)
        \/ Terminate("terminal")
    BY <1>7 DEF StreamEnds, Same
  <2>2. try.attempt < budget =>
           try.attempt < (IF chainMode THEN MaxAttempts ELSE MaxRetries + 1) + try.doom
    BY <1>2, <1>6
  <2> HIDE DEF turn, budget
  <2>3. try.attempt < budget /\ Retry(try) => Again
    BY <1>2, <2>2 DEF Again
  <2>4. QED
    BY <1>2, <1>3, <1>4, <1>5, <2>1, <2>3 DEF Handled, Failed
<1>8. CASE DoomLooped
  <2>1. Retry(Resampled(try)) \/ Terminate("terminal")
    BY <1>8 DEF DoomLooped, Resampled
  <2>2. /\ Resampled(try) \in TryState
        /\ Resampled(try).attempt = try.attempt /\ Resampled(try).doom = try.doom + 1
    BY <1>2, MoreTryChanges
  <2>3. Resampled(try).attempt
          < (IF chainMode THEN MaxAttempts ELSE MaxRetries + 1) + Resampled(try).doom
    BY <1>2, <1>6, <2>2
  <2>4. Retry(Resampled(try)) => Again
    BY <2>2, <2>3 DEF Again
  <2>5. QED
    BY <1>1, <1>4, <2>1, <2>4 DEF Handled, Failed
<1>9. ASSUME NEW calls, IdleTimeout(calls)
      PROVE  Handled \/ Ended({"ok"}) \/ Continues
  <2> DEFINE combined == Merge(try.prefix, got)
  <2>1. combined \in Texts
    BY <1>2, MergeType
  <2>2. \/ Finish("ok", Merge(contFrom, combined)) /\ Same
        \/ /\ pc' = "send" /\ try' = Continued(try, combined) /\ skip' = combined
           /\ reply' = <<>> /\ got' = <<>>
           /\ UNCHANGED <<inputVars, visitVars, ui, tripped, result>>
        \/ Failover(badOrigins, FALSE, combined) \/ Failover(badOrigins, FALSE, <<>>)
        \/ Terminate("terminal")
    BY <1>9 DEF IdleTimeout, Same, Continued
  <2> HIDE DEF combined
  <2>3. QED
    BY <1>2, <1>3, <1>4, <1>5, <2>1, <2>2 DEF Handled, Failed, Continues
<1>10. CASE StreamFails
  BY <1>2, <1>3, <1>4, <1>10 DEF StreamFails, Handled, Failed
<1>11. QED
  BY <1>1, <1>7, <1>8, <1>9, <1>10

\* Every step is one of these.
LEMMA StepCases ==
    ASSUME Inv, Next
    PROVE  \/ CloudPhaseEnds \/ SkipSlot \/ SkipUnfit \/ StartVisit \/ OpenStream
           \/ \E n \in 1 .. Len(reply) : Delta(n)
           \/ pc # "done" /\ Ended(Failed)
           \/ pc = "stream" /\ Ended({"ok"})
           \/ Visiting /\ (Again \/ Left \/ Continues)
<1>1. <<>> \in Texts
  BY DEF Texts
<1>2. CASE OutOfSlots
  BY <1>2 DEF OutOfSlots, Ended, Same, Failed
<1>3. CASE Abandon
  BY <1>3, TerminateEnds DEF Abandon, Failed
<1>4. CASE ShareSpent
  BY <1>1, <1>4 DEF ShareSpent, Visiting, Left
<1>5. CASE Vetoed \/ ConnectFailed \/ FatalStatus \/ RateLimited \/ RetryableError
  BY <1>5, RequestFailures DEF Handled, Visiting
<1>6. CASE (\E calls \in BOOLEAN : StreamEnds(calls)) \/ DoomLooped
              \/ (\E calls \in SUBSET CallKinds : IdleTimeout(calls)) \/ StreamFails
  BY <1>6, StreamOutcomes DEF Handled, Visiting
<1>7. QED
  BY <1>2, <1>3, <1>4, <1>5, <1>6 DEF Next

\* What the streams say is text.
LEMMA StreamTypes ==
    ASSUME Inv
    PROVE  /\ OpenStream => reply' \in Texts
           /\ \A n \in 1 .. Len(reply) : Delta(n) =>
                 got' \in Texts /\ reply' \in Texts /\ skip' \in Texts /\ ui' \in Texts
<1>1. /\ try.prefix \in Texts /\ try.carried \in Texts /\ got \in Texts /\ reply \in Texts
      /\ skip \in Texts /\ ui \in Texts
  BY DEF Inv, Typed, TryState
<1>2. ASSUME OpenStream
      PROVE  reply' \in Texts
  <2>1. Asked \in Texts /\ <<>> \in Texts
    BY <1>1 DEF Asked, Texts
  <2>2. \A n \in 1 .. MaxTokens : <<n>> \in Texts
    BY ClientAssumption DEF Texts
  <2>3. \A a, b \in Texts : a \o b \in Texts
    BY DEF Texts
  <2>4. ASSUME NEW r \in Reply
        PROVE  r \in Texts
    <3> DEFINE Fresh == {<<>>} \cup {<<n>> : n \in NextTokens}
    <3>1. \E repeated \in {<<>>, Asked}, fresh \in Fresh : r = repeated \o fresh
      BY DEF Reply
    <3>2. Fresh \subseteq Texts
      BY <2>1, <2>2 DEF NextTokens
    <3> HIDE DEF Fresh
    <3>3. QED
      BY <2>1, <2>3, <3>1, <3>2
  <2>5. QED
    BY <1>2, <2>4 DEF OpenStream
<1>3. ASSUME NEW n \in 1 .. Len(reply), Delta(n)
      PROVE  got' \in Texts /\ reply' \in Texts /\ skip' \in Texts /\ ui' \in Texts
  <2> DEFINE chunk == SubSeq(reply, 1, n)
             step  == SkipChunk(skip, chunk)
  <2>1. chunk \in Texts /\ SubSeq(reply, n + 1, Len(reply)) \in Texts
    BY <1>1 DEF Texts
  <2>2. \A a, b \in Texts : SubSeq(a, Len(b) + 1, Len(a)) \in Texts /\ a \o b \in Texts
    BY DEF Texts
  <2>3. <<>> \in Texts
    BY DEF Texts
  <2>4. \A a, b \in Texts : SkipChunk(a, b).skip \in Texts /\ SkipChunk(a, b).out \in Texts
    BY <2>2, <2>3 DEF SkipChunk
  <2> HIDE DEF chunk
  <2>5. QED
    BY <1>1, <1>3, <2>1, <2>2, <2>4 DEF Delta, chunk
<1>4. QED
  BY <1>2, <1>3

\* The invariant holds when an operation begins.
LEMMA InvHoldsAtFirst == Init => Inv
<1> SUFFICES ASSUME Init
             PROVE  Inv
  OBVIOUS
<1>1. /\ plan \in Plans /\ pc = "pick" /\ i = 1 /\ maxTier = 0 /\ badOrigins = {}
      /\ contFrom = <<>> /\ try = NoTry /\ skip = <<>> /\ reply = <<>> /\ got = <<>>
      /\ ui = <<>> /\ tripped = <<>> /\ result.kind = "none"
  BY DEF Init
<1>2. <<>> \in Texts /\ <<>> \in Seq(Nat) /\ Len(plan) \in Nat \ {0}
  BY <1>1, PlanSlots DEF Texts
<1>3. NoTry \in TryState /\ NoTry.attempt = 0 /\ NoTry.doom = 0
  BY <1>2, NewTry
<1>4. Typed
  BY <1>1, <1>2, <1>3 DEF Typed, Visiting
<1>5. BudgetInv
  BY <1>1, <1>3, BudgetType DEF BudgetInv, Budget
<1>6. SingleInv /\ SwitchInv
  BY <1>1 DEF SingleInv, SwitchInv, Visiting, LastTripped
<1>7. QED
  BY <1>4, <1>5, <1>6 DEF Inv

\* A single slot is not passed over.
LEMMA SingleNotPassed ==
    ASSUME Inv, pc = "pick", i <= Len(plan), PassedOver
    PROVE  chainMode
<1> SUFFICES ASSUME ~chainMode
             PROVE  FALSE
  OBVIOUS
<1>1. /\ i = 1 /\ maxTier = 0 /\ badOrigins = {} /\ Len(plan) = 1 /\ plan \in Seq(Slot)
      /\ plan[1].tier \in Nat
  <2>1. plan \in Plans /\ i = 1 /\ maxTier = 0 /\ badOrigins = {}
    BY DEF Inv, Typed, SingleInv
  <2>2. /\ plan \in Seq(Slot) /\ Len(plan) \in Nat \ {0}
        /\ \A k \in 1 .. Len(plan) : plan[k].tier \in Nat
    BY <2>1, PlanSlots
  <2>3. Len(plan) = 1
    <3>1. Len(plan) \in Nat \ {0} /\ ~(Len(plan) > 1)
      BY <2>2 DEF chainMode
    <3>2. QED
      BY <3>1
  <2>4. QED
    BY <2>1, <2>2, <2>3
<1>2. HasLocal => plan[1].tier > 0
  BY <1>1 DEF HasLocal
<1>3. QED
  BY <1>1, <1>2 DEF PassedOver, Current

\* The steps at the head of the visit loop and within a stream keep the
\* invariant.
LEMMA HeadSteps ==
    ASSUME Inv, SkipSlot \/ SkipUnfit \/ StartVisit
    PROVE  Inv'
<1>1. /\ plan \in Plans /\ Len(plan) \in Nat \ {0} /\ i \in 1 .. Len(plan) /\ pc = "pick"
      /\ plan[i].tier \in Nat /\ maxTier \in Nat /\ tripped \in Seq(Nat)
  <2>1. pc = "pick" /\ i <= Len(plan)
    BY DEF SkipSlot, SkipUnfit, StartVisit
  <2>2. plan \in Plans /\ i \in 1 .. Len(plan) + 1 /\ maxTier \in Nat /\ tripped \in Seq(Nat)
    BY DEF Inv, Typed
  <2>3. Len(plan) \in Nat \ {0} /\ \A k \in 1 .. Len(plan) : plan[k].tier \in Nat
    BY <2>2, PlanSlots
  <2>4. QED
    BY <2>1, <2>2, <2>3
<1>2. /\ Max2(maxTier, plan[i].tier) \in Nat
      /\ maxTier <= Max2(maxTier, plan[i].tier) /\ plan[i].tier <= Max2(maxTier, plan[i].tier)
  BY <1>1 DEF Max2
<1>3. \A k \in 1 .. Len(tripped) : tripped[k] < i /\ tripped[k] \in Nat
  BY <1>1 DEF Inv, SwitchInv
<1>4. ASSUME UNCHANGED <<plan, oneShot, tripped, badOrigins, contFrom, try, skip, ui>>,
             i' = i + 1, pc' = "pick", maxTier' \in Nat, chainMode,
             UNCHANGED <<reply, got, result>>
      PROVE  Inv'
  <2>1. Typed'
    BY <1>1, <1>4 DEF Inv, Typed, Visiting
  <2>2. BudgetInv'
    BY <1>1, <1>4 DEF Inv, BudgetInv, Budget, chainMode, MaxAttempts
  <2>3. SingleInv'
    BY <1>4 DEF SingleInv, chainMode
  <2>4. ~LastTripped'
    <3>1. tripped # <<>> => Len(tripped) \in 1 .. Len(tripped)
      BY <1>1
    <3>2. QED
      BY <1>1, <1>3, <1>4, <3>1 DEF LastTripped
  <2>5. SwitchInv'
    BY <1>1, <1>3, <1>4, <2>4 DEF Inv, SwitchInv, Visiting
  <2>6. QED
    BY <2>1, <2>2, <2>3, <2>5 DEF Inv
<1>5. CASE SkipSlot
  <2>1. chainMode
    BY <1>5, SingleNotPassed DEF SkipSlot
  <2>2. QED
    BY <1>1, <1>4, <1>5, <2>1 DEF SkipSlot, inputVars
<1>6. CASE SkipUnfit
  <2>1. maxTier' = Max2(maxTier, plan[i].tier)
        /\ UNCHANGED <<plan, oneShot, tripped, badOrigins, contFrom, try, skip, ui>>
    BY <1>6 DEF SkipUnfit, Current, inputVars
  <2>2. CASE chainMode
    BY <1>1, <1>2, <1>4, <1>6, <2>1, <2>2 DEF SkipUnfit
  <2>3. CASE ~chainMode
    <3>1. pc' = "done" /\ reply' = <<>> /\ got' = <<>> /\ i' = i
      BY <1>6, <2>3 DEF SkipUnfit, Finish
    <3>2. Typed'
      BY <1>1, <1>2, <2>1, <3>1 DEF Inv, Typed, Visiting, Texts
    <3>3. BudgetInv'
      BY <1>1, <2>1, <3>1 DEF Inv, BudgetInv, Budget, chainMode, MaxAttempts
    <3>4. SingleInv' /\ SwitchInv'
      BY <3>1 DEF SingleInv, SwitchInv, Visiting
    <3>5. QED
      BY <3>2, <3>3, <3>4 DEF Inv
  <2>4. QED
    BY <2>2, <2>3
<1>7. CASE StartVisit
  <2> DEFINE carried == IF Current.tier > 0 /\ ~oneShot THEN <<>> ELSE contFrom
  <2>1. /\ maxTier' = Max2(maxTier, plan[i].tier) /\ pc' = "send"
        /\ try' = [NoTry EXCEPT !.carried = carried]
        /\ skip' \in {skip, carried}
        /\ UNCHANGED <<plan, oneShot, tripped, i, contFrom, reply, got, ui, result>>
    BY <1>7 DEF StartVisit, Current, inputVars
  <2>2. carried \in Texts
    BY DEF Inv, Typed, Texts
  <2> HIDE DEF carried
  <2>3. try' \in TryState /\ try'.attempt = 0 /\ try'.doom = 0
    BY <2>1, <2>2, NewTry
  <2>4. Typed'
    BY <1>1, <1>2, <2>1, <2>2, <2>3 DEF Inv, Typed, Visiting
  <2>5. BudgetInv'
    <3>1. Budget' \in Nat \ {0}
      BY <2>1, <2>3, BudgetType DEF Budget, chainMode, MaxAttempts
    <3>2. QED
      BY <2>3, <3>1 DEF BudgetInv
  <2>6. SingleInv' /\ SwitchInv'
    BY <1>2, <1>3, <2>1 DEF SingleInv, SwitchInv, Visiting
  <2>7. QED
    BY <2>4, <2>5, <2>6 DEF Inv
<1>8. QED
  BY <1>5, <1>6, <1>7

\* Every step keeps the invariant.
LEMMA StepsKeepInv == Inv /\ [Next]_vars => Inv'
<1> SUFFICES ASSUME Inv, [Next]_vars
             PROVE  Inv'
  OBVIOUS
<1>1. ASSUME UNCHANGED <<inputVars, pc, visitVars, try, skip, reply, got, ui, tripped, result>>
      PROVE  Inv'
  <2>1. UNCHANGED <<plan, oneShot, pc, i, maxTier, badOrigins, contFrom, try, skip, reply, got,
                    ui, tripped, result>>
    BY <1>1 DEF inputVars, visitVars
  <2>2. Typed' /\ BudgetInv'
    BY <2>1 DEF Inv, Typed, BudgetInv, Visiting, Budget, chainMode, MaxAttempts
  <2>3. SingleInv' /\ SwitchInv'
    BY <2>1 DEF Inv, SingleInv, SwitchInv, chainMode, Visiting, LastTripped
  <2>4. QED
    BY <2>2, <2>3 DEF Inv
<1>2. CASE UNCHANGED vars
  BY <1>1, <1>2 DEF vars
<1>3. CASE CloudPhaseEnds
  BY <1>1, <1>3 DEF CloudPhaseEnds
<1>4. CASE SkipSlot \/ SkipUnfit \/ StartVisit
  BY <1>4, HeadSteps
<1>5. CASE OpenStream
  <2>1. /\ pc = "send" /\ pc' = "stream" /\ try' = Tried(try, Attempt) /\ got' = <<>>
        /\ UNCHANGED <<plan, oneShot, i, maxTier, badOrigins, contFrom, skip, ui, tripped, result>>
    BY <1>5 DEF OpenStream, inputVars, visitVars, Tried
  <2>2. try \in TryState /\ Attempt \in Int /\ Attempt = try.attempt + 1
    BY DEF Inv, Typed, TryState, Attempt
  <2>3. try' \in TryState /\ try'.attempt = try.attempt + 1 /\ try'.doom = try.doom
    <3>1. 0 \in Nat
      OBVIOUS
    <3>2. QED
      BY <2>1, <2>2, <3>1, TryChanges
  <2>4. Typed'
    BY <1>5, <2>1, <2>3, StreamTypes DEF Inv, Typed, Visiting, Texts
  <2>5. BudgetInv'
    <3>1. Budget' = Budget /\ Budget \in Int
      BY <2>1, <2>2, <2>3, BudgetType DEF Budget, chainMode, MaxAttempts, TryState
    <3>2. try.attempt < Budget /\ try.attempt \in Int
      BY <2>1, <2>2 DEF Inv, BudgetInv, TryState
    <3>3. QED
      BY <2>1, <2>3, <3>1, <3>2 DEF BudgetInv
  <2>6. SingleInv' /\ SwitchInv'
    BY <2>1 DEF Inv, SingleInv, SwitchInv, Visiting
  <2>7. QED
    BY <2>4, <2>5, <2>6 DEF Inv
<1>6. ASSUME NEW n \in 1 .. Len(reply), Delta(n)
      PROVE  Inv'
  <2>1. /\ pc = "stream"
        /\ UNCHANGED <<plan, oneShot, pc, i, maxTier, badOrigins, contFrom, try, tripped, result>>
    BY <1>6 DEF Delta, inputVars, visitVars
  <2>2. Typed'
    BY <1>6, <2>1, StreamTypes DEF Inv, Typed, Visiting
  <2>3. BudgetInv'
    BY <2>1 DEF Inv, BudgetInv, Budget, chainMode, MaxAttempts
  <2>4. SingleInv' /\ SwitchInv'
    BY <2>1 DEF Inv, SingleInv, SwitchInv, Visiting
  <2>5. QED
    BY <2>2, <2>3, <2>4 DEF Inv
<1>7. CASE Ended(Failed) \/ Ended({"ok"})
  BY <1>7, Finishes DEF Ended, Same
<1>8. CASE Visiting /\ Again
  BY <1>8, Retries DEF Again
<1>9. CASE Visiting /\ Left
  BY <1>9, Failovers DEF Left
<1>10. CASE Visiting /\ Continues
  <2>1. PICK text \in Texts :
           /\ pc' = "send" /\ try' = Continued(try, text) /\ skip' = text
           /\ reply' = <<>> /\ got' = <<>>
           /\ UNCHANGED <<inputVars, visitVars, ui, tripped, result>>
    BY <1>10 DEF Continues
  <2>2. UNCHANGED <<plan, oneShot, i, maxTier, badOrigins, contFrom, ui, tripped, result>>
    BY <2>1 DEF inputVars, visitVars
  <2>3. try \in TryState /\ try.attempt \in Int
    BY DEF Inv, Typed, TryState
  <2>4. try' \in TryState /\ try'.attempt = try.attempt - 1 /\ try'.doom = try.doom
    BY <2>1, <2>3, MoreTryChanges
  <2>5. Typed'
    BY <1>10, <2>1, <2>2, <2>4 DEF Inv, Typed, Visiting, Texts
  <2>6. BudgetInv'
    <3>1. Budget' = Budget /\ Budget \in Int
      BY <2>2, <2>3, <2>4, BudgetType DEF Budget, chainMode, MaxAttempts, TryState
    <3>2. try.attempt <= Budget
      BY DEF Inv, BudgetInv
    <3>3. QED
      BY <2>3, <2>4, <3>1, <3>2 DEF BudgetInv
  <2>7. SingleInv' /\ SwitchInv'
    BY <1>10, <2>1, <2>2 DEF Inv, SingleInv, SwitchInv, Visiting
  <2>8. QED
    BY <2>5, <2>6, <2>7 DEF Inv
<1>11. QED
  BY <1>2, <1>3, <1>4, <1>5, <1>6, <1>7, <1>8, <1>9, <1>10, StepCases

-----------------------------------------------------------------------------
\* The operation as the router sees it.
Pos      == IF pc = "done" THEN Len(plan) + 1 ELSE i
Restored == IF result.kind = "ok" THEN i ELSE 0

\* Every step is a step of the visit loop, or leaves it alone.
LEMMA StepRefines ==
    ASSUME Inv, [Next]_vars
    PROVE  [Visits!Next]_<<Len(plan), Pos, tripped, Restored>>
<1>1. /\ plan \in Plans /\ Len(plan) \in Nat \ {0} /\ i \in 1 .. Len(plan) + 1
      /\ Visiting => i <= Len(plan)
      /\ pc # "done" => result.kind = "none"
  BY PlanSlots DEF Inv, Typed
<1>2. /\ Visits!Over <=> Pos > Len(plan)
      /\ pc # "done" => Pos = i /\ Restored = 0
  BY <1>1 DEF Visits!Over, Pos, Restored
<1>3. ASSUME UNCHANGED <<plan, i, pc, tripped, result>>
      PROVE  UNCHANGED <<Len(plan), Pos, tripped, Restored>>
  BY <1>3 DEF Pos, Restored
<1>4. ASSUME UNCHANGED <<plan, i, tripped, result>>, pc # "done", pc' # "done"
      PROVE  UNCHANGED <<Len(plan), Pos, tripped, Restored>>
  BY <1>4 DEF Pos, Restored
<1>5. ASSUME pc # "done", NEW kind, NEW text, Finish(kind, text), UNCHANGED <<plan, i, tripped>>
      PROVE  /\ Pos' = Len(plan) + 1 /\ Restored' = IF kind = "ok" THEN i ELSE 0
             /\ UNCHANGED <<Len(plan), tripped>>
  BY <1>5 DEF Finish, Pos, Restored
<1>6. CASE UNCHANGED vars
  BY <1>3, <1>6 DEF vars, inputVars, visitVars
<1>7. CASE CloudPhaseEnds
  BY <1>3, <1>7 DEF CloudPhaseEnds, inputVars, visitVars
<1>8. CASE SkipSlot
  <2>1. chainMode
    BY <1>8, SingleNotPassed DEF SkipSlot
  <2>2. /\ pc = "pick" /\ pc' = "pick" /\ i <= Len(plan) /\ i' = i + 1
        /\ UNCHANGED <<plan, tripped, result>>
    BY <1>8 DEF SkipSlot, inputVars
  <2>3. Pos = i /\ Pos' = i + 1 /\ UNCHANGED <<Len(plan), tripped, Restored>>
    BY <1>1, <2>2 DEF Pos, Restored
  <2>4. Visits!Skip
    BY <1>1, <1>2, <2>1, <2>2, <2>3 DEF Visits!Skip, chainMode, Pos, Restored
  <2>5. QED
    BY <2>4 DEF Visits!Next
<1>9. CASE SkipUnfit
  <2>1. pc = "pick" /\ i <= Len(plan) /\ UNCHANGED <<plan, tripped>>
    BY <1>9 DEF SkipUnfit, inputVars
  <2>2. CASE chainMode
    <3>1. pc' = "pick" /\ i' = i + 1 /\ UNCHANGED result
      BY <1>9, <2>2, <2>1 DEF SkipUnfit
    <3>2. Pos = i /\ Pos' = i + 1 /\ UNCHANGED <<Len(plan), tripped, Restored>>
      BY <1>1, <2>1, <3>1 DEF Pos, Restored
    <3>3. Visits!Skip
      BY <1>1, <1>2, <2>1, <2>2, <3>1, <3>2 DEF Visits!Skip, chainMode, Pos, Restored
    <3>4. QED
      BY <3>3 DEF Visits!Next
  <2>3. CASE ~chainMode
    <3>1. Finish("terminal", <<>>) /\ i' = i
      BY <1>9, <2>3 DEF SkipUnfit
    <3>2. Pos' = Len(plan) + 1 /\ Restored' = 0 /\ UNCHANGED <<Len(plan), tripped>>
      BY <1>5, <2>1, <3>1
    <3>3. Visits!Stop
      BY <1>1, <1>2, <2>1, <3>2 DEF Visits!Stop, Pos, Restored
    <3>4. QED
      BY <3>3 DEF Visits!Next
  <2>4. QED
    BY <2>2, <2>3
<1>10. CASE StartVisit \/ OpenStream \/ \E n \in 1 .. Len(reply) : Delta(n)
  <2>1. UNCHANGED <<plan, i, tripped, result>> /\ pc # "done" /\ pc' # "done"
    BY <1>10 DEF StartVisit, OpenStream, Delta, inputVars, visitVars
  <2>2. QED
    BY <1>4, <2>1
<1>11. CASE pc # "done" /\ Ended(Failed)
  <2>1. PICK kind, text : kind \in Failed /\ Finish(kind, text) /\ Same
    BY <1>11 DEF Ended
  <2>2. UNCHANGED <<plan, i, tripped>> /\ kind # "ok"
    BY <2>1 DEF Same, inputVars, visitVars, Failed
  <2>3. Pos' = Len(plan) + 1 /\ Restored' = 0 /\ UNCHANGED <<Len(plan), tripped>>
    BY <1>5, <1>11, <2>1, <2>2
  <2>4. CASE i <= Len(plan)
    <3>1. Visits!Stop
      BY <1>1, <1>2, <1>11, <2>3, <2>4 DEF Visits!Stop, Pos, Restored
    <3>2. QED
      BY <3>1 DEF Visits!Next
  <2>5. CASE i = Len(plan) + 1
    <3>1. UNCHANGED <<Len(plan), Pos, tripped, Restored>>
      BY <1>2, <1>11, <2>3, <2>5
    <3>2. QED
      BY <3>1
  <2>6. QED
    BY <1>1, <2>4, <2>5
<1>12. CASE pc = "stream" /\ Ended({"ok"})
  <2>1. PICK text : Finish("ok", text) /\ Same
    BY <1>12 DEF Ended
  <2>2. UNCHANGED <<plan, i, tripped>> /\ i <= Len(plan)
    BY <1>1, <1>12, <2>1 DEF Same, inputVars, visitVars, Visiting
  <2>3. Pos' = Len(plan) + 1 /\ Restored' = i /\ UNCHANGED <<Len(plan), tripped>>
    BY <1>5, <1>12, <2>1, <2>2
  <2>4. Visits!Succeed
    BY <1>1, <1>2, <1>12, <2>2, <2>3 DEF Visits!Succeed, Pos, Restored
  <2>5. QED
    BY <2>4 DEF Visits!Next
<1>13. CASE Visiting /\ (Again \/ Continues)
  <2>1. UNCHANGED <<plan, i, tripped, result>> /\ pc # "done" /\ pc' # "done"
    BY <1>13 DEF Again, Retry, Continues, inputVars, visitVars, Visiting
  <2>2. QED
    BY <1>4, <2>1
<1>14. CASE Visiting /\ Left
  <2>1. PICK bad, hostCode : \E partial \in Texts : Failover(bad, hostCode, partial)
    BY <1>14 DEF Left
  <2>2. /\ pc # "done" /\ i <= Len(plan) /\ UNCHANGED plan
        /\ tripped' = IF chainMode THEN Append(tripped, i) ELSE tripped
    BY <1>1, <1>14, <2>1 DEF Failover, Visiting, inputVars
  <2>3. \/ pc' = "done" /\ i' = i /\ result'.kind \in Failed
        \/ chainMode /\ pc' = "pick" /\ i' = i + 1 /\ result' = result
    <3>1. PICK partial \in Texts : Failover(bad, hostCode, partial)
      BY <2>1
    <3>2. \/ \E kind \in Failed : Finish(kind, <<>>) /\ i' = i
          \/ chainMode /\ pc' = "pick" /\ i' = i + 1 /\ result' = result
      BY <3>1 DEF Failover, Failed
    <3>3. \A kind : Finish(kind, <<>>) => pc' = "done" /\ result'.kind = kind
      BY DEF Finish
    <3>4. QED
      BY <3>2, <3>3
  <2>4. /\ UNCHANGED Len(plan) /\ Restored' = 0 /\ Restored = 0
        /\ Pos' = Len(plan) + 1 \/ (chainMode /\ Pos' = i + 1)
    BY <1>1, <2>2, <2>3 DEF Pos, Restored, Failed
  <2>5. CASE chainMode
    <3>1. Visits!Trip
      BY <1>1, <1>2, <2>2, <2>4, <2>5 DEF Visits!Trip, chainMode, Pos, Restored
    <3>2. QED
      BY <3>1 DEF Visits!Next
  <2>6. CASE ~chainMode
    <3>1. Visits!Stop
      BY <1>1, <1>2, <2>2, <2>4, <2>6 DEF Visits!Stop, Pos, Restored
    <3>2. QED
      BY <3>1 DEF Visits!Next
  <2>7. QED
    BY <2>5, <2>6
<1>15. QED
  BY <1>6, <1>7, <1>8, <1>9, <1>10, <1>11, <1>12, <1>13, <1>14, StepCases

\* A visit that begins right after a trip is no crossing of an agent turn with
\* output.
LEMMA StepGuarded ==
    ASSUME Inv, [Next]_vars, pc = "pick", pc' = "send", ~oneShot, ui # <<>>, Current.host,
           Current.tier > maxTier
    PROVE  tripped[Len(tripped)] # i - 1
<1>1. StartVisit
  <2>1. ~(Ended(Failed) \/ Ended({"ok"}))
    BY DEF Ended, Finish
  <2>2. QED
    BY <2>1, StepCases DEF vars, CloudPhaseEnds, SkipSlot, SkipUnfit, OpenStream, Delta, Visiting,
       Finish
<1>2. i <= Len(plan) /\ Current.origin \notin badOrigins
  BY <1>1 DEF StartVisit, PassedOver
<1>3. QED
  BY <1>2 DEF Inv, SwitchInv, LastTripped, Current

-----------------------------------------------------------------------------
\* A token that a text does not hold, and what a stream may say first of its own.
New(n, text)  == \A k \in 1 .. Len(text) : text[k] # n
Firsts(text)  == {<<>>} \cup {<<n>> : n \in {m \in Nat : New(m, text)}}

\* The text of the turn before the open stream.
Kept == Merge(contFrom, try.prefix)

-----------------------------------------------------------------------------
\* What it is to be a prefix.
LEMMA PrefixMeans ==
    ASSUME NEW s \in Texts, NEW t \in Texts
    PROVE  SeqExt!IsPrefix(s, t) <=> /\ Len(s) <= Len(t)
                                     /\ \A k \in 1 .. Len(s) : s[k] = t[k]
<1>1. CASE Len(s) <= Len(t)
  <2>1. SubSeq(s, 1, Len(s)) = s
    BY SubSeqFull DEF Texts
  <2> DEFINE u == SubSeq(t, 1, Len(s))
  <2>2. \A k \in 1 .. Len(s) : t[k] \in Nat
    BY <1>1 DEF Texts
  <2>3. u \in Seq(Nat) /\ Len(u) = Len(s) /\ \A k \in 1 .. Len(s) : u[k] = t[k]
    <3>1. 1 \in Int /\ Len(s) \in Int /\ Len(s) \in Nat
      BY DEF Texts
    <3>2. /\ u \in Seq(Nat)
          /\ Len(u) = IF 1 <= Len(s) THEN Len(s) - 1 + 1 ELSE 0
          /\ \A k \in 1 .. Len(s) - 1 + 1 : u[k] = t[1 + k - 1]
      BY <2>2, <3>1, SubSeqProperties
    <3>3. QED
      BY <3>1, <3>2
  <2> HIDE DEF u
  <2>4. s = u <=> \A k \in 1 .. Len(s) : s[k] = u[k]
    <3>1. s \in Seq(Nat)
      BY DEF Texts
    <3>2. QED
      BY <2>3, <3>1, SeqEqual
  <2>5. QED
    BY <1>1, <2>1, <2>3, <2>4 DEF u, SeqExt!IsPrefix
<1>2. CASE ~(Len(s) <= Len(t))
  BY <1>2 DEF SeqExt!IsPrefix
<1>3. QED
  BY <1>1, <1>2

\* A text is merged with nothing, and with itself.
LEMMA MergeSame ==
    ASSUME NEW p \in Texts
    PROVE  Merge(p, <<>>) = p /\ Merge(<<>>, p) = p /\ Merge(p, p) = p
<1>1. <<>> \in Texts /\ p \o <<>> = p /\ (Len(p) = 0 => p = <<>>) /\ Len(p) \in Nat
  BY DEF Texts
<1>2. SeqExt!IsPrefix(<<>>, p) /\ SeqExt!IsPrefix(p, p)
  BY <1>1, PrefixMeans
<1>3. SeqExt!IsPrefix(p, <<>>) => p = <<>>
  BY <1>1, PrefixMeans
<1>4. QED
  BY <1>1, <1>2, <1>3 DEF Merge

\* A text is merged with what continues it.
LEMMA MergeLonger ==
    ASSUME NEW p \in Texts, NEW f \in Texts
    PROVE  Merge(p, p \o f) = p \o f
<1> DEFINE q == p \o f
<1>1. Len(f) \in Nat /\ Len(p) \in Nat
  BY DEF Texts
<1>2. q \in Texts /\ Len(q) = Len(p) + Len(f) /\ \A k \in 1 .. Len(p) : q[k] = p[k]
  BY <1>1, ConcatProperties DEF Texts
<1> HIDE DEF q
<1>3. SeqExt!IsPrefix(p, q)
  BY <1>1, <1>2, PrefixMeans
<1>4. QED
  BY <1>3 DEF Merge, q

\* Merging loses no token.
LEMMA MergeHolds ==
    ASSUME NEW c \in Texts, NEW p \in Texts, NEW n, New(n, Merge(c, p))
    PROVE  New(n, c) /\ New(n, p)
<1>1. CASE SeqExt!IsPrefix(c, p)
  <2>1. Merge(c, p) = p /\ Len(c) <= Len(p) /\ \A k \in 1 .. Len(c) : c[k] = p[k]
    BY <1>1, PrefixMeans DEF Merge
  <2>2. Len(c) \in Nat /\ Len(p) \in Nat
    BY DEF Texts
  <2>3. QED
    BY <2>1, <2>2 DEF New
<1>2. CASE ~SeqExt!IsPrefix(c, p)
  <2>1. Merge(c, p) = c \o p
    BY <1>2 DEF Merge
  <2>2. /\ Len(c) \in Nat /\ Len(p) \in Nat /\ Len(c \o p) = Len(c) + Len(p)
        /\ \A k \in 1 .. Len(c) : (c \o p)[k] = c[k]
        /\ \A k \in 1 .. Len(p) : (c \o p)[Len(c) + k] = p[k]
    BY DEF Texts
  <2>3. \A k \in 1 .. Len(c) : k \in 1 .. Len(c) + Len(p)
    BY <2>2
  <2>4. \A k \in 1 .. Len(p) : Len(c) + k \in 1 .. Len(c) + Len(p)
    BY <2>2
  <2>5. QED
    BY <2>1, <2>2, <2>3, <2>4 DEF New
<1>3. QED
  BY <1>1, <1>2

\* A token that is new comes last in the turn.
LEMMA MergeNew ==
    ASSUME NEW c \in Texts, NEW p \in Texts, NEW n \in Nat, New(n, Merge(c, p))
    PROVE  Merge(c, p \o <<n>>) = Merge(c, p) \o <<n>>
<1> DEFINE q == p \o <<n>>
<1>1. /\ q \in Texts /\ Len(q) = Len(p) + 1
      /\ q[Len(p) + 1] = n /\ \A k \in 1 .. Len(p) : q[k] = p[k]
      /\ Len(c) \in Nat /\ Len(p) \in Nat
  BY DEF Texts
<1>q. q = p \o <<n>>
  OBVIOUS
<1> HIDE DEF q
<1>2. CASE SeqExt!IsPrefix(c, p)
  <2>1. Len(c) <= Len(p) /\ \A k \in 1 .. Len(c) : c[k] = p[k]
    BY <1>2, PrefixMeans
  <2>2. SeqExt!IsPrefix(c, q)
    BY <1>1, <2>1, PrefixMeans
  <2>3. QED
    BY <1>2, <1>q, <2>2 DEF Merge
<1>3. CASE ~SeqExt!IsPrefix(c, p)
  <2>1. ASSUME SeqExt!IsPrefix(c, q)
        PROVE  FALSE
    <3>1. Len(c) <= Len(p) + 1 /\ \A k \in 1 .. Len(c) : c[k] = q[k]
      BY <1>1, <2>1, PrefixMeans
    <3>2. CASE Len(c) <= Len(p)
      BY <1>1, <1>3, <3>1, <3>2, PrefixMeans
    <3>3. CASE Len(c) = Len(p) + 1
      <4>1. c[Len(c)] = n /\ Len(c) \in 1 .. Len(c)
        BY <1>1, <3>1, <3>3
      <4>2. New(n, c)
        BY MergeHolds
      <4>3. QED
        BY <4>1, <4>2 DEF New
    <3>4. QED
      BY <1>1, <3>1, <3>2, <3>3
  <2>2. c \o (p \o <<n>>) = (c \o p) \o <<n>>
    BY ConcatAssociative DEF Texts
  <2>3. QED
    BY <1>3, <1>q, <2>1, <2>2 DEF Merge
<1>4. QED
  BY <1>2, <1>3

\* What is said of the turn before a stream, and of the stream, is the turn:
\* what a model was asked to continue counts once, whether it repeats it or not.
LEMMA WholeTurn ==
    ASSUME NEW c \in Texts, NEW p \in Texts, NEW d \in {<<>>, c},
           NEW f \in Firsts(Merge(c, p)), NEW r \in {<<>>, IF p # <<>> THEN p ELSE d}
    PROVE  Merge(c, Merge(p, r \o f)) = Merge(c, p) \o f
<1>1. f \in Texts /\ <<>> \in Texts /\ Merge(c, p) \in Texts
  <2>1. \A n \in Nat : <<n>> \in Texts
    BY DEF Texts
  <2>2. <<>> \in Texts
    BY DEF Texts
  <2>3. QED
    BY <2>1, <2>2, MergeType DEF Firsts
<1>2. \A t \in Texts : t \o <<>> = t /\ <<>> \o t = t
  BY DEF Texts
<1>3. Merge(c, p \o f) = Merge(c, p) \o f
  <2>1. CASE f = <<>>
    BY <1>1, <1>2, <2>1
  <2>2. ASSUME NEW n \in Nat, New(n, Merge(c, p)), f = <<n>>
        PROVE  Merge(c, p \o f) = Merge(c, p) \o f
    BY <2>2, MergeNew
  <2>3. QED
    BY <2>1, <2>2 DEF Firsts
<1>4. CASE r = <<>>
  <2>1. Merge(p, f) = p \o f
    <3>1. CASE f = <<>>
      BY <1>2, <3>1, MergeSame
    <3>2. ASSUME NEW n \in Nat, New(n, Merge(c, p)), f = <<n>>
          PROVE  Merge(p, f) = p \o f
      <4>1. Merge(p, <<>>) = p /\ New(n, p)
        BY <3>2, MergeHolds, MergeSame
      <4>2. Merge(p, <<>> \o <<n>>) = Merge(p, <<>>) \o <<n>>
        BY <1>1, <4>1, MergeNew
      <4>3. QED
        BY <1>1, <1>2, <3>2, <4>1, <4>2
    <3>3. QED
      BY <3>1, <3>2 DEF Firsts
  <2>2. QED
    BY <1>1, <1>2, <1>3, <1>4, <2>1
<1>5. CASE r = p
  <2>1. Merge(p, p \o f) = p \o f
    BY <1>1, MergeLonger
  <2>2. QED
    BY <1>3, <1>5, <2>1
<1>6. CASE p = <<>> /\ r = c
  <2>1. c \o f \in Texts
    BY <1>1 DEF Texts
  <2>2. Merge(p, c \o f) = c \o f
    BY <1>6, <2>1, MergeSame
  <2>3. Merge(c, c \o f) = c \o f
    BY <1>1, MergeLonger
  <2>4. Merge(c, p) = c
    BY <1>6, MergeSame
  <2>5. QED
    BY <1>6, <2>2, <2>3, <2>4
<1>7. QED
  BY <1>4, <1>5, <1>6

-----------------------------------------------------------------------------
\* A part of a text.
LEMMA PartMeans ==
    ASSUME NEW s \in Texts, NEW a \in Nat \ {0}, NEW b \in Nat, a <= b + 1, b <= Len(s)
    PROVE  /\ SubSeq(s, a, b) \in Texts /\ Len(SubSeq(s, a, b)) = b - a + 1
           /\ \A k \in 1 .. b - a + 1 : SubSeq(s, a, b)[k] = s[a + k - 1]
<1>1. /\ a \in Int /\ b \in Int /\ Len(s) \in Nat
      /\ \A k \in a .. b : s[k] \in Nat
  BY DEF Texts
<1>2. /\ SubSeq(s, a, b) \in Seq(Nat)
      /\ Len(SubSeq(s, a, b)) = IF a <= b THEN b - a + 1 ELSE 0
      /\ \A k \in 1 .. b - a + 1 : SubSeq(s, a, b)[k] = s[a + k - 1]
  BY <1>1, SubSeqProperties
<1>3. QED
  BY <1>1, <1>2 DEF Texts

\* A text in two parts, of which the second is in two parts again.
LEMMA PartsJoin ==
    ASSUME NEW s \in Texts, NEW a \in Nat \ {0}, NEW b \in Nat, NEW e \in Nat,
           a <= b + 1, b <= e, e <= Len(s)
    PROVE  SubSeq(s, a, b) \o SubSeq(s, b + 1, e) = SubSeq(s, a, e)
<1> DEFINE x == SubSeq(s, a, b)
           y == SubSeq(s, b + 1, e)
           z == SubSeq(s, a, e)
<1>1. Len(s) \in Nat
  BY DEF Texts
<1>2. x \in Texts /\ Len(x) = b - a + 1 /\ \A k \in 1 .. b - a + 1 : x[k] = s[a + k - 1]
  BY <1>1, PartMeans
<1>3. /\ y \in Texts /\ Len(y) = e - (b + 1) + 1
      /\ \A k \in 1 .. e - (b + 1) + 1 : y[k] = s[(b + 1) + k - 1]
  <2> DEFINE d == b + 1
  <2>1. d \in Nat \ {0} /\ d <= e + 1
    OBVIOUS
  <2> HIDE DEF d
  <2>2. /\ SubSeq(s, d, e) \in Texts /\ Len(SubSeq(s, d, e)) = e - d + 1
        /\ \A k \in 1 .. e - d + 1 : SubSeq(s, d, e)[k] = s[d + k - 1]
    BY <1>1, <2>1, PartMeans
  <2>3. QED
    BY <2>2 DEF d
<1>4. z \in Texts /\ Len(z) = e - a + 1 /\ \A k \in 1 .. e - a + 1 : z[k] = s[a + k - 1]
  BY <1>1, PartMeans
<1> HIDE DEF x, y, z
<1>5. /\ x \o y \in Texts /\ Len(x \o y) = Len(x) + Len(y)
      /\ \A k \in 1 .. Len(x) + Len(y) : (x \o y)[k] = IF k <= Len(x) THEN x[k] ELSE y[k - Len(x)]
  BY <1>2, <1>3, ConcatProperties DEF Texts
<1> DEFINE w == x \o y
<1>6. w \in Seq(Nat) /\ z \in Seq(Nat) /\ Len(w) = Len(z)
  BY <1>2, <1>3, <1>4, <1>5 DEF Texts
<1>7. ASSUME NEW k \in 1 .. Len(w)
      PROVE  w[k] = z[k]
  <2>1. k \in 1 .. e - a + 1 /\ z[k] = s[a + k - 1]
    BY <1>4, <1>6
  <2>2. CASE k <= Len(x)
    BY <1>2, <1>5, <2>1, <2>2
  <2>3. CASE ~(k <= Len(x))
    <3>1. k - Len(x) \in 1 .. e - (b + 1) + 1 /\ w[k] = y[k - Len(x)]
      BY <1>2, <1>3, <1>5, <2>1, <2>3
    <3>2. y[k - Len(x)] = s[(b + 1) + (k - Len(x)) - 1]
      BY <1>3, <3>1
    <3>3. (b + 1) + (k - Len(x)) - 1 = a + k - 1
      BY <1>2, <2>1
    <3>4. QED
      BY <2>1, <3>1, <3>2, <3>3
  <2>4. QED
    BY <2>2, <2>3
<1> HIDE DEF w
<1>8. w = z
  BY <1>6, <1>7, SeqEqual
<1>9. QED
  BY <1>8 DEF w, x, y, z

\* The parts of two texts put together.
LEMMA JoinParts ==
    ASSUME NEW s \in Texts, NEW t \in Texts
    PROVE  /\ SubSeq(s \o t, 1, Len(s)) = s
           /\ SubSeq(s \o t, Len(s) + 1, Len(s \o t)) = t
<1> DEFINE u == s \o t
           v == SubSeq(u, 1, Len(s))
           d == Len(s) + 1
           w == SubSeq(u, d, Len(u))
<1>1. Len(s) \in Nat /\ Len(t) \in Nat
  BY DEF Texts
<1>2. /\ u \in Texts /\ Len(u) = Len(s) + Len(t)
      /\ \A k \in 1 .. Len(s) + Len(t) : u[k] = IF k <= Len(s) THEN s[k] ELSE t[k - Len(s)]
  BY ConcatProperties DEF Texts
<1>3. d \in Nat \ {0} /\ d <= Len(u) + 1 /\ Len(u) \in Nat /\ d = Len(s) + 1
  BY <1>1, <1>2
<1> HIDE DEF u, d
<1>4. v \in Texts /\ Len(v) = Len(s) - 1 + 1 /\ \A k \in 1 .. Len(s) - 1 + 1 : v[k] = u[1 + k - 1]
  BY <1>1, <1>2, PartMeans
<1>5. /\ w \in Texts /\ Len(w) = Len(u) - d + 1
      /\ \A k \in 1 .. Len(u) - d + 1 : w[k] = u[d + k - 1]
  BY <1>2, <1>3, PartMeans
<1> HIDE DEF v, w
<1>6. v = s
  <2>1. v \in Seq(Nat) /\ s \in Seq(Nat) /\ Len(v) = Len(s)
    BY <1>1, <1>4 DEF Texts
  <2>2. \A k \in 1 .. Len(v) : v[k] = s[k]
    BY <1>1, <1>2, <1>4, <2>1
  <2>3. QED
    BY <2>1, <2>2, SeqEqual
<1>7. w = t
  <2>1. w \in Seq(Nat) /\ t \in Seq(Nat) /\ Len(w) = Len(t)
    BY <1>1, <1>2, <1>3, <1>5 DEF Texts
  <2>2. ASSUME NEW k \in 1 .. Len(w)
        PROVE  w[k] = t[k]
    <3>1. k \in 1 .. Len(u) - d + 1 /\ k \in 1 .. Len(t)
      BY <1>1, <1>2, <1>3, <2>1
    <3>2. /\ d + k - 1 = Len(s) + k /\ Len(s) + k \in 1 .. Len(s) + Len(t)
          /\ ~(Len(s) + k <= Len(s)) /\ Len(s) + k - Len(s) = k
      BY <1>1, <1>3, <3>1
    <3>3. QED
      BY <1>2, <1>5, <3>1, <3>2
  <2>3. QED
    BY <2>1, <2>2, SeqEqual
<1>8. QED
  BY <1>6, <1>7 DEF u, v, w, d

-----------------------------------------------------------------------------
\* The open stream is within the text it repeats, k tokens of it said, ...
Repeats(r, f) == \E k \in 0 .. Len(r) :
    /\ got = SubSeq(r, 1, k) /\ reply = SubSeq(r, k + 1, Len(r)) \o f
    /\ skip = SubSeq(Asked, k + 1, Len(Asked)) /\ ui = Kept

\* ... or has said all of it, and its own.
Goes(r, f) ==
    /\ f # <<>> /\ got = r \o f /\ reply = <<>>
    /\ skip = <<>> /\ ui = Kept \o f

Streaming == \E r \in {<<>>, Asked}, f \in Firsts(Kept) : Repeats(r, f) \/ Goes(r, f)

\* What was shown, over the streams of an operation.
Turn ==
    /\ pc = "pick" => got = <<>> /\ ui = contFrom /\ (contFrom = <<>> => skip = <<>>)
    /\ Visiting => try.carried \in {<<>>, contFrom}
    /\ pc = "send" => got = <<>> /\ skip = Asked /\ ui = Kept
    /\ pc = "stream" => Streaming
    /\ pc = "done" /\ result.kind = "ok" => ui = result.text

TurnInv == ~oneShot /\ ~lost => Turn

\* The texts of a visit, and what is new to the turn is new to what it repeats.
LEMMA VisitTexts ==
    ASSUME Typed, try.carried \in {<<>>, contFrom}
    PROVE  /\ contFrom \in Texts /\ try.prefix \in Texts /\ Asked \in Texts /\ Kept \in Texts
           /\ \A n : New(n, Kept) => New(n, Asked)
           /\ Firsts(Kept) \subseteq Texts
<1>1. contFrom \in Texts /\ try.prefix \in Texts /\ <<>> \in Texts /\ Len(<<>>) = 0
  BY DEF Typed, TryState, Texts
<1>2. Asked \in Texts /\ Kept \in Texts
  BY <1>1, MergeType DEF Asked, Kept
<1>3. \A n : New(n, Kept) => New(n, contFrom) /\ New(n, try.prefix)
  BY <1>1, MergeHolds DEF Kept
<1>4. \A n : New(n, <<>>)
  BY <1>1 DEF New
<1>5. Firsts(Kept) \subseteq Texts
  <2>1. \A n \in Nat : <<n>> \in Texts
    BY DEF Texts
  <2>2. QED
    BY <1>1, <2>1 DEF Firsts
<1>6. QED
  BY <1>1, <1>2, <1>3, <1>4, <1>5 DEF Asked

\* What was shown is the turn of the stream that ends now, unless it broke off
\* within what it repeated.
LEMMA Shown ==
    ASSUME Typed, try.carried \in {<<>>, contFrom}, Streaming, ~BrokeInRepeat
    PROVE  ui = Merge(contFrom, Merge(try.prefix, got))
<1>1. PICK r \in {<<>>, Asked}, f \in Firsts(Kept) : Repeats(r, f) \/ Goes(r, f)
  BY DEF Streaming
<1>2. /\ contFrom \in Texts /\ try.prefix \in Texts /\ Asked \in Texts /\ Kept \in Texts
      /\ f \in Texts /\ <<>> \in Texts /\ <<>> \in Firsts(Kept) /\ r \in Texts
  <2>1. <<>> \in Texts /\ <<>> \in Firsts(Kept)
    BY DEF Texts, Firsts
  <2>2. QED
    BY <2>1, VisitTexts
<1>3. \A q \in {<<>>, Asked}, g \in Firsts(Kept) :
         Merge(contFrom, Merge(try.prefix, q \o g)) = Kept \o g
  <2> DEFINE c == contFrom
             p == try.prefix
             d == try.carried
  <2>1. c \in Texts /\ p \in Texts /\ d \in {<<>>, c}
    BY <1>2
  <2>2. Kept = Merge(c, p) /\ Asked = IF p # <<>> THEN p ELSE d
    BY DEF Kept, Asked
  <2> HIDE DEF c, p, d
  <2>3. \A q \in {<<>>, IF p # <<>> THEN p ELSE d}, g \in Firsts(Merge(c, p)) :
           Merge(c, Merge(p, q \o g)) = Merge(c, p) \o g
    BY <2>1, WholeTurn
  <2>4. \A q \in {<<>>, Asked}, g \in Firsts(Kept) : Merge(c, Merge(p, q \o g)) = Kept \o g
    BY <2>2, <2>3
  <2>5. QED
    BY <2>4 DEF c, p
<1>4. \A t \in Texts : t \o <<>> = t
  BY DEF Texts
<1>5. CASE Goes(r, f)
  BY <1>3, <1>5 DEF Goes
<1>6. CASE Repeats(r, f)
  <2>1. PICK k \in 0 .. Len(r) : got = SubSeq(r, 1, k) /\ ui = Kept
    BY <1>6 DEF Repeats
  <2>2. got \in {<<>>, Asked}
    <3>1. CASE r = <<>>
      <4>1. k = 0
        BY <2>1, <3>1
      <4>2. QED
        BY <2>1, <3>1, <4>1, SubSeqEmpty
    <3>2. CASE r = Asked
      <4>1. /\ Len(Asked) \in Nat /\ k \in Nat /\ k <= Len(Asked) /\ got \in Texts
            /\ Len(got) = k - 1 + 1 /\ \A m \in 1 .. k - 1 + 1 : got[m] = Asked[1 + m - 1]
        <5>1. Len(Asked) \in Nat
          BY <1>2 DEF Texts
        <5>2. k \in Nat /\ k <= Len(Asked) /\ 1 \in Nat \ {0} /\ 1 <= k + 1
          BY <2>1, <3>2, <5>1
        <5>3. QED
          BY <1>2, <2>1, <3>2, <5>1, <5>2, PartMeans
      <4>2. Len(got) <= Len(Asked) /\ \A m \in 1 .. Len(got) : got[m] = Asked[m]
        BY <4>1
      <4>3. SeqExt!IsPrefix(got, Asked)
        BY <1>2, <4>1, <4>2, PrefixMeans
      <4>4. QED
        BY <4>3 DEF BrokeInRepeat
    <3>3. QED
      BY <3>1, <3>2
  <2>3. got \in Texts
    BY <1>2, <2>2
  <2>4. Merge(contFrom, Merge(try.prefix, got \o <<>>)) = Kept \o <<>>
    BY <1>2, <1>3, <2>2
  <2>5. QED
    BY <1>2, <1>4, <2>1, <2>3, <2>4
<1>7. QED
  BY <1>1, <1>5, <1>6

\* Texts put together are a text, in whichever order that is done.
LEMMA TextConcat ==
    ASSUME NEW s \in Texts, NEW t \in Texts, NEW u \in Texts
    PROVE  s \o t \in Texts /\ t \o u \in Texts /\ (s \o t) \o u = s \o (t \o u)
<1>1. s \o t \in Texts /\ t \o u \in Texts
  BY DEF Texts
<1>2. (s \o t) \o u = s \o (t \o u)
  BY ConcatAssociative DEF Texts
<1>3. QED
  BY <1>1, <1>2

\* A text is its two parts.
LEMMA TwoParts ==
    ASSUME NEW s \in Texts, NEW b \in Nat, b <= Len(s)
    PROVE  SubSeq(s, 1, b) \o SubSeq(s, b + 1, Len(s)) = s
<1> DEFINE a == 1
           e == Len(s)
<1>1. a \in Nat \ {0} /\ e \in Nat /\ a <= b + 1 /\ b <= e /\ e <= Len(s)
  BY DEF Texts
<1>2. SubSeq(s, 1, Len(s)) = s
  BY SubSeqFull DEF Texts
<1> HIDE DEF a, e
<1>3. SubSeq(s, a, b) \o SubSeq(s, b + 1, e) = SubSeq(s, a, e)
  BY <1>1, PartsJoin
<1>4. QED
  BY <1>2, <1>3 DEF a, e

\* A chunk within what is to be skipped, ...
LEMMA SkipWithin ==
    ASSUME NEW a \in Texts, NEW b \in Texts, a # <<>>
    PROVE  SkipChunk(a \o b, a) = [skip |-> b, out |-> <<>>]
<1> DEFINE c == a \o b
<1>1. Len(a) \in Nat /\ Len(b) \in Nat
  BY DEF Texts
<1>2. /\ c \in Texts /\ Len(c) = Len(a) + Len(b)
      /\ \A k \in 1 .. Len(a) : c[k] = a[k]
  BY <1>1, ConcatProperties DEF Texts
<1>3. SubSeq(c, Len(a) + 1, Len(c)) = b
  BY JoinParts
<1>4. c # <<>>
  <2>1. Len(a) # 0 /\ Len(<<>>) = 0
    BY DEF Texts
  <2>2. QED
    BY <1>1, <1>2, <2>1
<1> HIDE DEF c
<1>5. SeqExt!IsPrefix(a, c)
  BY <1>1, <1>2, PrefixMeans
<1>6. QED
  BY <1>3, <1>4, <1>5 DEF SkipChunk, c

\* ... one that goes beyond it, ...
LEMMA SkipPast ==
    ASSUME NEW x \in Texts, NEW f \in Texts, f # <<>>
    PROVE  SkipChunk(x, x \o f) = [skip |-> <<>>, out |-> f]
<1> DEFINE c == x \o f
<1>1. Len(x) \in Nat /\ Len(f) \in Nat /\ Len(f) # 0
  BY DEF Texts
<1>2. /\ c \in Texts /\ Len(c) = Len(x) + Len(f)
      /\ \A k \in 1 .. Len(x) : c[k] = x[k]
  BY <1>1, ConcatProperties DEF Texts
<1>3. SubSeq(c, Len(x) + 1, Len(c)) = f
  BY JoinParts
<1>4. x = <<>> => c = f
  BY DEF Texts
<1> HIDE DEF c
<1>5. SeqExt!IsPrefix(x, c) /\ ~SeqExt!IsPrefix(c, x)
  BY <1>1, <1>2, PrefixMeans
<1>6. QED
  BY <1>3, <1>4, <1>5 DEF SkipChunk, c

\* ... and one of a model that does not repeat it.
LEMMA SkipNothing ==
    ASSUME NEW s \in Texts, NEW m \in Nat, New(m, s)
    PROVE  SkipChunk(s, <<m>>) = [skip |-> <<>>, out |-> <<m>>]
<1>1. <<m>> \in Texts /\ Len(<<m>>) = 1 /\ <<m>>[1] = m /\ Len(s) \in Nat
  BY DEF Texts
<1>2. s # <<>> => Len(s) >= 1 /\ s[1] # m
  BY <1>1 DEF New, Texts
<1> DEFINE c == <<m>>
<1>3. c \in Texts /\ Len(c) = 1 /\ c[1] = m
  BY <1>1
<1> HIDE DEF c
<1>4. s # <<>> => ~SeqExt!IsPrefix(c, s) /\ ~SeqExt!IsPrefix(s, c)
  BY <1>1, <1>2, <1>3, PrefixMeans
<1>5. QED
  BY <1>4 DEF SkipChunk, c

\* A chunk is skipped as far as it repeats what was shown.
LEMMA DeltaStreams ==
    ASSUME Typed, try.carried \in {<<>>, contFrom}, Streaming,
           NEW n \in 1 .. Len(reply), Delta(n)
    PROVE  Streaming'
<1> DEFINE chunk == SubSeq(reply, 1, n)
           step  == SkipChunk(skip, chunk)
<1>1. PICK r \in {<<>>, Asked}, f \in Firsts(Kept) : Repeats(r, f) \/ Goes(r, f)
  BY DEF Streaming
<1>2. /\ Asked \in Texts /\ Kept \in Texts /\ f \in Texts /\ <<>> \in Texts /\ r \in Texts
      /\ \A m : New(m, Kept) => New(m, Asked)
  <2>1. <<>> \in Texts
    BY DEF Texts
  <2>2. QED
    BY <2>1, VisitTexts
<1>3. /\ got' = got \o chunk /\ reply' = SubSeq(reply, n + 1, Len(reply))
      /\ skip' = step.skip /\ ui' = ui \o step.out
      /\ Asked' = Asked /\ Kept' = Kept
  BY DEF Delta, Asked, Kept, visitVars
<1> HIDE DEF chunk, step
<1>4. Repeats(r, f)
  <2>1. ASSUME Goes(r, f)
        PROVE  FALSE
    <3>1. Len(reply) = 0
      BY <2>1 DEF Goes
    <3>2. QED
      BY <3>1
  <2>2. QED
    BY <1>1, <2>1
<1>5. PICK k \in 0 .. Len(r) :
         /\ got = SubSeq(r, 1, k) /\ reply = SubSeq(r, k + 1, Len(r)) \o f
         /\ skip = SubSeq(Asked, k + 1, Len(Asked)) /\ ui = Kept
  BY <1>4 DEF Repeats
<1> DEFINE d == k + 1
           x == SubSeq(r, d, Len(r))
<1>6. /\ Len(r) \in Nat /\ Len(f) \in Nat /\ Len(Asked) \in Nat /\ n \in Nat /\ n >= 1
      /\ k \in Nat /\ k <= Len(r) /\ d \in Nat \ {0} /\ d = k + 1 /\ d <= Len(r) + 1
  <2>1. Len(r) \in Nat /\ Len(f) \in Nat /\ Len(Asked) \in Nat
    BY <1>2 DEF Texts
  <2>2. QED
    BY <1>5, <2>1
<1> HIDE DEF d
<1>7. x \in Texts /\ Len(x) = Len(r) - k
  <2>1. x \in Texts /\ Len(x) = Len(r) - d + 1
    BY <1>2, <1>6, PartMeans
  <2>2. QED
    BY <1>6, <2>1
<1>8. reply = x \o f /\ Len(reply) = Len(r) - k + Len(f) /\ n <= Len(reply)
  <2>1. reply = x \o f
    BY <1>5 DEF d
  <2>2. Len(x \o f) = Len(x) + Len(f)
    BY <1>2, <1>7, ConcatProperties DEF Texts
  <2>3. QED
    BY <1>6, <1>7, <2>1, <2>2
<1>9. \A t \in Texts : t \o <<>> = t /\ <<>> \o t = t
  BY DEF Texts
<1>10. CASE n <= Len(r) - k
  <2>1. r = Asked
    BY <1>1, <1>6, <1>10
  <2> DEFINE e == k + n
             a == SubSeq(r, d, e)
             g == e + 1
             b == SubSeq(r, g, Len(r))
  <2>2. e \in Nat /\ d <= e + 1 /\ e <= Len(r) /\ g \in Nat \ {0} /\ g <= Len(r) + 1
    BY <1>6, <1>10
  <2>3. x = a \o b
    BY <1>2, <1>6, <2>2, PartsJoin
  <2>4. a \in Texts /\ Len(a) = n /\ b \in Texts
    <3>1. a \in Texts /\ Len(a) = e - d + 1
      BY <1>2, <1>6, <2>2, PartMeans
    <3>2. e - d + 1 = n
      BY <1>6
    <3> HIDE DEF e, g
    <3>3. b \in Texts
      BY <1>2, <1>6, <2>2, PartMeans
    <3>4. QED
      BY <3>1, <3>2, <3>3
  <2>5. got' = SubSeq(r, 1, e) /\ reply' = b \o f /\ chunk = a
    <3>1. SubSeq(r, 1, k) \o a = SubSeq(r, 1, e)
      <4>1. 1 \in Nat \ {0} /\ 1 <= k + 1 /\ k <= e
        BY <1>6
      <4> HIDE DEF e
      <4>2. SubSeq(r, 1, k) \o SubSeq(r, k + 1, e) = SubSeq(r, 1, e)
        BY <1>2, <1>6, <2>2, <4>1, PartsJoin
      <4>3. QED
        BY <4>2 DEF d
    <3> HIDE DEF a, b, x
    <3>2. reply = a \o (b \o f) /\ b \o f \in Texts
      <4>a. a \in Texts /\ b \in Texts /\ f \in Texts
        BY <1>2, <2>4
      <4>1. (a \o b) \o f = a \o (b \o f) /\ b \o f \in Texts
        BY <4>a, TextConcat
      <4>2. reply = (a \o b) \o f
        BY <1>8, <2>3
      <4>3. QED
        BY <4>1, <4>2
    <3>3. SubSeq(reply, 1, Len(a)) = a /\ SubSeq(reply, Len(a) + 1, Len(reply)) = b \o f
      BY <2>4, <3>2, JoinParts
    <3>4. QED
      BY <1>3, <1>5, <2>4, <3>1, <3>3 DEF chunk
  <2>6. skip' = b /\ ui' = Kept
    <3>1. skip = x
      BY <1>5, <2>1 DEF d
    <3> HIDE DEF a, b, x
    <3>2. a # <<>>
      <4>1. Len(<<>>) = 0
        OBVIOUS
      <4>2. QED
        BY <1>6, <2>4, <4>1
    <3>3. SkipChunk(a \o b, a) = [skip |-> b, out |-> <<>>]
      BY <2>4, <3>2, SkipWithin
    <3>4. step.skip = b /\ step.out = <<>>
      BY <2>3, <2>5, <3>1, <3>3 DEF step
    <3>5. QED
      BY <1>2, <1>3, <1>5, <1>9, <3>4
  <2>7. e \in 0 .. Len(r)
    BY <1>6, <2>2
  <2>8. Repeats(r, f)'
    BY <1>3, <2>1, <2>5, <2>6, <2>7 DEF Repeats
  <2>9. QED
    BY <1>3, <2>8 DEF Streaming
<1>11. CASE ~(n <= Len(r) - k)
  <2>1. PICK m \in Nat : f = <<m>> /\ New(m, Kept)
    <3>1. f # <<>>
      <4>1. Len(<<>>) = 0
        OBVIOUS
      <4>2. QED
        BY <1>6, <1>8, <1>11, <4>1
    <3>2. QED
      BY <3>1 DEF Firsts
  <2>2. Len(f) = 1 /\ f # <<>>
    BY <2>1
  <2>3. n = Len(reply)
    <3>1. Len(reply) = Len(r) - k + 1
      BY <1>8, <2>2
    <3>2. n <= Len(reply) /\ n \in Nat /\ Len(r) \in Nat /\ k \in Nat
      BY <1>6, <1>8
    <3> HIDE DEF x
    <3>3. QED
      BY <1>11, <3>1, <3>2
  <2>4. chunk = reply /\ reply' = <<>>
    <3>1. reply \in Texts
      BY DEF Typed
    <3>2. SubSeq(reply, 1, Len(reply)) = reply
      BY <3>1, SubSeqFull DEF Texts
    <3>3. Len(reply) \in Int /\ Len(reply) + 1 \in Int /\ Len(reply) < Len(reply) + 1
      BY <1>6, <2>3
    <3>4. SubSeq(reply, Len(reply) + 1, Len(reply)) = <<>>
      BY <3>3, SubSeqEmpty
    <3>5. QED
      BY <1>3, <2>3, <3>2, <3>4 DEF chunk
  <2>5. got' = r \o f
    <3> DEFINE y == SubSeq(r, 1, k)
    <3>1. y \in Texts
      BY <1>2, <1>6, PartMeans
    <3>2. y \o x = r
      <4> HIDE DEF x, y
      <4>1. SubSeq(r, 1, k) \o SubSeq(r, k + 1, Len(r)) = r
        BY <1>2, <1>6, TwoParts
      <4>2. QED
        BY <4>1 DEF d, x, y
    <3>3. got' = y \o (x \o f)
      BY <1>3, <1>5, <1>8, <2>4
    <3> HIDE DEF x, y
    <3>4. y \o (x \o f) = (y \o x) \o f
      <4>1. y \in Texts /\ x \in Texts /\ f \in Texts
        BY <1>2, <1>7, <3>1
      <4>2. QED
        BY <4>1, TextConcat
    <3>5. QED
      BY <3>2, <3>3, <3>4
  <2>6. step = [skip |-> <<>>, out |-> f]
    <3>1. CASE r = Asked
      <4>1. skip = x
        BY <1>5, <3>1 DEF d
      <4> HIDE DEF x
      <4>2. SkipChunk(x, x \o f) = [skip |-> <<>>, out |-> f]
        BY <1>2, <1>7, <2>2, SkipPast
      <4>3. QED
        BY <1>8, <2>4, <4>1, <4>2 DEF step
    <3>2. CASE r = <<>>
      <4>1. Len(r) = 0 /\ k = 0
        BY <1>6, <3>2
      <4>2. skip = Asked
        <5>1. SubSeq(Asked, 1, Len(Asked)) = Asked
          BY <1>2, SubSeqFull DEF Texts
        <5>2. QED
          BY <1>5, <4>1, <5>1
      <4>3. x = <<>>
        <5>1. d = 1 /\ Len(r) < d /\ Len(r) \in Int /\ d \in Int
          BY <1>6, <4>1
        <5>2. QED
          BY <5>1, SubSeqEmpty
      <4> HIDE DEF x
      <4>4. chunk = <<m>>
        BY <1>2, <1>8, <1>9, <2>1, <2>4, <4>3
      <4>5. SkipChunk(Asked, <<m>>) = [skip |-> <<>>, out |-> <<m>>]
        BY <1>2, <2>1, SkipNothing
      <4>6. QED
        BY <2>1, <4>2, <4>4, <4>5 DEF step
    <3>3. QED
      BY <3>1, <3>2
  <2>7. skip' = <<>> /\ ui' = Kept \o f
    BY <1>3, <1>5, <2>6
  <2>8. Goes(r, f)'
    BY <1>3, <2>2, <2>4, <2>5, <2>7 DEF Goes
  <2>9. QED
    BY <1>3, <2>8 DEF Streaming
<1>12. QED
  BY <1>10, <1>11

-----------------------------------------------------------------------------
\* A stream that has said nothing has shown nothing and skipped nothing.
LEMMA NothingSaid ==
    ASSUME Typed, Visiting, Turn, got = <<>>
    PROVE  skip = Asked /\ ui = Kept
<1>1. CASE pc = "send"
  BY <1>1 DEF Turn
<1>2. CASE pc = "stream"
  <2>1. PICK r \in {<<>>, Asked}, f \in Firsts(Kept) : Repeats(r, f) \/ Goes(r, f)
    BY <1>2 DEF Turn, Streaming
  <2>2. Asked \in Texts /\ f \in Texts /\ r \in Texts
    <3>1. <<>> \in Texts
      BY DEF Texts
    <3>2. QED
      BY <3>1, VisitTexts DEF Turn
  <2>3. ASSUME Goes(r, f)
        PROVE  FALSE
    <3>1. r \o f = <<>> /\ f # <<>>
      BY <2>3 DEF Goes
    <3>2. QED
      BY <2>2, <3>1 DEF Texts
  <2>4. PICK k \in 0 .. Len(r) :
           got = SubSeq(r, 1, k) /\ skip = SubSeq(Asked, k + 1, Len(Asked)) /\ ui = Kept
    BY <2>1, <2>3 DEF Repeats
  <2>5. k = 0
    <3>1. Len(r) \in Nat /\ 1 \in Nat \ {0} /\ k \in Nat /\ 1 <= k + 1 /\ k <= Len(r)
      BY <2>2, <2>4 DEF Texts
    <3>2. Len(SubSeq(r, 1, k)) = k - 1 + 1
      BY <2>2, <3>1, PartMeans
    <3>3. QED
      BY <2>4, <3>1, <3>2
  <2>6. SubSeq(Asked, 1, Len(Asked)) = Asked
    BY <2>2, SubSeqFull DEF Texts
  <2>7. QED
    BY <2>4, <2>5, <2>6
<1>3. QED
  BY <1>1, <1>2 DEF Visiting

\* To ask again leaves what was shown as it is.
LEMMA RetryKeepsTurn ==
    ASSUME Typed, Visiting, Turn, ~lost', NEW t, Retry(t),
           t.prefix = try.prefix, t.carried = try.carried
    PROVE  Turn'
<1>1. /\ pc' = "send" /\ try' = t /\ got' = <<>> /\ got = <<>>
      /\ UNCHANGED <<contFrom, skip, ui>>
  BY DEF Retry, visitVars
<1>2. skip = Asked /\ ui = Kept
  BY <1>1, NothingSaid
<1>3. Asked' = Asked /\ Kept' = Kept /\ try.carried \in {<<>>, contFrom}
  BY <1>1 DEF Asked, Kept, Turn
<1>4. QED
  BY <1>1, <1>2, <1>3 DEF Turn, Visiting

\* The next provider begins with what was shown.
LEMMA FailoverKeepsTurn ==
    ASSUME Typed, Visiting, Turn, ~oneShot, ~lost',
           NEW bad, NEW hostCode, NEW partial \in Texts, Failover(bad, hostCode, partial),
           partial # <<>> => ui = Merge(contFrom, partial)
    PROVE  Turn'
<1> DEFINE carry == IF partial = <<>> THEN contFrom ELSE Merge(contFrom, partial)
<1>1. CASE pc' = "done"
  <2>1. result'.kind \in Failed
    <3>1. \E kind \in Failed : Finish(kind, <<>>)
      BY <1>1 DEF Failover, Failed
    <3>2. QED
      BY <3>1 DEF Finish
  <2>2. QED
    BY <1>1, <2>1 DEF Turn, Visiting, Failed
<1>2. CASE pc' # "done"
  <2>1. /\ pc' = "pick" /\ got' = <<>> /\ ui' = ui /\ contFrom' = carry
        /\ skip' = IF partial = <<>> THEN skip ELSE carry
        /\ partial = <<>> => got = <<>> /\ try.prefix = <<>>
    BY <1>2 DEF Failover, Finish
  <2>2. CASE partial = <<>>
    <3>1. skip = Asked /\ ui = Kept /\ try.prefix = <<>>
      BY <2>1, <2>2, NothingSaid
    <3>2. contFrom \in Texts
      BY DEF Typed
    <3>3. ui = contFrom
      BY <3>1, <3>2, MergeSame DEF Kept
    <3>4. skip \in {<<>>, contFrom}
      BY <3>1 DEF Asked, Turn
    <3>5. QED
      BY <2>1, <2>2, <3>3, <3>4 DEF Turn, Visiting
  <2>3. CASE partial # <<>>
    BY <2>1, <2>3 DEF Turn, Visiting
  <2>4. QED
    BY <2>2, <2>3
<1>3. QED
  BY <1>1, <1>2

\* What a visit was given to continue.
LEMMA PrefixShown ==
    ASSUME Turn, pc = "send", try.prefix # <<>>
    PROVE  ui = Merge(contFrom, try.prefix)
BY DEF Turn, Kept

\* An operation that fails shows no turn.
LEMMA FailureHasNoTurn ==
    ASSUME NEW kind \in Failed, NEW text, Finish(kind, text)
    PROVE  Turn'
BY DEF Finish, Turn, Visiting, Failed

\* A visit begins with what was shown.
LEMMA VisitKeepsTurn ==
    ASSUME Typed, Turn, ~oneShot, StartVisit
    PROVE  Turn'
<1> DEFINE carried == IF Current.tier > 0 /\ ~oneShot THEN <<>> ELSE contFrom
<1>1. /\ pc = "pick" /\ pc' = "send" /\ try' = [NoTry EXCEPT !.carried = carried]
      /\ skip' = IF contFrom = <<>> THEN skip ELSE carried
      /\ UNCHANGED <<contFrom, got, ui>>
  BY DEF StartVisit
<1>2. /\ got = <<>> /\ ui = contFrom /\ (contFrom = <<>> => skip = <<>>)
      /\ contFrom \in Texts
  BY <1>1 DEF Turn, Typed
<1>3. carried \in {<<>>, contFrom}
  OBVIOUS
<1> HIDE DEF carried
<1>4. try'.prefix = <<>> /\ try'.carried = carried
  BY <1>1 DEF NoTry
<1>5. Asked' = carried
  BY <1>4 DEF Asked
<1>6. skip' = carried
  BY <1>1, <1>2, <1>3
<1>7. Kept' = contFrom
  BY <1>1, <1>2, <1>4, MergeSame DEF Kept
<1>8. QED
  BY <1>1, <1>2, <1>3, <1>4, <1>5, <1>6, <1>7 DEF Turn, Visiting

\* A new stream repeats what it was asked to continue, or does not, and goes on
\* with a token of its own, or does not.
LEMMA OpenKeepsTurn ==
    ASSUME Typed, Turn, OpenStream
    PROVE  Turn'
<1>1. /\ pc = "send" /\ pc' = "stream" /\ got' = <<>> /\ reply' \in Reply
      /\ try'.prefix = try.prefix /\ try'.carried = try.carried
      /\ UNCHANGED <<contFrom, skip, ui>>
  <2>1. \A t \in TryState : \A n : /\ [t EXCEPT !.attempt = n].prefix = t.prefix
                                  /\ [t EXCEPT !.attempt = n].carried = t.carried
    BY DEF TryState
  <2>2. QED
    BY <2>1 DEF OpenStream, visitVars, Typed
<1>2. skip = Asked /\ ui = Kept /\ try.carried \in {<<>>, contFrom}
  BY <1>1 DEF Turn, Visiting
<1>3. Asked' = Asked /\ Kept' = Kept
  BY <1>1 DEF Asked, Kept
<1>4. /\ Asked \in Texts /\ Kept \in Texts /\ <<>> \in Texts /\ Firsts(Kept) \subseteq Texts
      /\ Len(Asked) \in Nat
  <2>1. <<>> \in Texts
    BY DEF Texts
  <2>2. Asked \in Texts /\ Kept \in Texts /\ Firsts(Kept) \subseteq Texts
    BY <1>2, VisitTexts
  <2>3. QED
    BY <2>1, <2>2 DEF Texts
<1>5. \A n \in NextTokens : <<n>> \in Firsts(Kept)
  <2>1. NextTokens \subseteq (1 .. MaxTokens) \ SeqExt!ToSet(Kept)
    BY <1>2 DEF NextTokens
  <2>2. \A n \in NextTokens : n \in Nat
    BY <2>1, ClientAssumption
  <2>3. \A n \in NextTokens : New(n, Kept)
    BY <2>1 DEF New, SeqExt!ToSet
  <2>4. QED
    BY <2>2, <2>3 DEF Firsts
<1>6. <<>> \in Firsts(Kept)
  BY DEF Firsts
<1>7. PICK r \in {<<>>, Asked}, f \in Firsts(Kept) : reply' = r \o f
  <2> DEFINE Fresh == {<<>>} \cup {<<n>> : n \in NextTokens}
  <2>1. Fresh \subseteq Firsts(Kept)
    BY <1>5, <1>6
  <2>2. \E r \in {<<>>, Asked}, f \in Fresh : reply' = r \o f
    BY <1>1 DEF Reply
  <2> HIDE DEF Fresh
  <2>3. QED
    BY <2>1, <2>2
<1>8. Repeats(r, f)'
  <2>1. SubSeq(r, 1, Len(r)) = r /\ SubSeq(Asked, 1, Len(Asked)) = Asked /\ Len(r) \in Nat
    <3>1. r \in Texts
      BY <1>4
    <3>2. QED
      BY <1>4, <3>1, SubSeqFull DEF Texts
  <2>2. SubSeq(r, 1, 0) = <<>>
    BY SubSeqEmpty
  <2>3. \E k \in 0 .. Len(r) :
           /\ got' = SubSeq(r, 1, k) /\ reply' = SubSeq(r, k + 1, Len(r)) \o f
           /\ skip' = SubSeq(Asked, k + 1, Len(Asked)) /\ ui' = Kept
    <3>1. 0 \in 0 .. Len(r) /\ 0 + 1 = 1
      BY <2>1
    <3>2. /\ got' = SubSeq(r, 1, 0) /\ reply' = SubSeq(r, 0 + 1, Len(r)) \o f
          /\ skip' = SubSeq(Asked, 0 + 1, Len(Asked)) /\ ui' = Kept
      BY <1>1, <1>2, <1>7, <2>1, <2>2, <3>1
    <3>3. QED
      BY <3>1, <3>2
  <2>4. QED
    BY <1>3, <2>3 DEF Repeats
<1>9. Streaming'
  BY <1>3, <1>7, <1>8 DEF Streaming
<1>10. QED
  BY <1>1, <1>2, <1>9 DEF Turn, Visiting

\* A silent stream continued on the same provider has shown what it said.
LEMMA ContinuationKeepsTurn ==
    ASSUME Typed, Turn, ~lost', NEW calls, IdleTimeout(calls), pc' = "send"
    PROVE  Turn'
<1> DEFINE combined == Merge(try.prefix, got)
<1>1. /\ pc = "stream" /\ combined # <<>> /\ ~BrokeInRepeat
      /\ try'.prefix = combined /\ try'.carried = try.carried /\ skip' = combined
      /\ got' = <<>> /\ UNCHANGED <<contFrom, ui>>
  <2>1. \A t \in TryState : \A n, p :
           /\ [t EXCEPT !.continued = TRUE, !.attempt = n, !.prefix = p].prefix = p
           /\ [t EXCEPT !.continued = TRUE, !.attempt = n, !.prefix = p].carried = t.carried
    BY DEF TryState
  <2>2. ~Finish("ok", Merge(contFrom, combined)) /\ ~Terminate("terminal")
    BY DEF Terminate, Finish
  <2>3. \A bad, hostCode, partial : ~Failover(bad, hostCode, partial)
    BY DEF Failover, Finish
  <2>4. /\ pc = "stream" /\ Continuable(combined, calls)
        /\ try' = [try EXCEPT !.continued = TRUE, !.attempt = @ - 1, !.prefix = combined]
        /\ skip' = combined /\ got' = <<>> /\ lost' = (lost \/ BrokeInRepeat)
        /\ UNCHANGED <<contFrom, ui>>
    BY <2>2, <2>3 DEF IdleTimeout, visitVars
  <2> DEFINE n == try.attempt - 1
  <2>5. try' = [try EXCEPT !.continued = TRUE, !.attempt = n, !.prefix = combined]
    BY <2>4
  <2> HIDE DEF combined, n
  <2>6. try'.prefix = combined /\ try'.carried = try.carried
    BY <2>1, <2>5 DEF Typed
  <2>7. combined # <<>> /\ ~BrokeInRepeat
    BY <2>4 DEF Continuable
  <2>8. QED
    BY <2>4, <2>6, <2>7
<1>2. try.carried \in {<<>>, contFrom} /\ Streaming
  BY <1>1 DEF Turn, Visiting
<1>3. ui = Merge(contFrom, combined)
  BY <1>1, <1>2, Shown
<1> HIDE DEF combined
<1>4. Asked' = combined /\ Kept' = ui
  BY <1>1, <1>3 DEF Asked, Kept
<1>5. QED
  BY <1>1, <1>2, <1>4 DEF Turn, Visiting

\* A stream that ends ends with the turn it has shown.
LEMMA StreamKeepsTurn ==
    ASSUME Inv, Turn, ~oneShot, ~lost',
           \E calls : StreamEnds(calls) \/ IdleTimeout(calls)
    PROVE  Turn'
<1> DEFINE combined == Merge(try.prefix, got)
<1>1. /\ pc = "stream" /\ Visiting /\ Typed /\ Streaming
      /\ try.carried \in {<<>>, contFrom} /\ try \in TryState /\ <<>> \in Texts
      /\ try.prefix \in Texts /\ got \in Texts
  <2>1. pc = "stream"
    BY DEF StreamEnds, IdleTimeout
  <2>2. <<>> \in Texts
    BY DEF Texts
  <2>3. QED
    BY <2>1, <2>2 DEF Inv, Typed, Turn, Visiting, TryState
<1>2. combined \in Texts
  BY <1>1, MergeType
<1>3. ~BrokeInRepeat => ui = Merge(contFrom, combined)
  BY <1>1, Shown
<1>4. ASSUME Finish("ok", Merge(contFrom, combined)), UNCHANGED ui
      PROVE  Turn'
  <2>1. pc' = "done" /\ result'.text = Merge(contFrom, combined) /\ ~BrokeInRepeat
    BY <1>4 DEF Finish
  <2>2. QED
    BY <1>3, <1>4, <2>1 DEF Turn, Visiting
<1>5. ASSUME Terminate("terminal")
      PROVE  Turn'
  BY <1>5, FailureHasNoTurn DEF Terminate, Failed
<1>6. ASSUME NEW bad, NEW hostCode, NEW partial \in {<<>>, combined},
             Failover(bad, hostCode, partial)
      PROVE  Turn'
  <2>1. BrokeInRepeat => lost'
    BY <1>6 DEF Failover, Finish
  <2>2. partial \in Texts /\ (partial # <<>> => ui = Merge(contFrom, partial))
    BY <1>1, <1>2, <1>3, <1>6, <2>1
  <2>3. QED
    BY <1>1, <1>6, <2>2, FailoverKeepsTurn
<1>7. ASSUME NEW calls, StreamEnds(calls)
      PROVE  Turn'
  <2>1. \/ Finish("ok", Merge(contFrom, combined)) /\ UNCHANGED ui
        \/ Retry(try) \/ Failover(badOrigins, FALSE, <<>>) \/ Terminate("terminal")
    BY <1>7 DEF StreamEnds
  <2>2. Retry(try) => Turn'
    BY <1>1, RetryKeepsTurn
  <2>3. Failover(badOrigins, FALSE, <<>>) => Turn'
    BY <1>6
  <2>4. QED
    BY <1>4, <1>5, <2>1, <2>2, <2>3
<1>8. ASSUME NEW calls, IdleTimeout(calls)
      PROVE  Turn'
  <2>1. \/ Finish("ok", Merge(contFrom, combined)) /\ UNCHANGED ui
        \/ pc' = "send"
        \/ \E partial \in {<<>>, combined} : Failover(badOrigins, FALSE, partial)
        \/ Terminate("terminal")
    BY <1>8 DEF IdleTimeout
  <2>2. pc' = "send" => Turn'
    BY <1>1, <1>8, ContinuationKeepsTurn
  <2>3. QED
    BY <1>4, <1>5, <1>6, <2>1, <2>2
<1>9. QED
  BY <1>7, <1>8

\* A request that comes out badly leaves what was shown as it is.
LEMMA RequestKeepsTurn ==
    ASSUME Inv, Turn, ~oneShot, ~lost',
           Vetoed \/ ConnectFailed \/ FatalStatus \/ RateLimited \/ RetryableError
    PROVE  Turn'
<1>1. /\ pc = "send" /\ Visiting /\ Typed
      /\ try \in TryState /\ <<>> \in Texts /\ try.prefix \in Texts
  <2>1. pc = "send"
    BY DEF Vetoed, ConnectFailed, FatalStatus, RateLimited, RetryableError, Fails
  <2>2. <<>> \in Texts
    BY DEF Texts
  <2>3. QED
    BY <2>1, <2>2 DEF Inv, Typed, Visiting, TryState
<1>2. \A kind \in Failed : Terminate(kind) => Turn'
  BY FailureHasNoTurn DEF Terminate
<1>3. \A bad, hostCode : \A partial \in {<<>>, try.prefix} :
         Failover(bad, hostCode, partial) => Turn'
  BY <1>1, PrefixShown, FailoverKeepsTurn
<1>4. \A n : Retry([try EXCEPT !.attempt = n]) => Turn'
  <2>1. \A n : /\ [try EXCEPT !.attempt = n].prefix = try.prefix
               /\ [try EXCEPT !.attempt = n].carried = try.carried
    BY <1>1 DEF TryState
  <2>2. QED
    BY <1>1, <2>1, RetryKeepsTurn
<1>5. \A n, r : Retry([try EXCEPT !.attempt = n, !.rate = r]) => Turn'
  <2>1. \A n, r : /\ [try EXCEPT !.attempt = n, !.rate = r].prefix = try.prefix
                  /\ [try EXCEPT !.attempt = n, !.rate = r].carried = try.carried
    BY <1>1 DEF TryState
  <2>2. QED
    BY <1>1, <2>1, RetryKeepsTurn
<1>6. CASE Vetoed
  BY <1>2, <1>6 DEF Vetoed, Failed
<1>7. CASE ConnectFailed
  BY <1>3, <1>7 DEF ConnectFailed
<1>8. CASE FatalStatus
  BY <1>2, <1>3, <1>8 DEF FatalStatus, Failed
<1>9. CASE RateLimited
  BY <1>2, <1>3, <1>5, <1>9 DEF RateLimited, Failed
<1>10. CASE RetryableError
  BY <1>2, <1>3, <1>4, <1>10 DEF RetryableError, Failed
<1>11. QED
  BY <1>6, <1>7, <1>8, <1>9, <1>10

\* Nothing given up is taken back, and the workload does not change.
LEMMA LossStays ==
    ASSUME [Next]_vars
    PROVE  oneShot' = oneShot /\ (lost => lost')
<1>1. CASE UNCHANGED vars
  BY <1>1 DEF vars, inputVars
<1>2. CASE CloudPhaseEnds \/ SkipSlot \/ StartVisit \/ OpenStream
            \/ \E n \in 1 .. Len(reply) : Delta(n)
  BY <1>2 DEF CloudPhaseEnds, SkipSlot, StartVisit, OpenStream, Delta, inputVars
<1>3. CASE SkipUnfit \/ OutOfSlots
  BY <1>3 DEF SkipUnfit, OutOfSlots, Finish, inputVars
<1>4. /\ \A kind : Terminate(kind) => oneShot' = oneShot /\ (lost => lost')
      /\ \A t : Retry(t) => oneShot' = oneShot /\ (lost => lost')
      /\ \A bad, hostCode, partial :
            Failover(bad, hostCode, partial) => oneShot' = oneShot /\ (lost => lost')
  BY DEF Terminate, Retry, Failover, Finish, inputVars
<1>5. CASE Vetoed \/ ConnectFailed \/ FatalStatus \/ RateLimited \/ RetryableError
  BY <1>4, <1>5 DEF Vetoed, ConnectFailed, FatalStatus, RateLimited, RetryableError
<1>6. CASE DoomLooped \/ StreamFails \/ ShareSpent \/ Abandon
  BY <1>4, <1>6 DEF DoomLooped, StreamFails, ShareSpent, Abandon
<1>7. ASSUME NEW calls, StreamEnds(calls) \/ IdleTimeout(calls)
      PROVE  oneShot' = oneShot /\ (lost => lost')
  BY <1>4, <1>7 DEF StreamEnds, IdleTimeout, Finish, inputVars
<1>8. QED
  BY <1>1, <1>2, <1>3, <1>5, <1>6, <1>7 DEF Next

\* Every step of an agent turn leaves shown what it should.
LEMMA StepsKeepTurn == Inv /\ TurnInv /\ [Next]_vars => TurnInv'
<1> SUFFICES ASSUME Inv, TurnInv, [Next]_vars, ~oneShot', ~lost'
             PROVE  Turn'
  BY DEF TurnInv
<1>1. ~oneShot /\ ~lost /\ Turn /\ Typed
  BY LossStays DEF TurnInv, Inv
<1>2. ASSUME UNCHANGED <<pc, contFrom, try, skip, reply, got, ui, result>>
      PROVE  Turn'
  <2>1. Asked' = Asked /\ Kept' = Kept
    BY <1>2 DEF Asked, Kept
  <2>2. Streaming => Streaming'
    BY <1>2, <2>1 DEF Streaming, Repeats, Goes
  <2>3. QED
    BY <1>1, <1>2, <2>1, <2>2 DEF Turn, Visiting
<1>3. CASE UNCHANGED vars
  BY <1>2, <1>3 DEF vars, visitVars
<1>4. CASE CloudPhaseEnds \/ SkipSlot
  BY <1>2, <1>4 DEF CloudPhaseEnds, SkipSlot, visitVars
<1>5. CASE SkipUnfit
  <2>1. CASE chainMode
    BY <1>2, <1>5, <2>1 DEF SkipUnfit
  <2>2. CASE ~chainMode
    BY <1>5, <2>2, FailureHasNoTurn DEF SkipUnfit, Failed
  <2>3. QED
    BY <2>1, <2>2
<1>6. CASE StartVisit
  BY <1>1, <1>6, VisitKeepsTurn
<1>7. CASE OpenStream
  BY <1>1, <1>7, OpenKeepsTurn
<1>8. ASSUME NEW n \in 1 .. Len(reply), Delta(n)
      PROVE  Turn'
  <2>1. pc = "stream" /\ UNCHANGED <<pc, contFrom, try>>
    BY <1>8 DEF Delta, visitVars
  <2>2. try.carried \in {<<>>, contFrom} /\ Streaming
    BY <1>1, <2>1 DEF Turn, Visiting
  <2>3. Streaming'
    BY <1>1, <1>8, <2>2, DeltaStreams
  <2>4. QED
    BY <2>1, <2>2, <2>3 DEF Turn, Visiting
<1>9. CASE OutOfSlots \/ Abandon
  BY <1>9, FailureHasNoTurn DEF OutOfSlots, Abandon, Terminate, Failed
<1>10. CASE Vetoed \/ ConnectFailed \/ FatalStatus \/ RateLimited \/ RetryableError
  BY <1>1, <1>10, RequestKeepsTurn
<1>11. CASE DoomLooped
  <2>1. try \in TryState /\ pc = "stream"
    BY <1>1, <1>11 DEF Typed, DoomLooped
  <2>2. \A m : /\ [try EXCEPT !.doom = m].prefix = try.prefix
               /\ [try EXCEPT !.doom = m].carried = try.carried
    BY <2>1 DEF TryState
  <2>3. \A m : Retry([try EXCEPT !.doom = m]) => Turn'
    BY <1>1, <2>1, <2>2, RetryKeepsTurn DEF Visiting
  <2>4. Terminate("terminal") => Turn'
    BY FailureHasNoTurn DEF Terminate, Failed
  <2>5. QED
    BY <1>11, <2>3, <2>4 DEF DoomLooped
<1>12. CASE StreamFails \/ ShareSpent
  <2>1. Visiting /\ <<>> \in Texts
    <3>1. Visiting
      BY <1>12 DEF StreamFails, ShareSpent, Visiting
    <3>2. <<>> \in Texts
      BY DEF Texts
    <3>3. QED
      BY <3>1, <3>2
  <2>2. \A bad, hostCode : Failover(bad, hostCode, <<>>) => Turn'
    BY <1>1, <2>1, FailoverKeepsTurn
  <2>3. Terminate("terminal") => Turn'
    BY FailureHasNoTurn DEF Terminate, Failed
  <2>4. QED
    BY <1>12, <2>2, <2>3 DEF StreamFails, ShareSpent
<1>13. CASE \E calls : StreamEnds(calls) \/ IdleTimeout(calls)
  BY <1>1, <1>13, StreamKeepsTurn
<1>14. QED
  BY <1>3, <1>4, <1>5, <1>6, <1>7, <1>8, <1>9, <1>10, <1>11, <1>12, <1>13 DEF Next

-----------------------------------------------------------------------------
\* No visit sends more requests than its budget, its resamples added.
THEOREM VisitsBounded == Spec => []VisitBudget
<1>1. Spec => []Inv
  BY InvHoldsAtFirst, StepsKeepInv, PTL DEF Spec
<1>2. Inv => VisitBudget
  BY DEF Inv, BudgetInv, Budget, VisitBudget
<1>3. QED
  BY <1>1, <1>2, PTL

\* An agent turn with output crosses to a local model only past a slot that was
\* passed over.
THEOREM SwitchesGuarded == Spec => LocalSwitchGuarded
<1>1. Spec => []Inv
  BY InvHoldsAtFirst, StepsKeepInv, PTL DEF Spec
<1>2. Inv /\ [Next]_vars =>
         [pc = "pick" /\ pc' = "send" /\ ~oneShot /\ ui # <<>>
            /\ Current.host /\ Current.tier > maxTier
               => tripped[Len(tripped)] # i - 1]_vars
  BY StepGuarded
<1>3. QED
  BY <1>1, <1>2, PTL DEF Spec, LocalSwitchGuarded

\* An operation visits the providers of its plan in order, reports each visit
\* once at most, and restores at most the one that answered.
THEOREM OperationIsVisitLoop == Spec => VisitSpec
<1>1. Spec => []Inv
  BY InvHoldsAtFirst, StepsKeepInv, PTL DEF Spec
<1>2. Init => Visits!Init
  <2>1. Init => Len(plan) \in Nat \ {0}
    BY PlanSlots DEF Init
  <2>2. QED
    BY <2>1 DEF Init, Visits!Init
<1>3. Inv /\ [Next]_vars => [Visits!Next]_<<Len(plan), Pos, tripped, Restored>>
  BY StepRefines
<1>4. QED
  BY <1>1, <1>2, <1>3, PTL DEF Spec, VisitSpec, Visits!Spec, Pos, Restored

\* What the observer of a successful agent turn was shown is the text of the
\* turn, unless some of it was given up.
THEOREM TurnShown == Spec => []UiIsTurn
<1>1. Init => Inv /\ TurnInv
  <2>1. Init => Turn
    BY DEF Init, Turn, Visiting
  <2>2. QED
    BY <2>1, InvHoldsAtFirst DEF TurnInv
<1>2. Inv /\ TurnInv /\ [Next]_vars => (Inv /\ TurnInv)'
  BY StepsKeepInv, StepsKeepTurn
<1>3. Inv /\ TurnInv => UiIsTurn
  <2>1. Typed /\ result.kind = "ok" => pc = "done"
    BY DEF Typed
  <2>2. QED
    BY <2>1 DEF Inv, TurnInv, Turn, UiIsTurn
<1>4. QED
  BY <1>1, <1>2, <1>3, PTL DEF Spec

=============================================================================
