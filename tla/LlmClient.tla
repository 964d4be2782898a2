----------------------------- MODULE LlmClient -----------------------------
(***************************************************************************)
(* One LLM operation of a client (llm/client.rs): the visits along a       *)
(* captured plan, the attempts within a visit, the stream and its prefix   *)
(* continuation, the deadlines, and what the host's observer is shown.     *)
(*                                                                         *)
(* Text is a sequence of tokens, numbered in the order in which a model    *)
(* first says them; a token said twice is the same number.  Reasoning text *)
(* goes through the same code with buffers of its own and is left out.     *)
(* A model asked to continue a text either repeats the last assistant item *)
(* of the request and goes on, or just goes on.                            *)
(***************************************************************************)
EXTENDS Integers, Sequences, FiniteSets, RequestErrors

SeqExt == INSTANCE SequencesExt

CONSTANTS Plans,             \* captured plans: sequences of slots
          FailoverAttempts,  \* RetryPolicy.failover_max_attempts
          MaxRetries,        \* RetryPolicy.max_retries
          RateLimitBudget,   \* RATE_LIMIT_RETRY_THRESHOLD
          DoomLoopRetries,   \* doom_loop_max_retries
          MaxTokens          \* bound on the tokens the models say

\* fits is FALSE when the request cannot be rewritten for the slot (no tools,
\* no structured output, context window too small).
Slot == [tier : Nat, host : BOOLEAN, origin : Nat, fits : BOOLEAN]

ASSUME ClientAssumption ==
    /\ Plans \subseteq Seq(Slot) /\ <<>> \notin Plans
    /\ {FailoverAttempts, MaxRetries, RateLimitBudget, DoomLoopRetries, MaxTokens} \subseteq Nat

VARIABLES plan,       \* CapturedOperation.plan, with its slots
          oneShot,    \* workload = OneShot: its observer shows nothing
          timed,      \* an operation timeout was given
          phased,     \* a cloud phase timeout was given
          cloudOver,  \* the cloud phase deadline has passed
          pc,         \* "pick" a visit, "send", "stream", "done"
          i,          \* visit_idx, from 1
          maxTier,    \* max_attempted_tier
          badOrigins, \* skipped_origins
          hostFailed, \* host_codes is not empty
          contFrom,   \* continue_from: its text, empty for None
          try,        \* the locals of try_provider
          skip,       \* skip_text of the PrefixSkippingObserver
          reply,      \* what the open stream has yet to say
          got,        \* what it has said
          ui,         \* deltas passed on to the host's observer
          tripped,    \* history: positions reported to record_trip
          lost,       \* history: what a stream had said was given up, or the
                      \* stream broke off within the text it repeated
          result      \* [kind, text] of the finished operation

visitVars == <<i, maxTier, badOrigins, hostFailed, contFrom>>
inputVars == <<plan, oneShot, timed, phased>>
vars == <<inputVars, cloudOver, pc, visitVars, try, skip, reply, got, ui, tripped,
          lost, result>>

-----------------------------------------------------------------------------
Max2(a, b) == IF a >= b THEN a ELSE b

\* Faulty variant: every plan is a chain.
AlwaysChain == TRUE

chainMode == Len(plan) > 1
Current   == plan[i]
HasLocal  == \E k \in DOMAIN plan : plan[k].tier > 0

\* The attempt budget of a visit.
MaxAttempts == IF chainMode THEN Max2(FailoverAttempts, 1) ELSE Max2(MaxRetries, 1)

\* Faulty variant: one attempt too many in chain mode.
ExhaustedLate(attempt) ==
    IF chainMode THEN attempt > MaxAttempts ELSE attempt > MaxRetries

\* No attempt is left after a retryable failure of this one.
Exhausted(attempt) ==
    IF chainMode THEN attempt >= MaxAttempts ELSE attempt > MaxRetries

\* merge_continued_turn, on the text.
Merge(partial, cont) ==
    IF SeqExt!IsPrefix(partial, cont) THEN cont ELSE partial \o cont

\* Faulty variant: a chunk that overlaps the end of the prefix is shown whole.
SkipWholeChunks(remaining, chunk) ==
    IF remaining # <<>> /\ SeqExt!IsPrefix(chunk, remaining)
    THEN [skip |-> SubSeq(remaining, Len(chunk) + 1, Len(remaining)), out |-> <<>>]
    ELSE [skip |-> <<>>, out |-> chunk]

\* skip_prefix_chunk: what is left to skip, and what is passed on.
SkipChunk(remaining, chunk) ==
    IF remaining = <<>> THEN [skip |-> <<>>, out |-> chunk]
    ELSE IF SeqExt!IsPrefix(chunk, remaining)
         THEN [skip |-> SubSeq(remaining, Len(chunk) + 1, Len(remaining)), out |-> <<>>]
    ELSE IF SeqExt!IsPrefix(remaining, chunk)
         THEN [skip |-> <<>>, out |-> SubSeq(chunk, Len(remaining) + 1, Len(chunk))]
    ELSE [skip |-> <<>>, out |-> chunk]

\* The text of the last assistant item of the request, empty when the request
\* continues nothing.  carried is what the visit's own request continues.
Asked == IF try.prefix # <<>> THEN try.prefix ELSE try.carried

\* The stream has said part of the text it was asked to continue, and no more.
BrokeInRepeat == got # <<>> /\ got # Asked /\ SeqExt!IsPrefix(got, Asked)

\* The next token that nobody has said, while there is one.
NextTokens ==
    LET unsaid == (1 .. MaxTokens) \ SeqExt!ToSet(ui)
    IN {n \in unsaid : \A m \in unsaid : n <= m}

NoTry == [attempt |-> 0, rate |-> 0, doom |-> 0, continued |-> FALSE,
          prefix |-> <<>>, carried |-> <<>>]

Finish(kind, text) ==
    /\ pc' = "done"
    /\ result' = [kind |-> kind, text |-> text]
    /\ reply' = <<>> /\ got' = <<>>
    /\ lost' = (lost \/ BrokeInRepeat)

-----------------------------------------------------------------------------
\* capture_operation has returned a plan.
Init ==
    /\ plan \in Plans
    /\ oneShot \in BOOLEAN /\ timed \in BOOLEAN /\ phased \in BOOLEAN
    /\ cloudOver = FALSE
    /\ pc = "pick"
    /\ i = 1 /\ maxTier = 0 /\ badOrigins = {} /\ hostFailed = FALSE /\ contFrom = <<>>
    /\ try = NoTry
    /\ skip = <<>> /\ reply = <<>> /\ got = <<>> /\ ui = <<>>
    /\ tripped = <<>>
    /\ lost = FALSE
    /\ result = [kind |-> "none", text |-> <<>>]

CloudPhaseEnds ==
    /\ phased /\ ~cloudOver /\ pc # "done"
    /\ cloudOver' = TRUE
    /\ UNCHANGED <<inputVars, pc, visitVars, try, skip, reply, got, ui, tripped, lost, result>>

\* ---- the head of the visit loop

PassedOver ==
    \/ Current.tier < maxTier
    \/ Current.origin \in badOrigins
    \/ cloudOver /\ Current.tier = 0 /\ HasLocal

SkipSlot ==
    /\ pc = "pick" /\ i <= Len(plan)
    /\ PassedOver
    /\ i' = i + 1
    /\ UNCHANGED <<inputVars, cloudOver, pc, maxTier, badOrigins, hostFailed, contFrom,
                   try, skip, reply, got, ui, tripped, lost, result>>

\* rewrite_request_for fails for this slot; LocalContextExceeded carries no
\* host code, the other reasons do.
SkipUnfit ==
    /\ pc = "pick" /\ i <= Len(plan)
    /\ ~PassedOver /\ ~Current.fits
    /\ maxTier' = Max2(maxTier, Current.tier)
    /\ hostFailed' \in {hostFailed, TRUE}
    /\ IF chainMode
       THEN i' = i + 1 /\ UNCHANGED <<pc, result, reply, got, lost>>
       ELSE i' = i /\ Finish("terminal", <<>>)
    /\ UNCHANGED <<inputVars, cloudOver, badOrigins, contFrom, try, skip, ui, tripped>>

\* A visit begins.  An agent turn starts afresh on a local slot; otherwise the
\* request continues what an earlier visit left.
StartVisit ==
    LET carried == IF Current.tier > 0 /\ ~oneShot THEN <<>> ELSE contFrom
    IN /\ pc = "pick" /\ i <= Len(plan)
       /\ ~PassedOver /\ Current.fits
       /\ maxTier' = Max2(maxTier, Current.tier)
       /\ try' = [NoTry EXCEPT !.carried = carried]
       /\ skip' = IF contFrom = <<>> THEN skip ELSE carried
       /\ pc' = "send"
       /\ UNCHANGED <<inputVars, cloudOver, i, badOrigins, hostFailed, contFrom,
                      reply, got, ui, tripped, lost, result>>

OutOfSlots ==
    /\ pc = "pick" /\ i > Len(plan)
    /\ Finish("exhausted", <<>>)
    /\ UNCHANGED <<inputVars, cloudOver, visitVars, try, skip, ui, tripped>>

\* ---- the end of a visit

\* The first slot after i that the visit loop would not pass over, as far as
\* the failure handler can tell: it does not look at the cloud deadline.
NextSlots(bad) ==
    {k \in i + 1 .. Len(plan) : plan[k].tier >= maxTier /\ plan[k].origin \notin bad}

Crossing(next) == next.tier > Current.tier /\ next.host

\* Faulty variant: the switch is refused to one-shots only.
RefusesOneShots(next, carry) == Crossing(next) /\ oneShot /\ ui # <<>>

\* An agent turn that has shown output, or has some to carry on with, does not
\* cross to a local model.
Refuses(next, carry) == Crossing(next) /\ ~oneShot /\ (ui # <<>> \/ carry # <<>>)

\* try_provider returned Failover: remember the partial turn, trip the provider
\* once, and go on to the next slot, unless there is none or an agent turn that
\* has shown output would cross to a local model.
Failover(bad, hostCode, partial) ==
    LET carry    == IF partial = <<>> THEN contFrom ELSE Merge(contFrom, partial)
        nexts    == NextSlots(bad)
        next     == plan[CHOOSE k \in nexts : \A m \in nexts : k <= m]
        refused  == Refuses(next, carry)
        restart  == Crossing(next) /\ oneShot
        skipNow  == IF partial = <<>> THEN skip ELSE carry
        failed   == hostFailed \/ hostCode
    IN /\ badOrigins' = bad
       /\ hostFailed' = failed
       /\ maxTier' = maxTier
       /\ try' = NoTry
       /\ ui' = ui
       /\ IF ~chainMode \/ nexts = {} \/ refused
          THEN /\ Finish(IF ~chainMode \/ nexts # {} THEN "terminal"
                         ELSE IF failed THEN "unavailable" ELSE "exhausted", <<>>)
               /\ contFrom' = carry
               /\ skip' = skipNow
               /\ i' = i
          ELSE /\ pc' = "pick"
               /\ reply' = <<>> /\ got' = <<>>
               /\ lost' = \/ lost \/ BrokeInRepeat
                          \/ partial = <<>> /\ (got # <<>> \/ try.prefix # <<>>)
               /\ result' = result
               /\ contFrom' = IF restart THEN <<>> ELSE carry
               /\ skip' = IF restart THEN <<>> ELSE skipNow
               /\ i' = i + 1
       /\ tripped' = IF chainMode THEN Append(tripped, i) ELSE tripped
       /\ UNCHANGED <<inputVars, cloudOver>>

\* Veto, exhausted empty responses and doom loops, failures in mid-stream.
Terminate(kind) ==
    /\ Finish(kind, <<>>)
    /\ UNCHANGED <<inputVars, cloudOver, visitVars, try, skip, ui, tripped>>

\* Wait and ask the same provider again.
Retry(newTry) ==
    /\ pc' = "send"
    /\ try' = newTry
    /\ reply' = <<>> /\ got' = <<>>
    /\ lost' = (lost \/ got # <<>>)
    /\ UNCHANGED <<inputVars, cloudOver, visitVars, skip, ui, tripped, result>>

\* ---- the request is sent: one more attempt, with one of these outcomes

Attempt == try.attempt + 1

Reply ==
    {repeated \o fresh : repeated \in {<<>>, Asked},
                         fresh \in {<<>>} \cup {<<n>> : n \in NextTokens}}

\* Faulty variant: the attempt is not counted.
OpenStreamUncounted ==
    /\ pc = "send"
    /\ reply' \in Reply
    /\ pc' = "stream"
    /\ got' = <<>>
    /\ UNCHANGED <<inputVars, cloudOver, visitVars, try, skip, ui, tripped, lost, result>>

OpenStream ==
    /\ pc = "send"
    /\ reply' \in Reply
    /\ pc' = "stream"
    /\ try' = [try EXCEPT !.attempt = Attempt]
    /\ got' = <<>>
    /\ UNCHANGED <<inputVars, cloudOver, visitVars, skip, ui, tripped, lost, result>>

\* A request to the host's own model is a call of its callback: it opens a
\* stream, or fails for good.  The other outcomes are those of HTTP.

\* The request comes out in a way that this arm takes.
Fails(handling) == pc = "send" /\ ~Current.host /\ FailuresOf[handling] # {}

Vetoed == Fails("veto") /\ Terminate("veto")

ConnectFailed ==
    /\ Fails("connectFailed")
    /\ Failover(badOrigins \cup {Current.origin}, FALSE, <<>>)

\* No callback of the host is set, or HTTP failed for good.
FatalStatus ==
    /\ \/ pc = "send" /\ Current.host
       \/ Fails("fatal")
    /\ IF chainMode THEN Failover(badOrigins, FALSE, try.prefix) ELSE Terminate("terminal")

\* 429: wait here, unless it takes too long and there is somewhere else to go.
RateLimited ==
    LET rate  == try.rate + 1
        spent == \/ rate > RateLimitBudget
                 \/ Exhausted(Attempt)
    IN /\ Fails("rateLimited")
       /\ \E o \in FailuresOf["rateLimited"] : \E tooLong \in TooLong(o, Attempt) :
             IF spent \/ (chainMode /\ tooLong)
             THEN IF chainMode THEN Failover(badOrigins, FALSE, try.prefix)
                               ELSE Terminate("terminal")
             ELSE Retry([try EXCEPT !.attempt = Attempt, !.rate = rate])

RetryableError ==
    /\ Fails("retry")
    /\ IF ~Exhausted(Attempt) THEN Retry([try EXCEPT !.attempt = Attempt])
       ELSE IF chainMode THEN Failover(badOrigins, FALSE, try.prefix)
       ELSE Terminate("terminal")

\* ---- the stream

\* collect_stream passes a chunk to the prefix-skipping observer.
Delta(n) ==
    LET chunk == SubSeq(reply, 1, n)
        step  == SkipChunk(skip, chunk)
    IN /\ pc = "stream"
       /\ got' = got \o chunk
       /\ reply' = SubSeq(reply, n + 1, Len(reply))
       /\ skip' = step.skip
       /\ ui' = ui \o step.out
       /\ UNCHANGED <<inputVars, cloudOver, pc, visitVars, try, tripped, lost, result>>

\* The stream is over, with or without tool calls: a turn, or an empty response.
StreamEnds(calls) ==
    LET turn   == Merge(try.prefix, got)
        budget == IF chainMode THEN MaxAttempts ELSE MaxRetries
    IN /\ pc = "stream"
       /\ IF turn # <<>> \/ calls
          THEN /\ Finish("ok", Merge(contFrom, turn))
               /\ UNCHANGED <<inputVars, cloudOver, visitVars, try, skip, ui, tripped>>
          ELSE IF try.attempt < budget THEN Retry(try)
          ELSE IF chainMode THEN Failover(badOrigins, FALSE, <<>>)
          ELSE Terminate("terminal")

\* The server reports a doom loop, at any point of the stream.
DoomLooped ==
    /\ pc = "stream" /\ ~Current.host
    /\ IF try.doom < DoomLoopRetries
       THEN Retry([try EXCEPT !.doom = @ + 1])
       ELSE Terminate("terminal")

\* The tool calls a silent stream may have begun: the server's own, and the
\* client's, with arguments that parse or do not.
CallKinds == {"server", "complete", "incomplete"}

\* should_accept_partial_as_complete
IsHop(calls) == "complete" \in calls /\ "incomplete" \notin calls

\* can_prefix_continue
Continuable(text, calls) == text # <<>> /\ calls = {}

\* The stream falls silent: accepted as it is when its client tool calls are
\* complete, continued once when it is text alone, given up otherwise.  Nothing
\* watches over the silence of a host.
IdleTimeout(calls) ==
    LET combined    == Merge(try.prefix, got)
        continuable == Continuable(combined, calls)
    IN /\ pc = "stream" /\ ~Current.host
       /\ IF IsHop(calls)
          THEN /\ Finish("ok", Merge(contFrom, combined))
               /\ UNCHANGED <<inputVars, cloudOver, visitVars, try, skip, ui, tripped>>
          ELSE IF ~try.continued /\ continuable
          THEN /\ pc' = "send"
               /\ try' = [try EXCEPT !.continued = TRUE, !.attempt = @ - 1, !.prefix = combined]
               /\ skip' = combined
               /\ reply' = <<>> /\ got' = <<>>
               /\ lost' = (lost \/ BrokeInRepeat)
               /\ UNCHANGED <<inputVars, cloudOver, visitVars, ui, tripped, result>>
          ELSE IF chainMode
          THEN Failover(badOrigins, FALSE, IF continuable THEN combined ELSE <<>>)
          ELSE Terminate("terminal")

\* Any other stream error.  A failure the host declares to be its own (it has
\* sent nothing yet) is the provider's.
StreamFails ==
    /\ pc = "stream"
    /\ \/ Terminate("terminal")
       \/ Current.host /\ got = <<>> /\ Failover(badOrigins, TRUE, <<>>)

\* The provider's share of the operation deadline is spent.  The last slot of
\* the plan has no share of its own.
ShareSpent ==
    /\ timed /\ i < Len(plan)
    /\ pc \in {"send", "stream"}
    /\ Failover(badOrigins, FALSE, <<>>)

\* The caller drops the operation: cancelled, or its own deadline.
Abandon ==
    /\ pc # "done"
    /\ Terminate("dropped")

Next ==
    \/ CloudPhaseEnds
    \/ SkipSlot \/ SkipUnfit \/ StartVisit \/ OutOfSlots
    \/ OpenStream \/ Vetoed \/ ConnectFailed \/ FatalStatus
    \/ RateLimited \/ RetryableError
    \/ \E n \in 1 .. Len(reply) : Delta(n)
    \/ \E calls \in BOOLEAN : StreamEnds(calls)
    \/ DoomLooped
    \/ \E calls \in SUBSET CallKinds : IdleTimeout(calls)
    \/ StreamFails \/ ShareSpent \/ Abandon

Spec == Init /\ [][Next]_vars

\* Streams have an idle timeout and requests a timeout of their own, so every
\* await of an HTTP visit comes back.  A host is taken to end each stream it was
\* asked for: the code has no timeout of its own for it.
FairSpec == Spec /\ WF_vars(Next)

-----------------------------------------------------------------------------

\* What the observer of a successful agent turn was shown, over any number of
\* silent streams continued on the same provider and then on the next ones, is
\* the text of the turn, unless a stream's text was given up (by a doom-loop
\* resample, a deadline share, a failed continuation) or a model broke off
\* while repeating: merge_continued_turn then appends what it had repeated,
\* although the observer was not shown it again.
UiIsTurn == result.kind = "ok" /\ ~oneShot /\ ~lost => ui = result.text

\* Requests within one visit: the attempt budget, one more per doom-loop
\* resample, and the continuation on top (which gives its attempt back).
\* "Each provider is limited to failover_max_attempts."
VisitBudget == try.attempt <= (IF chainMode THEN MaxAttempts ELSE MaxRetries + 1) + try.doom

\* An agent turn whose output was shown crosses from the cloud to a local model
\* only when the slot the failure handler looked at was passed over since.
LocalSwitchGuarded ==
    [][ pc = "pick" /\ pc' = "send" /\ ~oneShot /\ ui # <<>>
        /\ Current.host /\ Current.tier > maxTier
           => tripped[Len(tripped)] # i - 1 ]_vars

\* Whatever the errors, silences, deadlines and continuations, the operation
\* comes to an end.
Terminates == <>(pc = "done")

\* The operation as the router sees it: its visits in the order of the plan,
\* each reported at most once.
Visits == INSTANCE VisitLoop WITH
    size     <- Len(plan),
    pos      <- IF pc = "done" THEN Len(plan) + 1 ELSE i,
    restored <- IF result.kind = "ok" THEN i ELSE 0
VisitSpec == Visits!Spec

=============================================================================
