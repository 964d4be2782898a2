---------------------------- MODULE WireRequests ----------------------------
(***************************************************************************)
(* What a provider is sent: the items of a history rewritten for a slot    *)
(* (llm/client.rs, failover.rs, context_budget.rs) and encoded by one of   *)
(* the four wire adapters (llm/wire/*.rs).                                 *)
(*                                                                         *)
(* Data: an item carries the number n of the turn it was born in; its      *)
(* parts are tags.  What a payload says is a sequence of messages, each    *)
(* a sequence of parts <<tag, n>>, so that a part can be traced back.      *)
(***************************************************************************)
EXTENDS Integers, Sequences, SequencesExt, FiniteSetsExt

CONSTANTS MaxMedia,    \* MAX_IMAGES_PER_TURN, MAX_AUDIOS_PER_TURN
          InlineCap    \* GEMINI_INLINE_MAX_BYTES, in images of one size
ASSUME RequestAssumption == MaxMedia \in Nat \ {0} /\ InlineCap \in Nat

(* ConversationItem.  parts: of a user "image", "audio", "text"; of an     *)
(* assistant its text and the hosted calls folded into it, as <<tag, n>>.  *)
(* think: what an assistant keeps of its reasoning, "text"                 *)
(* (reasoning_content), "sealed" (encrypted_reasoning only) or "none".     *)
(* A call has an id <<n, i>>, a kind, and possibly a thought signature; a  *)
(* result knows its call by the id alone.                                  *)
Item(k, n, parts, calls, think, origin) ==
  [k |-> k, n |-> n, parts |-> parts, calls |-> calls, think |-> think, origin |-> origin]

SystemItem(n) == Item("system", n, <<>>, <<>>, "none", "")
UserItem(n, parts) == Item("user", n, parts, <<>>, "none", "")
ReasoningItem(n) == Item("reasoning", n, <<>>, <<>>, "text", "")
HostedItem(n, open) == Item("hosted", n, IF open THEN <<"open">> ELSE <<>>, <<>>, "none", "")
AssistantItem(n, parts, calls, think) == Item("assistant", n, parts, calls, think, "")
ResultItem(n, id) == Item("result", n, <<>>, <<id>>, "none", "")

Call(n, i, kind, signed) == [id |-> <<n, i>>, kind |-> kind, signed |-> signed]
Media == {"image", "audio"}
CountOf(tag, parts) == Cardinality({i \in 1 .. Len(parts) : parts[i] = tag})
Has(tag, item) == \E i \in 1 .. Len(item.parts) : item.parts[i] = tag

\* The elements of a sequence that are in a set, in their order.
Keep(s, set) == FlattenSeq([i \in 1 .. Len(s) |-> IF s[i] \in set THEN <<s[i]>> ELSE <<>>])

(* UserItem::validate_shape *)
ValidShape(parts) ==
  /\ parts # <<>>
  /\ CountOf("image", parts) <= MaxMedia
  /\ CountOf("audio", parts) <= MaxMedia

\* A "broken" attachment is not what its declaration says.
Readable(parts) == CountOf("broken", parts) = 0

(* UserItem::normalized_parts: media before text.                          *)
NormalizedParts(parts) ==
  Keep(parts, Media) \o Keep(parts, {"text"})

(***************************************************************************)
(* Rewriting for a provider.                                               *)
(***************************************************************************)
\* turn_groups: reasoning and hosted calls belong to the assistant after them.
GroupEnd(items, i) ==
  Min({j \in i .. Len(items) : items[j].k \notin {"reasoning", "hosted"}} \cup {Len(items)})

\* should_strip_origin: an assistant without an origin is the primary's.
ShouldStrip(origin, target, primary) ==
  (IF origin = "" THEN primary ELSE origin) # target

Foreign(items, i, target, primary) ==
  LET a == items[GroupEnd(items, i)]
  IN  a.k = "assistant" /\ ShouldStrip(a.origin, target, primary)

(* The group's hosted calls, as text in front of the assistant's own.      *)
Summaries(items, i) ==
  FlattenSeq([j \in 1 .. i |-> IF GroupEnd(items, j) = i /\ items[j].k = "hosted"
                               THEN <<<<"summary", items[j].n>>>> ELSE <<>>])

Unsigned(calls) == [c \in 1 .. Len(calls) |-> [calls[c] EXCEPT !.signed = FALSE]]

\* The thinking an assistant keeps of its own is left in place.
StripSiblings(assistant, summaries) == [assistant EXCEPT !.parts = summaries \o @]

\* What only its maker can read is dropped.
Strip(assistant, summaries) ==
  [assistant EXCEPT !.parts = summaries \o @, !.think = "none", !.calls = Unsigned(@)]

(* sanitize_items_for_provider: of a foreign group the assistant is left,  *)
(* with its hosted calls as text.                                          *)
Portion(items, i, target, primary) ==
  IF ~Foreign(items, i, target, primary) THEN <<items[i]>>
  ELSE IF items[i].k = "assistant" THEN <<Strip(items[i], Summaries(items, i))>>
  ELSE <<>>

Sanitize(items, target, primary) ==
  FlattenSeq([i \in 1 .. Len(items) |-> Portion(items, i, target, primary)])

\* estimate_item_tokens, in units of one text; media weigh as much.
Tokens(item) == IF item.k = "user" THEN Len(item.parts) ELSE 1
TotalTokens(items) == FoldLeft(LAMBDA sum, item : sum + Tokens(item), 0, items)

(* protected_suffix_start: the current turn.                               *)
ProtectedFrom(items) ==
  LET stops == {j \in 1 .. Len(items) :
                  items[j].k = "user" \/ (items[j].k = "assistant" /\ items[j].calls = <<>>)}
  IN  IF stops = {} THEN 1
      ELSE IF items[Max(stops)].k = "user" THEN Max(stops) ELSE Max(stops) + 1

(* first_droppable_index: keepFrom is a position of the untrimmed items,   *)
(* whatever was removed since.                                             *)
Droppable(items, keepFrom) ==
  {i \in 1 .. Len(items) : i < keepFrom /\ items[i].k \notin {"system", "reasoning"}}

TooLong == <<"LocalContextExceeded">>

(* trim_history_to_window *)
Trim(items, budget) ==
  LET keepFrom == ProtectedFrom(items)
      drop(out) ==
        IF TotalTokens(out) <= budget \/ Droppable(out, keepFrom) = {} THEN out
        ELSE RemoveAt(out, Min(Droppable(out, keepFrom)))
      kept[n \in 0 .. Len(items)] == IF n = 0 THEN items ELSE drop(kept[n - 1])
      trimmed == kept[Len(items)]
  IN  IF TotalTokens(trimmed) <= budget THEN trimmed ELSE TooLong

(* rewrite_request_for: an agent's history is trimmed, a one-shot's        *)
(* refused.                                                                *)
Rewrite(items, slot, primary, oneShot) ==
  LET own == Sanitize(items, slot.key, primary)
  IN  IF slot.window = 0 THEN own
      ELSE IF ~oneShot THEN Trim(own, slot.window)
      ELSE IF TotalTokens(own) <= slot.window THEN own ELSE TooLong

(* HostedTool::for_conversation_request and drop_colliding_function_tools. *)
HostedTools(slot) == IF slot.wire = "responses" THEN slot.search ELSE {}
FunctionTools(tools, slot) == tools \ HostedTools(slot)

(***************************************************************************)
(* Encoding.                                                               *)
(***************************************************************************)
Message(role, parts) == [role |-> role, parts |-> parts]
IdsOf(items, kinds) ==
  {c.id : c \in {d \in UNION {Range(items[i].calls) : i \in {j \in 1 .. Len(items) :
                                                             items[j].k = "assistant"}} :
                d.kind \in kinds}}

(* What an encoder keeps: the messages written, model and user parts not   *)
(* yet flushed, and what it can look up of calls: call_kinds of Responses, *)
(* function_name_for_call of Gemini.                                       *)
NewPayload(items) ==
  [system |-> <<>>, out |-> <<>>, model |-> <<>>, user |-> <<>>,
   custom |-> IdsOf(items, {"custom_tool"}),
   named |-> IdsOf(items, {"function", "custom_tool"})]

FlushModel(st) ==
  IF st.model = <<>> THEN st
  ELSE [st EXCEPT !.out = Append(@, Message("model", st.model)), !.model = <<>>]
FlushUser(st) ==
  IF st.user = <<>> THEN st
  ELSE [st EXCEPT !.out = Append(@, Message("user", st.user)), !.user = <<>>]
FlushAll(st) == FlushUser(FlushModel(st))

\* All but Chat send the system texts in a field of their own.
Apart(st, item) == [st EXCEPT !.system = Append(@, item.n)]

Say(st, role, parts) == [st EXCEPT !.out = Append(@, Message(role, parts))]
Pend(st, parts) == [st EXCEPT !.model = @ \o parts]

Tagged(parts, n) == [i \in 1 .. Len(parts) |-> <<parts[i], n>>]
CallsOf(a) == [i \in 1 .. Len(a.calls) |-> <<"call", a.calls[i].id>>]
SignedCallsOf(a) ==
  [i \in 1 .. Len(a.calls) |->
     <<IF a.calls[i].signed THEN "signed_call" ELSE "call", a.calls[i].id>>]

\* *_user_content of wire/mod.rs: the text alone, or media first.
TextContent(u) == Tagged(Keep(u.parts, {"text"}), u.n)
UserContent(u) == Tagged(NormalizedParts(u.parts), u.n)

CallTag(call) == IF call.kind = "custom_tool" THEN "custom_call" ELSE "call"

(* build_responses_payload: one input per item, nothing is grouped.  The   *)
(* output of a call has the kind of the call.                              *)
ResponsesStep(st, item) ==
  CASE item.k = "system"    -> Apart(st, item)
    [] item.k = "user"      -> Say(st, "user", UserContent(item))
    [] item.k = "reasoning" -> Say(st, "model", <<<<"think", item.n>>>>)
    [] item.k = "hosted"    -> Say(st, "model", <<<<"hosted", item.n>>>>)
    [] item.k = "result"    ->
         Say(st, "user", <<<<IF item.calls[1] \in st.custom THEN "custom_answer"
                             ELSE "answer", item.calls[1]>>>>)
    [] OTHER ->
         LET said == IF item.parts = <<>> THEN st ELSE Say(st, "model", item.parts)
         IN  [said EXCEPT !.out = @ \o [i \in 1 .. Len(item.calls) |->
                Message("model", <<<<CallTag(item.calls[i]), item.calls[i].id>>>>)]]

(* The assistant of build_messages_payload: thinking first, from the       *)
(* reasoning item before it or, for want of one, from the assistant.       *)
MessagesAssistant(st, item) ==
  LET hasThinking == \E i \in 1 .. Len(st.model) : st.model[i][1] = "think"
      own == IF item.think # "none" /\ ~hasThinking THEN <<<<"think", item.n>>>> ELSE <<>>
  IN  Pend(FlushUser(st), own \o item.parts \o CallsOf(item))

(* build_messages_payload *)
MessagesStep(st, item) ==
  CASE item.k = "system"    -> Apart(FlushAll(st), item)
    [] item.k = "user"      -> Say(FlushAll(st), "user", UserContent(item))
    [] item.k = "reasoning" -> Pend(FlushUser(st), <<<<"think", item.n>>>>)
    [] item.k = "hosted"    -> Pend(FlushUser(st), <<<<"summary", item.n>>>>)
    [] item.k = "assistant" -> FlushModel(MessagesAssistant(st, item))
    [] OTHER -> LET s == FlushModel(st) IN
                [s EXCEPT !.user = Append(@, <<"answer", item.calls[1]>>)]

\* Results wait for the next user message.
ResultsWait(st, item) ==
  CASE item.k = "user"      -> Say(FlushAll(st), "user", UserContent(item))
    [] item.k = "hosted"    -> Pend(st, <<<<"summary", item.n>>>>)
    [] item.k = "assistant" -> FlushModel(Pend(st, item.parts \o CallsOf(item)))
    [] item.k = "result"    -> [st EXCEPT !.user = Append(@, <<"answer", item.calls[1]>>)]
    [] item.k = "system"    -> Apart(st, item)
    [] OTHER                -> st

(* build_gemini_payload: no reasoning, the system text apart; a response   *)
(* names its function, which is looked up in the whole request.            *)
GeminiStep(st, item) ==
  CASE item.k = "system"    -> Apart(st, item)
    [] item.k = "user"      -> Say(FlushAll(st), "user", UserContent(item))
    [] item.k = "reasoning" -> st
    [] item.k = "hosted"    -> Pend(FlushUser(st), <<<<"summary", item.n>>>>)
    [] item.k = "assistant" ->
         FlushModel(Pend(FlushUser(st), item.parts \o SignedCallsOf(item)))
    [] OTHER -> LET s == FlushModel(st) IN
                [s EXCEPT !.user = Append(@, <<IF item.calls[1] \in st.named THEN "answer"
                                               ELSE "unknown_answer", item.calls[1]>>)]

(* user_to_cc_message looks for images only.                               *)
ChatUser(u) == IF Has("image", u) THEN UserContent(u) ELSE TextContent(u)

(* items_to_chat_request: hosted calls wait for the next assistant, or     *)
(* become a message of their own; reasoning rides on the assistant.        *)
ChatStep(st, item) ==
  CASE item.k = "system"    -> Say(FlushModel(st), "system", <<<<"system", item.n>>>>)
    [] item.k = "user"      -> Say(FlushModel(st), "user", ChatUser(item))
    [] item.k = "reasoning" -> st
    [] item.k = "hosted"    -> Pend(st, <<<<"summary", item.n>>>>)
    [] item.k = "assistant" ->
         Say([st EXCEPT !.model = <<>>], "model",
             (IF item.think = "text" THEN <<<<"think", item.n>>>> ELSE <<>>)
             \o st.model \o item.parts \o CallsOf(item))
    [] OTHER -> Say(FlushModel(st), "user", <<<<"answer", item.calls[1]>>>>)

Refused(why) == [system |-> <<>>, out |-> <<>>, error |-> why]
Encoded(st) == [system |-> st.system, out |-> FlushAll(st).out, error |-> "none"]

\* ChatContentPart has no variant for audio, so a message of both fails.
ChatRejects(items) ==
  \E i \in 1 .. Len(items) : items[i].k = "user" /\ Has("image", items[i]) /\ Has("audio", items[i])

\* ImageBytesStore::total_bytes: the images of the whole request, no audio.
InlineImages(items) ==
  FoldLeft(LAMBDA sum, item : sum + (IF item.k = "user" THEN CountOf("image", item.parts) ELSE 0),
           0, items)

WireStep(wire, st, item) ==
  CASE wire = "responses" -> ResponsesStep(st, item)
    [] wire = "messages"  -> MessagesStep(st, item)
    [] wire = "gemini"    -> GeminiStep(st, item)
    [] OTHER              -> ChatStep(st, item)

\* The loop of an adapter over the items.
Written(wire, payload, items) ==
  LET after[n \in 0 .. Len(items)] ==
        IF n = 0 THEN payload ELSE WireStep(wire, after[n - 1], items[n])
  IN  after[Len(items)]

(* adapter_for(backend).build_payload *)
Encode(wire, items) ==
  CASE wire = "chat" /\ ChatRejects(items) -> Refused("InvalidUserTurn")
    [] wire = "gemini" /\ InlineImages(items) > InlineCap -> Refused("PayloadTooLarge")
    [] OTHER -> Encoded(Written(wire, NewPayload(items), items))

(***************************************************************************)
(* What a turn leaves in the history.                                      *)
(***************************************************************************)
(* salvage_unfinished_hosted_searches: a hosted search the stream did not  *)
(* see finished becomes a call of the client's own web_search.             *)
Unfinished(item) == item.k = "hosted" /\ Has("open", item)
Salvaged(items) ==
  LET unfinished == {item \in Range(items) : Unfinished(item)}
      open == Keep(items, unfinished)
      rest == Keep(items, Range(items) \ unfinished)
      last == Len(rest)
  IN  IF open = <<>> THEN items
      ELSE [rest EXCEPT ![last].calls =
              @ \o [i \in 1 .. Len(open) |-> Call(open[i].n, 0, "function", FALSE)]]
=============================================================================
