------------------------------ MODULE Requests ------------------------------
(***************************************************************************)
(* A session's history and the requests made from it: a user's turn is     *)
(* checked and appended, every model call encodes the whole history for    *)
(* the slot that is visited, an answer is appended under its maker's       *)
(* compatibility key, tools answer the calls, and what a turn does not     *)
(* save is gone with it (engine.rs run_turn, conversation_request;         *)
(* llm/client.rs rewrite_request_for).                                     *)
(***************************************************************************)
EXTENDS WireRequests

CONSTANTS Slots,        \* [key, wire, window, search]: key of a wire, window 0 for none
          ConfigSlot,   \* the provider of the engine's own config
          Functions,    \* the function tools registered, web_search among them
          Inputs,       \* the shapes a host submits, legal or not
          MaxItems      \* bound: births of items
ASSUME SlotAssumption ==
  /\ \A s \in Slots : s.wire \in {"responses", "messages", "gemini", "chat"}
                      /\ s.window \in Nat /\ s.search \subseteq {"web_search", "x_search"}
  /\ ConfigSlot \in Slots /\ MaxItems \in Nat
  /\ Inputs \subseteq Seq({"text", "image", "audio", "broken"})

VARIABLES history,      \* session.items
          saved,        \* the items of the session's file
          phase,        \* where run_turn stands
          born,         \* items born so far: their n
          lost,         \* user items whose attachment is gone from the disk
          sent          \* the last request: its slot and what was encoded

vars == <<history, saved, phase, born, lost, sent>>

NoSlot == [key |-> "", wire |-> "", window |-> 0, search |-> {}]
NothingSent == [slot |-> NoSlot, tools |-> {}, body |-> Refused("unsent")]
Primary == ConfigSlot.key

(* A session written before origins were kept may be loaded.               *)
Legacy == <<UserItem(-2, <<"text">>), ReasoningItem(-1),
            AssistantItem(-1, <<<<"text", -1>>>>, <<>>, "text")>>

Init ==
  /\ saved \in {<<>>, Legacy}
  /\ history = saved
  /\ phase = "idle" /\ born = 0 /\ lost = {} /\ sent = NothingSent

(* run_turn up to its loop: validate_shape, then the media of the turn     *)
(* itself are read once, so that a bad one fails the turn and not a        *)
(* request.                                                                *)
UserTurn(parts) ==
  /\ phase = "idle" /\ born < MaxItems
  /\ ValidShape(parts) /\ Readable(parts)
  /\ born' = born + 1
  /\ history' = Append(saved, UserItem(born + 1, parts))
  /\ phase' = "request"
  /\ UNCHANGED <<saved, lost, sent>>

(* conversation_request reads the media of every turn again, before any    *)
(* slot is looked at.                                                      *)
MediaMissing(items) == \E i \in 1 .. Len(items) : items[i].k = "user" /\ items[i].n \in lost

(* One visit: rewrite_request_for and the slot's adapter.  After an error  *)
(* the next slot may be visited with the same items.  Functions that the   *)
(* config's hosted tools shadow were left out before any slot was chosen.  *)
Request(slot) ==
  /\ phase \in {"request", "sent"}
  /\ LET items == Rewrite(<<SystemItem(0)>> \o history, slot, Primary, FALSE)
         body == IF MediaMissing(history) THEN Refused("AttachmentMissing")
                 ELSE IF items = TooLong THEN Refused("LocalContextExceeded")
                 ELSE Encode(slot.wire, items)
         offered == FunctionTools(Functions, ConfigSlot)
     IN  sent' = [slot |-> slot, tools |-> FunctionTools(offered, slot), body |-> body]
  /\ phase' = "sent"
  /\ UNCHANGED <<history, saved, born, lost>>

(* What an answer may hold, by the wire it came on.                        *)
Thinking(wire) == IF wire = "messages" THEN {"none", "text", "sealed"} ELSE {"none", "text"}
Hosting(wire) == CASE wire = "responses" -> {"no", "done", "open"}
                   [] wire = "messages"  -> {"no", "done"}
                   [] OTHER              -> {"no"}
CallKinds(wire) ==
  {<<>>, <<"function", IF wire = "responses" THEN "custom_tool" ELSE "function">>}

(* The items of one answer: reasoning, hosted calls, the assistant.        *)
AnswerItems(n, wire, think, hosted, kinds) ==
  LET calls == [i \in 1 .. Len(kinds) |-> Call(n, i, kinds[i], wire = "gemini")]
  IN  (IF think = "text" THEN <<ReasoningItem(n)>> ELSE <<>>)
      \o (IF hosted = "no" THEN <<>> ELSE <<HostedItem(n, hosted = "open")>>)
      \o <<AssistantItem(n, <<<<"text", n>>>>, calls, think)>>

(* stamp_origin marks the last assistant of the answer.                    *)
Stamped(items, key) ==
  LET last == Max({i \in 1 .. Len(items) : items[i].k = "assistant"})
  IN  [items EXCEPT ![last].origin = key]

Answer(think, hosted, kinds) ==
  /\ phase = "sent" /\ sent.body.error = "none" /\ born < MaxItems
  /\ think \in Thinking(sent.slot.wire) /\ hosted \in Hosting(sent.slot.wire)
  /\ kinds \in CallKinds(sent.slot.wire)
  /\ LET items == Salvaged(Stamped(
                    AnswerItems(born + 1, sent.slot.wire, think, hosted, kinds), sent.slot.key))
         calls == Last(items).calls
     IN  /\ history' = history \o items
         /\ phase' = IF calls = <<>> THEN "idle" ELSE "tools"
         /\ saved' = IF calls = <<>> THEN history' ELSE saved
  /\ born' = born + 1 /\ sent' = NothingSent
  /\ UNCHANGED lost

(* The calls answer in their order; then the nudge, if one is due, and the *)
(* save.                                                                   *)
ToolsReturn(nudged) ==
  /\ phase = "tools" /\ born < MaxItems
  /\ LET calls == Last(history).calls
         results == [i \in 1 .. Len(calls) |-> ResultItem(born + 1, calls[i].id)]
     IN  history' = history \o results
                    \o (IF nudged THEN <<SystemItem(born + 1)>> ELSE <<>>)
  /\ saved' = history'
  /\ born' = born + 1
  /\ phase' = "request"
  /\ UNCHANGED <<lost, sent>>

(* A request no slot could serve, a provider's error or a cancel ends the  *)
(* turn: the next one loads what was saved.                                *)
Fail ==
  /\ phase # "idle"
  /\ history' = saved
  /\ phase' = "idle" /\ sent' = NothingSent
  /\ UNCHANGED <<saved, born, lost>>

(* The host clears an attachment from its directory, while no turn runs.   *)
FileLost(i) ==
  /\ phase = "idle" /\ history[i].k = "user" /\ \E m \in Media : Has(m, history[i])
  /\ lost' = lost \cup {history[i].n}
  /\ UNCHANGED <<history, saved, phase, born, sent>>

Next ==
  \/ \E parts \in Inputs : UserTurn(parts)
  \/ \E slot \in Slots : Request(slot)
  \/ \E think \in {"none", "text", "sealed"}, hosted \in {"no", "done", "open"},
        kinds \in UNION {CallKinds(w) : w \in {"responses", "chat"}} : Answer(think, hosted, kinds)
  \/ \E nudged \in BOOLEAN : ToolsReturn(nudged)
  \/ Fail
  \/ \E i \in 1 .. Len(history) : FileLost(i)

Spec == Init /\ [][Next]_vars

-----------------------------------------------------------------------------
(* Sent requests, read as the providers read them.                         *)
Delivered == phase = "sent" /\ sent.body.error = "none"
Whole == Delivered /\ sent.slot.window = 0
Flat == FlattenSeq([i \in 1 .. Len(sent.body.out) |-> sent.body.out[i].parts])
CallTags == {"call", "signed_call", "custom_call"}
AnswerTags == {"answer", "custom_answer"}
AnswerTo(tag) == IF tag = "custom_call" THEN "custom_answer" ELSE "answer"

(* Every call of a request is followed, before anything else is said, by   *)
(* its answer, and every answer follows its call; where a message holds    *)
(* several, one message answers them all: what Messages and Gemini reject  *)
(* a request for, and what failover, salvage and nudges could disturb.     *)
CallsAnswered ==
  Whole =>
    /\ \A i \in 1 .. Len(Flat) : Flat[i][1] \in CallTags =>
         \E j \in i + 1 .. Len(Flat) :
           /\ Flat[j] = <<AnswerTo(Flat[i][1]), Flat[i][2]>>
           /\ \A k \in i + 1 .. j - 1 : Flat[k][1] \in CallTags \cup AnswerTags
    /\ \A j \in 1 .. Len(Flat) : Flat[j][1] \in AnswerTags \cup {"unknown_answer"} =>
         \E i \in 1 .. j - 1 : Flat[i][1] \in CallTags /\ Flat[i][2] = Flat[j][2]
    /\ sent.slot.wire \in {"messages", "gemini"} =>
         LET out == sent.body.out
             idsIn(m, tags) == {out[m].parts[p][2] : p \in {q \in 1 .. Len(out[m].parts) :
                                                            out[m].parts[q][1] \in tags}}
         IN  \A m \in 1 .. Len(out) : idsIn(m, CallTags) # {} =>
               m < Len(out) /\ idsIn(m + 1, AnswerTags) = idsIn(m, CallTags)

\* Where a message to Anthropic has its thinking.
ThinkingFirst ==
  Whole /\ sent.slot.wire = "messages" =>
    \A m \in 1 .. Len(sent.body.out) :
      LET parts == sent.body.out[m].parts
          thinks == {p \in 1 .. Len(parts) : parts[p][1] = "think"}
      IN  /\ Cardinality(thinks) <= 1
          /\ \A p \in thinks : \A q \in 1 .. p : parts[q][1] \notin CallTags

\* The provider an item's reasoning can be read by.
Maker(n) ==
  LET of == {i \in 1 .. Len(history) : history[i].k = "assistant" /\ history[i].n = n}
      origin == history[Max(of)].origin
  IN  IF origin = "" THEN Primary ELSE origin

(* What only its maker can read goes to no other: thinking, hosted calls   *)
(* and signatures of an answer are sent to its compatibility key alone,    *)
(* whatever slots the session went through (failover.rs, I4).  A message   *)
(* to Anthropic has one thinking block at most, before its calls           *)
(* (wire/messages.rs: "Thinking block must precede tool_use"), although    *)
(* reasoning reaches the encoder as an item, on the assistant, or as both. *)
ReasoningInPlace ==
  /\ ThinkingFirst
  /\ Delivered => \A m \in 1 .. Len(sent.body.out) :
       \A p \in 1 .. Len(sent.body.out[m].parts) :
         LET part == sent.body.out[m].parts[p] IN
         /\ part[1] \in {"think", "hosted"} => Maker(part[2]) = sent.slot.key
         /\ part[1] = "signed_call" => Maker(part[2][1]) = sent.slot.key

(* Whatever the wire, a provider is told the whole conversation: every     *)
(* text, attachment, hosted call, call and answer of the history, once and *)
(* in order, and every system text.                                        *)
ItemParts(item) ==
  CASE item.k = "user"      -> Tagged(NormalizedParts(item.parts), item.n)
    [] item.k = "hosted"    -> <<<<"hosted", item.n>>>>
    [] item.k = "assistant" -> item.parts \o CallsOf(item)
    [] item.k = "result"    -> <<<<"answer", item.calls[1]>>>>
    [] OTHER                -> <<>>

Plain(part) ==
  CASE part[1] \in CallTags     -> <<"call", part[2]>>
    [] part[1] = "custom_answer" -> <<"answer", part[2]>>
    [] part[1] = "summary"       -> <<"hosted", part[2]>>
    [] OTHER                     -> part

Told == FlattenSeq([i \in 1 .. Len(Flat) |->
                      IF Flat[i][1] \in {"think", "system"} THEN <<>> ELSE <<Plain(Flat[i])>>])
SystemsTold == Len(sent.body.system) + Cardinality({i \in 1 .. Len(Flat) : Flat[i][1] = "system"})
HasAudio == \E i \in 1 .. Len(history) : history[i].k = "user" /\ Has("audio", history[i])
SystemsOf(items) == {i \in 1 .. Len(items) : items[i].k = "system"}

NothingLost ==
  Whole /\ ~(sent.slot.wire = "chat" /\ HasAudio) =>
    /\ Told = FlattenSeq([i \in 1 .. Len(history) |-> ItemParts(history[i])])
    /\ SystemsTold = 1 + Cardinality(SystemsOf(history))

(* A request to a provider with a small window still holds the turn being  *)
(* answered (context_budget.rs: "Never drops the current user input").     *)
CurrentTurnSent ==
  Delivered =>
    LET users == {i \in 1 .. Len(history) : history[i].k = "user"}
        u == history[Max(users)]
    IN  \A p \in 1 .. Len(u.parts) : Contains(Told, <<u.parts[p], u.n>>)
=============================================================================
