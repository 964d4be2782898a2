--------------------------- MODULE SessionFormats ---------------------------
(***************************************************************************)
(* The two forms of a stored session: the ordered items of format 2 and    *)
(* the messages of format 1, which hosts still read (conversation.rs,      *)
(* session.rs).  A text is a sequence of words: lines joined are one.      *)
(***************************************************************************)
EXTENDS Integers, Sequences

LOCAL INSTANCE SequencesExt
LOCAL INSTANCE TLC

None == "none"

\* Call: what a tool is called with, and where a backend's item keeps it.
Call(id, server, search, args) == [id |-> id, server |-> server, search |-> search, args |-> args]

SystemItem(text)        == [kind |-> "system", text |-> text]
UserItem(parts)         == [kind |-> "user", parts |-> parts]
ReasoningItem(text, s)  == [kind |-> "reasoning", text |-> text, sealed |-> s]
BackendItem(call, field) == [kind |-> "backend", call |-> call, field |-> field]
ResultItem(id, text)    == [kind |-> "result", call |-> id, text |-> text]
AssistantItem(text, calls, thought, s) ==
    [kind |-> "assistant", text |-> text, calls |-> calls, thought |-> thought, sealed |-> s]

Message(role, text) ==
    [role |-> role, text |-> text, calls |-> <<>>, call |-> None,
     reasoning |-> <<>>, thought |-> <<>>, sealed |-> None]

-----------------------------------------------------------------------------
\* ---- items to messages

\* first_reasoning_text and first_encrypted, of the reasoning before an answer.
ReasoningText(reasoning) == FlattenSeq([i \in DOMAIN reasoning |-> reasoning[i].text])

FirstSealed(reasoning) ==
    LET i == SelectInSeq(reasoning, LAMBDA r : r.sealed # None)
    IN  IF i = 0 THEN None ELSE reasoning[i].sealed

\* backend_to_legacy_tool_call: an item that keeps no arguments is called with
\* none.
LegacyCall(item) == [item.call EXCEPT !.server = TRUE, !.args = IF item.field = None THEN <<>> ELSE @]

\* user_item_to_chat_message: the texts, not the images or the audio.
UserText(item) ==
    FlattenSeq([i \in DOMAIN item.parts |->
                  IF item.parts[i].media THEN <<>> ELSE item.parts[i].text])

\* flush_orphans: reasoning and backend calls that no answer follows are put in
\* a message of their own.
Flush(state) ==
    IF state.reasoning = <<>> /\ state.backend = <<>> THEN state
    ELSE [out       |-> Append(state.out,
                          [Message("assistant", <<>>) EXCEPT
                             !.calls = state.backend, !.reasoning = state.reasoning,
                             !.thought = ReasoningText(state.reasoning),
                             !.sealed = FirstSealed(state.reasoning)]),
          reasoning |-> <<>>,
          backend   |-> <<>>]

AnswerMessage(state, item) ==
    [Message("assistant", item.text) EXCEPT
       !.calls     = state.backend \o item.calls,
       !.reasoning = state.reasoning,
       !.thought   = IF item.thought # <<>> THEN item.thought ELSE ReasoningText(state.reasoning),
       !.sealed    = IF item.sealed # None THEN item.sealed ELSE FirstSealed(state.reasoning)]

TakeItem(state, item) ==
    LET flushed == Flush(state)
        Then(message) == [flushed EXCEPT !.out = Append(@, message)]
    IN  CASE item.kind = "system" -> Then(Message("system", item.text))
          [] item.kind = "user" -> Then(Message("user", UserText(item)))
          [] item.kind = "result" -> Then([Message("tool", item.text) EXCEPT !.call = item.call])
          [] item.kind = "reasoning" -> [state EXCEPT !.reasoning = Append(@, item)]
          [] item.kind = "backend" -> [state EXCEPT !.backend = Append(@, LegacyCall(item))]
          [] item.kind = "assistant" ->
               [out       |-> Append(state.out, AnswerMessage(state, item)),
                reasoning |-> <<>>,
                backend   |-> <<>>]

\* chat_messages_from_items.
ToMessages(items) ==
    Flush(FoldLeft(TakeItem, [out |-> <<>>, reasoning |-> <<>>, backend |-> <<>>], items)).out

-----------------------------------------------------------------------------
\* ---- messages to items

\* build_synthetic_reasoning.
Synthetic(message) ==
    IF message.thought = <<>> /\ message.sealed = None THEN <<>>
    ELSE <<ReasoningItem(message.thought, message.sealed)>>

\* reconstruct_backend_payload: a search keeps its arguments as its action.
Reconstruct(call) ==
    BackendItem(call, IF call.search THEN "action" ELSE "arguments")

FromMessage(message) ==
    LET servers   == SelectSeq(message.calls, LAMBDA c : c.server)
        clients   == SelectSeq(message.calls, LAMBDA c : ~c.server)
        reasoning == IF message.reasoning # <<>> THEN message.reasoning ELSE Synthetic(message)
    IN  CASE message.role = "system" -> <<SystemItem(message.text)>>
          [] message.role = "user" -> <<UserItem(<<[media |-> FALSE, text |-> message.text]>>)>>
          [] message.role = "tool" -> <<ResultItem(message.call, message.text)>>
          [] message.role = "assistant" ->
               reasoning \o [i \in DOMAIN servers |-> Reconstruct(servers[i])]
                 \o <<AssistantItem(message.text, clients, message.thought, message.sealed)>>

\* items_from_chat_messages.
ToItems(messages) == FlattenSeq([i \in DOMAIN messages |-> FromMessage(messages[i])])

-----------------------------------------------------------------------------
\* ---- files and groups

Corrupt == [error |-> TRUE, items |-> <<>>]

\* parse_session_json: the version says which of the two forms a file must have;
\* one without a version is of the first.
Parse(file) ==
    IF file.torn THEN Corrupt
    ELSE IF file.version >= 2
         THEN IF file.form = "items" THEN [error |-> FALSE, items |-> file.content] ELSE Corrupt
    ELSE IF file.form = "messages" THEN [error |-> FALSE, items |-> ToItems(file.content)]
    ELSE Corrupt

\* SessionStore::save, always format 2.
Saved(items) == [torn |-> FALSE, version |-> 2, form |-> "items", content |-> items]

\* SessionStore::list: files that do not parse are left out; the latest first.
Listed(files) ==
    SortSeq(SelectSeq(files, LAMBDA f : ~Parse(f).error), LAMBDA a, b : a.updated > b.updated)

\* turn_groups: what leads to an answer, and the answer.
TurnGroups(items) ==
    LET from[i \in 1 .. Len(items) + 1] ==
          IF i > Len(items) THEN <<>>
          ELSE LET lead == SelectInSubSeq(items, i, Len(items), LAMBDA e :
                             e.kind \notin {"reasoning", "backend"})
                   next == IF lead = 0 THEN Len(items) + 1
                           ELSE IF lead = i \/ items[lead].kind = "assistant" THEN lead + 1
                           ELSE lead
               IN  <<SubSeq(items, i, next - 1)>> \o from[next]
    IN from[1]

\* function_name_for_call: the first answer that made the call.
CallerOf(items, id) ==
    SelectInSeq(items, LAMBDA e :
      e.kind = "assistant" /\ \E c \in DOMAIN e.calls : e.calls[c].id = id)
=============================================================================
