---------------------------- MODULE WireStreams ----------------------------
(***************************************************************************)
(* How the four wire protocols send one turn, and how their adapters       *)
(* decode it (llm/wire/*.rs).  The provider is external: its events are    *)
(* given as a set with a partial order, because gateways repeat, reorder   *)
(* and renumber them; Decode is the adapter's parse_event.                 *)
(*                                                                         *)
(* A turn is a sequence of items: "text", "think", or a tool, whose kind   *)
(* is KindOf[tool].  Positions count from 0, as output indices do.         *)
(***************************************************************************)
EXTENDS TurnAssembly

CONSTANTS
  Tools,        \* the calls a model may make in a turn
  KindOf,       \* "function" | "custom_tool" | "local_shell" | "server" (hosted search)
  Bare          \* tools called without arguments

ASSUME ToolsAssumption ==
  /\ KindOf \in [Tools -> {"function", "custom_tool", "local_shell", "server"}]
  /\ Bare \subseteq Tools

Args(c) == IF c \in Bare THEN <<>> ELSE [k \in 1 .. Pieces |-> <<c, k>>]
Piece(c, k) == << <<c, k>> >>
CallId(c) == <<"call", c>>
ItemId(c) == <<"item", c>>

Positions(turn) == 0 .. Len(turn) - 1
At(turn, p) == turn[p + 1]
ToolAt(turn, p) == p \in Positions(turn) /\ At(turn, p) \in Tools
(* The number of tool calls before position p: Chat Completions counts     *)
(* calls only.                                                             *)
Ordinal(turn, p) == Cardinality({q \in 0 .. p - 1 : ToolAt(turn, q)})

(***************************************************************************)
(* A gateway between the provider and the client:                          *)
(*   index  - output_index of argument events: "true", "zero" (left out,   *)
(*            so 0) or "ordinal" (renumbered without the non-tool items)   *)
(*   ids    - argument events carry item_id                                *)
(*   deltas - arguments are streamed, not only sent as snapshots           *)
(*   early  - an argument event may overtake the item's `added`            *)
(*   done   - items and arguments are repeated as `done` snapshots         *)
(*   final  - the terminal output: "full", "bare" (`{}` for the arguments  *)
(*            of functions) or "none"                                      *)
(*   whole  - Gemini: one chunk for the turn; Chat, Messages, Responses:   *)
(*            a buffered response                                          *)
(***************************************************************************)
Gateway(index, ids, deltas, early, done, final, whole) ==
  [index |-> index, ids |-> ids, deltas |-> deltas, early |-> early, done |-> done,
   final |-> final, whole |-> whole]

Event(t, p, k) == [t |-> t, p |-> p, k |-> k]

ItemEvents(turn, g, p) ==
  LET c == At(turn, p) IN
  CASE c = "text"  -> {Event("text", p, 0)}
    [] c = "think" -> {Event("think", p, 0)} \cup (IF g.done THEN {Event("item", p, 0)} ELSE {})
    [] c \in Tools /\ KindOf[c] = "server" ->
         {Event(t, p, 0) : t \in {"added", "progress", "done"}}
    [] c \in Tools /\ KindOf[c] = "local_shell" -> {Event(t, p, 0) : t \in {"added", "done"}}
    [] OTHER ->
         {Event("added", p, 0)}
         \cup (IF g.deltas THEN {Event("args", p, k) : k \in 1 .. Len(Args(c))} ELSE {})
         \cup (IF g.done THEN {Event("argsdone", p, 0), Event("done", p, 0)} ELSE {})

ResponsesEvents(turn, g) ==
  (UNION {ItemEvents(turn, g, p) : p \in Positions(turn)}) \cup {Event("end", Len(turn), 0)}

(* Chat Completions and Messages: text, reasoning, the start of a call and *)
(* fragments bound to it by position only.                                 *)
PartEvents(turn, p) ==
  LET c == At(turn, p) IN
  IF c \in Tools
  THEN {Event("start", p, 0)} \cup {Event("args", p, k) : k \in 1 .. Len(Args(c))}
  ELSE {Event(c, p, 0)}

IndexedEvents(turn) ==
  (UNION {PartEvents(turn, p) : p \in Positions(turn)}) \cup {Event("end", Len(turn), 0)}

Events(wire, turn, g) ==
  CASE g.whole -> {Event("whole", 0, 0)}
    [] ~g.whole /\ wire = "gemini" -> {Event("part", p, 0) : p \in Positions(turn)}
    [] ~g.whole /\ wire = "responses" -> ResponsesEvents(turn, g)
    [] OTHER -> IndexedEvents(turn)

Rank(e) ==
  CASE e.t \in {"added", "start"} -> 0
    [] e.t \in {"args", "think", "text", "progress", "part"} -> 1
    [] e.t = "argsdone" -> 2
    [] e.t \in {"done", "item"} -> 3
    [] OTHER -> 4

(* Gemini sends its parts in order; elsewhere only the events of one item  *)
(* are ordered, and items of a gateway that reorders not even against      *)
(* their own `added`.                                                      *)
Before(wire, g, e, f) ==
  \/ f.t = "end" /\ e.t # "end"
  \/ wire = "gemini" /\ e.p < f.p
  \/ /\ e.p = f.p
     /\ \/ Rank(e) < Rank(f) /\ ~(g.early /\ e.t = "added" /\ f.t = "args")
        \/ e.t = "args" /\ f.t = "args" /\ e.k < f.k
  \/ e.t \in {"added", "start"} /\ f.t \in {"added", "start"} /\ e.p < f.p
  \/ e.t \in {"text", "think"} /\ f.t \in {"text", "think"} /\ e.p < f.p

(***************************************************************************)
(* The adapters.                                                           *)
(***************************************************************************)
ArgsIndex(turn, g, p) ==
  CASE g.index = "true" -> p
    [] g.index = "zero" -> 0
    [] OTHER -> Ordinal(turn, p)

(* tool_delta_from_output_item: a function call has both ids, a hosted     *)
(* search its item id, the others their call id only.                      *)
ItemDelta(turn, p, args) ==
  LET c == At(turn, p) IN
  CASE KindOf[c] = "function" -> Delta(p, CallId(c), ItemId(c), "function", c, args)
    [] KindOf[c] = "server"   -> Delta(p, ItemId(c), NoId, "server", c, args)
    [] OTHER                  -> Delta(p, CallId(c), NoId, KindOf[c], c, args)

(* function_call_arguments_event, and custom_tool_call_input.delta, which  *)
(* reads no item_id.                                                       *)
ArgsDelta(turn, g, p, args) ==
  LET c == At(turn, p) IN
  CASE KindOf[c] = "function" ->
         Delta(ArgsIndex(turn, g, p), NoId, IF g.ids THEN ItemId(c) ELSE NoId,
               "function", NoName, args)
    [] OTHER -> Delta(ArgsIndex(turn, g, p), NoId, NoId, "custom_tool", NoName, args)

(* parse_output_item over the terminal output.                             *)
OutputItems(turn, g) ==
  [n \in 1 .. Len(turn) |->
     LET c == turn[n] IN
     CASE c = "text"  -> [kind |-> "message", id |-> NoId, name |-> NoName, args |-> <<n - 1>>]
       [] c = "think" -> [kind |-> "reasoning", id |-> ItemId(c), name |-> NoName, args |-> <<>>]
       [] OTHER -> [kind |-> KindOf[c],
                    id   |-> IF KindOf[c] = "server" THEN ItemId(c) ELSE CallId(c),
                    name |-> c,
                    args |-> IF g.final = "full" \/ KindOf[c] # "function" THEN Args(c) ELSE <<>>]]

Calls(seq) == [EmptyChunk EXCEPT !.calls = seq]
Texts(p) == [EmptyChunk EXCEPT !.text = <<p>>]
Thinks(p) == [EmptyChunk EXCEPT !.think = <<p>>]

(* An item as announced, without the arguments of a hosted call or a       *)
(* placeholder for them, and as done, with what it was called with.        *)
DecodeItem(turn, e) ==
  LET c == At(turn, e.p) IN
  CASE e.t = "item" -> [EmptyChunk EXCEPT !.items = <<ItemId(c)>>]
    [] e.t = "done" -> Calls(<<ItemDelta(turn, e.p, Args(c))>>)
    [] OTHER        -> Calls(<<ItemDelta(turn, e.p, IF KindOf[c] = "local_shell"
                                                    THEN Args(c) ELSE <<>>)>>)

(* The progress of a hosted search names it by its item id only.           *)
DecodeProgress(turn, e) ==
  LET c == At(turn, e.p) IN Calls(<<Delta(e.p, ItemId(c), ItemId(c), "server", c, <<>>)>>)

(* Arguments in fragments, and once more as a snapshot; there is no event  *)
(* that repeats the input of a custom tool.                                *)
DecodeArguments(turn, g, e) ==
  LET c == At(turn, e.p) IN
  CASE e.t = "args" -> Calls(<<ArgsDelta(turn, g, e.p, Piece(c, e.k))>>)
    [] e.t = "argsdone" /\ KindOf[c] = "function" -> Calls(<<ArgsDelta(turn, g, e.p, Args(c))>>)
    [] OTHER -> EmptyChunk

(* The terminal output counts if it has items.                             *)
DecodeTerminal(turn, g) ==
  [EmptyChunk EXCEPT !.final = IF g.final = "none" THEN <<>> ELSE OutputItems(turn, g)]

(* parse_responses_chunk *)
DecodeResponses(turn, g, e) ==
  CASE e.t = "text"     -> Texts(e.p)
    [] e.t = "think"    -> Thinks(e.p)
    [] e.t = "progress" -> DecodeProgress(turn, e)
    [] e.t \in {"args", "argsdone"} -> DecodeArguments(turn, g, e)
    [] e.t \in {"item", "added", "done"} -> DecodeItem(turn, e)
    [] OTHER            -> DecodeTerminal(turn, g)

(* ChatCompletionChunk itself, and parse_messages_chunk: both know a call  *)
(* by its position after its start.  Chat gateways may leave out `type`.   *)
CallIndex(wire, turn, p) == IF wire = "messages" THEN p ELSE Ordinal(turn, p)

DecodeIndexed(wire, turn, e) ==
  LET idx == CallIndex(wire, turn, e.p)
      c == At(turn, e.p)
  IN  CASE e.t = "text"  -> Texts(e.p)
        [] e.t = "think" -> Thinks(e.p)
        [] e.t = "start" -> Calls(<<Delta(idx, CallId(c), NoId,
                                          IF wire = "messages" THEN "function" ELSE "",
                                          c, <<>>)>>)
        [] e.t = "args"  -> Calls(<<Delta(idx, NoId, NoId, "", NoName, Piece(c, e.k))>>)
        [] OTHER         -> EmptyChunk

(* parse_gemini_chunk over the parts of one chunk: a call's id and index   *)
(* are its position among them.                                            *)
DecodeParts(turn, first, last) ==
  LET in(items) == InOrder({p \in first .. last : At(turn, p) \in items})
      calls == in(Tools)
  IN  [EmptyChunk EXCEPT
         !.text = in({"text"}), !.think = in({"think"}),
         !.calls = [n \in 1 .. Len(calls) |->
                      LET part == calls[n] - first
                          c == At(turn, calls[n])
                      IN  Delta(part, <<"call_", part>>, NoId, "function", c, Args(c))]]

(* parse_messages_response gives every call its block's position;          *)
(* parse_chat_completions_response takes message.tool_calls as they are,   *)
(* and those of a message have no index (ToolCallDelta.index: serde        *)
(* default 0).                                                             *)
WholeIndex(wire, turn, p) == IF wire = "messages" THEN p ELSE 0

DecodeWhole(wire, turn) ==
  LET where(items) == InOrder({p \in Positions(turn) : At(turn, p) \in items})
      calls == where(Tools)
  IN  [EmptyChunk EXCEPT
         !.text = where({"text"}), !.think = where({"think"}),
         !.calls = [n \in 1 .. Len(calls) |->
                      LET c == At(turn, calls[n])
                      IN  Delta(WholeIndex(wire, turn, calls[n]), CallId(c), NoId,
                                "function", c, Args(c))]]

(* parse_event and parse_response of the adapter for the wire.  A buffered *)
(* Responses answer goes through its terminal-event parser.                *)
Decode(wire, turn, g, e) ==
  CASE e.t = "whole" /\ wire = "gemini" ->
         DecodeParts(turn, 0, Len(turn) - 1)
    [] e.t = "whole" /\ wire = "responses" ->
         DecodeResponses(turn, [g EXCEPT !.final = "full"], Event("end", 0, 0))
    [] e.t = "whole" /\ wire \in {"chat", "messages"} -> DecodeWhole(wire, turn)
    [] e.t = "part" -> DecodeParts(turn, e.p, e.p)
    [] OTHER -> IF wire = "responses" THEN DecodeResponses(turn, g, e)
                ELSE DecodeIndexed(wire, turn, e)
=============================================================================
