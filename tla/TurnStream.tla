----------------------------- MODULE TurnStream -----------------------------
(***************************************************************************)
(* One response on its way from a provider to a collected turn: the loop   *)
(* of HttpTransport over the events of the connection, with the            *)
(* doom-loop collector in it, the wire's adapter, and collect_stream with  *)
(* the observer it feeds.  The connection delivers the provider's events   *)
(* in any order its gateway allows, may close early, fall silent or break. *)
(***************************************************************************)
EXTENDS WireStreams

CONSTANTS
  Turns,        \* sequences of items a model may produce
  Wires,        \* subset of {"responses", "chat", "messages", "gemini"}
  Gateways,     \* records made with Gateway
  Labels,       \* raw doom-loop triggers `head:arg@channel`: [head, arg, channel]
  MaxThreshold, \* DoomLoopRecoveryPolicy::max_threshold
  MaxChecks     \* bound: different triggers the server reports per stream

(* The calls of a turn are told apart: each has an id of its own.          *)
ASSUME StreamAssumption ==
  /\ Wires \subseteq {"responses", "chat", "messages", "gemini"}
  /\ Gateways \subseteq
       [index : {"true", "zero", "ordinal"}, ids : BOOLEAN, deltas : BOOLEAN, early : BOOLEAN,
        done : BOOLEAN, final : {"full", "bare", "none"}, whole : BOOLEAN]
  /\ Tools \cap {NoName, "text", "think"} = {}
  /\ \A t \in Turns :
       /\ t \in Seq(Tools \cup {"text", "think"})
       /\ \A i, j \in 1 .. Len(t) : t[i] \in Tools /\ t[i] = t[j] => i = j

VARIABLES
  wire, gw, turn,   \* fixed with the request: backend, gateway, what the model says
  sent,             \* events delivered so far
  signals,          \* CollectorState.signals
  col,              \* the variables of collect_stream
  uiText, started,  \* what the observer was shown: text, hosted calls started
  status,           \* "open" | "ok" | "idle" | "failed" | "loop"
  result            \* the turn handed to the retry layer

vars == <<wire, gw, turn, sent, signals, col, uiText, started, status, result>>
fixed == <<wire, gw, turn>>

NoTurn == [calls |-> <<>>, hosted |-> <<>>, items |-> <<>>, text |-> <<>>]

(* Only the Responses API has tools that are not functions.  A buffered    *)
(* Responses answer has no argument events for a gateway to spoil.         *)
Speaks(w, g, t) ==
  /\ w # "responses" =>
       /\ \A n \in 1 .. Len(t) : t[n] \in Tools => KindOf[t[n]] = "function"
       /\ g.index = "true" /\ ~g.early /\ g.deltas
  /\ w = "chat" => \A n \in 1 .. Len(t) : t[n] = "text" => \A m \in 1 .. n - 1 : t[m] # "text"

Init ==
  /\ wire \in Wires /\ gw \in Gateways /\ turn \in Turns
  /\ Speaks(wire, gw, turn)
  /\ sent = {} /\ signals = {} /\ col = NewCollector
  /\ uiText = <<>> /\ started = {} /\ status = "open" /\ result = NoTurn

(***************************************************************************)
(* Server doom-loop reports (llm/doom_loop_wire.rs, doom_loop_collector.rs)*)
(* A frame is the check event by its SSE name or by the `type` of its      *)
(* payload; the terminal event's response may carry the field too.         *)
(***************************************************************************)
NoNumber == -1

(* DoomLoopSignal::parse: what does not fit the grammar is unknown.        *)
SignalKind(raw) ==
  CASE raw.head = "tail_repetition" /\ raw.arg # NoNumber -> "tail_repetition"
    [] raw.head = "low_logprob" /\ raw.arg = NoNumber -> "low_logprob"
    [] OTHER -> "unknown"

(* DoomLoopRecoveryPolicy::is_confident: tight repetition while thinking.  *)
Confident(raw) ==
  /\ SignalKind(raw) = "tail_repetition"
  /\ raw.channel = "thinking"
  /\ raw.arg <= MaxThreshold

AbortTriggers(known) == {raw \in known : Confident(raw)}

Reports == {r \in SUBSET Labels : Cardinality(r) <= MaxChecks}
Frames == {f \in [named : BOOLEAN, typed : BOOLEAN, triggers : Reports] : f.named \/ f.typed}

(* peek_doom_loop: an untyped payload is no check event, and its triggers  *)
(* are not read, even if the frame's name says it is one.                  *)
Peek(frame) == IF frame.typed THEN frame.triggers ELSE {}

Finish(c) == result' = Finalize(Salvage(c)) /\ status' = "ok"

(* The connection is done after these; Chat Completions ends with [DONE],  *)
(* Gemini with the close of the connection.                                *)
IsTerminal(e) == e.t \in {"end", "whole"}

Ready(e) ==
  /\ e \in Events(wire, turn, gw) \ sent
  /\ \A f \in Events(wire, turn, gw) \ sent : ~Before(wire, gw, f, e)

(* A confident trigger ends the stream before anything more is decoded.    *)
Record(triggers) ==
  /\ signals' = signals \cup triggers
  /\ Cardinality(signals') <= MaxChecks

Abort == status' = "loop" /\ UNCHANGED <<fixed, col, uiText, started, result>>

(* An ordinary event: decoded, collected, shown.  The terminal event of    *)
(* the Responses API may carry triggers of its own.                        *)
Deliver(e, triggers) ==
  LET chunk == Decode(wire, turn, gw, e)
      next == TakeChunk(col, chunk)
  IN  /\ status = "open" /\ Ready(e)
      /\ Record(triggers)
      /\ sent' = sent \cup {e}
      /\ IF AbortTriggers(signals') # {} THEN Abort
         ELSE /\ col' = next
              /\ uiText' = uiText \o chunk.text
              /\ started' = started \cup ServerStarts(next)
              /\ IF IsTerminal(e) THEN Finish(next) ELSE UNCHANGED <<status, result>>
              /\ UNCHANGED fixed

(* A check event, by its name or its type: absorb swallows it, whatever it *)
(* holds.                                                                  *)
Check(frame) ==
  /\ status = "open" /\ wire = "responses" /\ ~gw.whole
  /\ Record(Peek(frame))
  /\ UNCHANGED sent
  /\ IF AbortTriggers(signals') # {} THEN Abort
     ELSE UNCHANGED <<fixed, col, uiText, started, status, result>>

(* The connection is closed: the stream just ends, wherever it is.         *)
Close ==
  /\ status = "open" /\ ~gw.whole
  /\ Finish(col)
  /\ UNCHANGED <<fixed, sent, signals, col, uiText, started>>

(* No event within idle_timeout: the partial turn is kept, fragments that  *)
(* are still parked are not salvaged.                                      *)
FallSilent ==
  /\ status = "open" /\ ~gw.whole
  /\ status' = "idle" /\ result' = Finalize(col)
  /\ UNCHANGED <<fixed, sent, signals, col, uiText, started>>

(* A transport error or a `response.failed`: no turn.                      *)
Break ==
  /\ status = "open"
  /\ status' = "failed"
  /\ UNCHANGED <<fixed, sent, signals, col, uiText, started, result>>

Done == status # "open" /\ UNCHANGED vars

Next ==
  \/ \E e \in Events(wire, turn, gw) :
       \E triggers \in IF e.t = "end" /\ wire = "responses" THEN Reports ELSE {{}} :
         Deliver(e, triggers)
  \/ \E frame \in Frames : Check(frame)
  \/ Close \/ FallSilent \/ Break \/ Done

Spec == Init /\ [][Next]_vars
-----------------------------------------------------------------------------
(***************************************************************************)
(* Properties.                                                             *)
(***************************************************************************)
ToolPositions == {p \in Positions(turn) : ToolAt(turn, p)}

(* Whether what the gateway sends says whose each fragment is.  Positions  *)
(* do, ids do once the item was announced; with one call there is nothing  *)
(* to confuse.  A fragment that comes before its item needs an id, and     *)
(* those of custom tools carry none.                                       *)
NoCustomTool == \A p \in ToolPositions : KindOf[At(turn, p)] # "custom_tool"

Attributable ==
  /\ gw.early => gw.ids /\ NoCustomTool
  /\ \/ Cardinality(ToolPositions) <= 1
     \/ CASE gw.whole -> wire # "chat"
          [] ~gw.whole /\ wire = "gemini" -> FALSE
          [] ~gw.whole /\ wire = "responses" ->
               gw.index = "true" \/ (gw.ids /\ ~gw.early /\ NoCustomTool)
          [] OTHER -> TRUE

Whole == Events(wire, turn, gw) \subseteq sent

(* Arguments never end up with another call: in every state of the stream, *)
(* so also in the partial turn of an idle timeout, the buffer of a call    *)
(* holds fragments of that call only, whatever the gateway repeats,        *)
(* reorders or leaves out (collect_stream's attribution by id, item id and *)
(* position, its parking and its grafting).                                *)
OwnArguments ==
  Attributable =>
    \A i \in DOMAIN col.acc :
      LET e == col.acc[i] IN
      e.name # NoName => \A n \in 1 .. Len(e.args) : e.args[n][1] = e.name

(* A stream that was delivered whole gives the model's turn: its client    *)
(* calls in its order with all their arguments, its hosted calls, its      *)
(* text, and reasoning iff there was some.  Snapshots that repeat the      *)
(* arguments add nothing, placeholder snapshots take nothing away.         *)
CallNames(cs) == [n \in 1 .. Len(cs) |-> cs[n].name]
ToolsOf(kinds) == {n \in DOMAIN turn : turn[n] \in Tools /\ KindOf[turn[n]] \in kinds}
TextsOf == {n \in DOMAIN turn : turn[n] = "text"}

Assembled ==
  /\ CallNames(result.calls) = Pick(turn, ToolsOf({"function", "custom_tool", "local_shell"}))
  /\ CallNames(result.hosted) = Pick(turn, ToolsOf({"server"}))
  /\ \A n \in 1 .. Len(result.calls) : result.calls[n].args = Args(result.calls[n].name)
  /\ [n \in 1 .. Len(result.text) |-> turn[result.text[n] + 1]] = Pick(turn, TextsOf)
  /\ (result.items # <<>>) = (\E n \in DOMAIN turn : turn[n] = "think")

(* A placeholder for the arguments of a call that no event streamed        *)
(* carries nothing to assemble.                                            *)
Sends ==
  gw.deltas \/ gw.done \/ gw.final = "full" \/ gw.whole

TurnAssembled == status = "ok" /\ Whole /\ Attributable /\ Sends => Assembled

(* The observer and the turn agree, also for a stream that was cut or fell *)
(* silent: the text shown is the text of the turn, and each hosted call of *)
(* the turn was announced.                                                 *)
UiAgrees ==
  status \in {"ok", "idle"} /\ (Whole \/ col.final = <<>>) /\ ~gw.whole =>
    /\ result.text = uiText
    /\ \A n \in 1 .. Len(result.hosted) : result.hosted[n].id \in started
=============================================================================
