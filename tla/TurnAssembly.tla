---------------------------- MODULE TurnAssembly ----------------------------
(***************************************************************************)
(* The assembly of one streamed turn (llm/stream.rs): tool-call deltas are *)
(* attributed to calls by id, item id or position, argument fragments are  *)
(* appended, parked or grafted, and the turn is finalized either from the  *)
(* terminal snapshot or from what was streamed.                            *)
(*                                                                         *)
(* Data: the arguments of every call are the same number of fragments,     *)
(* Pieces; fragment <<c, k>> is the k-th of call c.  A buffer is a         *)
(* sequence of fragments and is complete JSON when its pieces are 1 ..     *)
(* Pieces in order, whosever they are: calls of one shape, which is the    *)
(* worst case for a mix-up.  The placeholder `{}` and the empty buffer are *)
(* both the empty sequence.                                                *)
(***************************************************************************)
EXTENDS Integers, Sequences, Functions, FiniteSetsExt

CONSTANT Pieces      \* fragments per arguments object
ASSUME PiecesAssumption == Pieces \in Nat \ {0}

(* The elements of a finite set of naturals in their order, and those of a *)
(* sequence at some of its places.                                         *)
InOrder(S) ==
  LET last == Max(S \cup {0})
      upTo[n \in 0 .. last + 1] ==
        IF n = 0 THEN <<>>
        ELSE IF n - 1 \in S THEN Append(upTo[n - 1], n - 1) ELSE upTo[n - 1]
  IN  upTo[last + 1]

Pick(seq, places) ==
  LET order == InOrder(places) IN [n \in 1 .. Len(order) |-> seq[order[n]]]

NoId == <<>>         \* an absent (or empty) id
NoName == ""         \* an absent (or empty) name
Unresolved == -1

(* A ToolCallDelta.  Absent fields are NoId, NoName, "" and << >>.         *)
Delta(index, id, item, kind, name, args) ==
  [index |-> index, id |-> id, item |-> item, kind |-> kind, name |-> name, args |-> args]

(* One decoded chunk: text and reasoning pieces, reasoning items, tool     *)
(* deltas and the terminal output (present iff it has items).              *)
EmptyChunk == [text |-> <<>>, think |-> <<>>, items |-> <<>>, calls |-> <<>>, final |-> <<>>]

(* What collect_stream keeps between chunks.                               *)
NewCollector ==
  [acc |-> <<>>, ids |-> <<>>, outs |-> <<>>, parked |-> <<>>,
   text |-> <<>>, think |-> <<>>, items |-> <<>>, final |-> <<>>]

NewEntry == [id |-> NoId, name |-> NoName, kind |-> "", args |-> <<>>]

IsPlaceholder(buf) == buf = <<>>
IsComplete(buf) == Len(buf) = Pieces /\ \A k \in 1 .. Pieces : buf[k][2] = k

(* append_tool_argument_fragment: a closed object takes nothing more.      *)
AppendFragment(buf, incoming) ==
  IF IsPlaceholder(buf) THEN incoming
  ELSE IF IsComplete(buf) THEN buf
  ELSE buf \o incoming

(* Attribution by position first, as Chat Completions alone would allow.   *)
ResolveByPosition(tc, col) ==
  IF tc.index \in DOMAIN col.outs THEN col.outs[tc.index]
  ELSE IF tc.name # NoName THEN tc.index ELSE Unresolved

(* resolve_tool_call_index: id, then item id, then position, then a name.  *)
Resolve(tc, col) ==
  CASE tc.id # NoId /\ tc.id \in DOMAIN col.ids -> col.ids[tc.id]
    [] ~(tc.id # NoId /\ tc.id \in DOMAIN col.ids)
       /\ tc.item # NoId /\ tc.item \in DOMAIN col.ids -> col.ids[tc.item]
    [] OTHER -> IF tc.index \in DOMAIN col.outs THEN col.outs[tc.index]
                ELSE IF tc.name # NoName THEN tc.index ELSE Unresolved

With(f, key, val) == [x \in DOMAIN f \cup {key} |-> IF x = key THEN val ELSE f[x]]

(* remember_tool_call_ids *)
Remember(tc, idx, col) ==
  LET byId == IF tc.id = NoId THEN col.ids ELSE With(col.ids, tc.id, idx)
  IN  [col EXCEPT !.ids = IF tc.item = NoId THEN byId ELSE With(byId, tc.item, idx),
                  !.outs = With(col.outs, tc.index, idx)]

(* The entry a delta leaves behind: non-empty fields overwrite, arguments  *)
(* of a hosted call are replaced, those of a client call appended.         *)
Merge(tc, old) ==
  LET kind == IF tc.kind = "" THEN old.kind ELSE tc.kind IN
  [id   |-> IF tc.id = NoId THEN old.id ELSE tc.id,
   name |-> IF tc.name = NoName THEN old.name ELSE tc.name,
   kind |-> kind,
   args |-> CASE tc.args = <<>> -> old.args
              [] kind = "server" -> tc.args
              [] OTHER -> AppendFragment(old.args, tc.args)]

(* graft_parked_fragments: fragments that came before their call.          *)
ParkedFor(tc, p) ==
  LET key == IF p.id # NoId THEN p.id ELSE p.item
  IN  key # NoId /\ key \in {tc.id, tc.item}

GraftOne(tc, entry, kept, p) ==
  IF ParkedFor(tc, p) /\ entry.kind # "server"
  THEN [kept EXCEPT !.args = AppendFragment(@, p.args)]
  ELSE [kept EXCEPT !.parked = Append(@, p)]

Graft(tc, idx, col) ==
  LET entry == col.acc[idx]
      kept[n \in 0 .. Len(col.parked)] ==
        IF n = 0 THEN [args |-> entry.args, parked |-> <<>>]
        ELSE GraftOne(tc, entry, kept[n - 1], col.parked[n])
      grafted == kept[Len(col.parked)]
  IN  [col EXCEPT !.acc = With(@, idx, [entry EXCEPT !.args = grafted.args]),
                  !.parked = grafted.parked]

(* The body of the loop over a chunk's tool deltas.                        *)
TakeDelta(col, tc) ==
  LET idx == Resolve(tc, col) IN
  IF idx = Unresolved
  THEN IF tc.args = <<>> THEN col ELSE [col EXCEPT !.parked = Append(@, tc)]
  ELSE LET old == IF idx \in DOMAIN col.acc THEN col.acc[idx] ELSE NewEntry
           kept == Remember(tc, idx, [col EXCEPT !.acc = With(@, idx, Merge(tc, old))])
       IN  Graft(tc, idx, kept)

(* merge_reasoning_items: one reasoning item per id.                       *)
MergeReasoning(old, new) ==
  old \o Pick(new, {n \in DOMAIN new : new[n] \notin Range(old)})

TakeChunk(col, chunk) ==
  LET base == [col EXCEPT !.text = @ \o chunk.text,
                          !.think = @ \o chunk.think,
                          !.items = MergeReasoning(@, chunk.items),
                          !.final = IF chunk.final = <<>> THEN @ ELSE chunk.final]
      taken[n \in 0 .. Len(chunk.calls)] ==
        IF n = 0 THEN base ELSE TakeDelta(taken[n - 1], chunk.calls[n])
  IN  taken[Len(chunk.calls)]

(* A start that is only shown once the search's action is known.           *)
StartsWithAction(col) ==
  {col.acc[i].id : i \in {j \in DOMAIN col.acc :
                            /\ col.acc[j].kind = "server" /\ col.acc[j].name # NoName
                            /\ ~IsPlaceholder(col.acc[j].args)}}

(* The hosted calls whose start the observer is told of: an entry of kind  *)
(* server with a name, once per call id.                                   *)
ServerStarts(col) ==
  {col.acc[i].id : i \in {j \in DOMAIN col.acc :
                            col.acc[j].kind = "server" /\ col.acc[j].name # NoName}}

(* salvage_parked_fragments: only at a clean end, only for one open call,  *)
(* only if the fragments close an object.                                  *)
OpenCalls(col) ==
  {i \in DOMAIN col.acc : col.acc[i].kind # "server" /\ IsPlaceholder(col.acc[i].args)}

Joined(parked) ==
  LET joined[n \in 0 .. Len(parked)] ==
        IF n = 0 THEN <<>> ELSE AppendFragment(joined[n - 1], parked[n].args)
  IN  joined[Len(parked)]

Salvage(col) ==
  LET buffer == Joined(col.parked)
      open == OpenCalls(col)
  IN  IF col.parked # <<>> /\ \E i \in open : open = {i} /\ IsComplete(buffer)
      THEN [col EXCEPT !.acc[CHOOSE i \in open : TRUE].args = buffer, !.parked = <<>>]
      ELSE [col EXCEPT !.parked = <<>>]

(* Named entries in index order; a missing kind is "function".             *)
StreamedCalls(col) ==
  LET order == InOrder({i \in DOMAIN col.acc : col.acc[i].name # NoName})
  IN  [n \in 1 .. Len(order) |->
         LET e == col.acc[order[n]]
         IN  [e EXCEPT !.kind = IF @ = "" THEN "function" ELSE @]]

(* The snapshot is believed even when it is a placeholder.                 *)
SnapshotWins(item, streamed) == item.args

(* prefer_tool_arguments: the snapshot's unless it is a placeholder.       *)
Preferred(item, streamed) ==
  LET same == {n \in DOMAIN streamed : streamed[n].id = item.id}
  IN  IF ~IsPlaceholder(item.args) THEN item.args
      ELSE IF same # {} THEN streamed[Min(same)].args ELSE item.args

(* items_from_canonical_output: the terminal snapshot is the turn.  Its    *)
(* items are [kind, id, name, args]; a message carries its text, one       *)
(* piece, in args.                                                         *)
FromSnapshot(final, streamed) ==
  LET of(kinds) == Pick(final, {n \in DOMAIN final : final[n].kind \in kinds})
      clients == of({"function", "custom_tool", "local_shell"})
      messages == of({"message"})
  IN  [calls   |-> [n \in 1 .. Len(clients) |->
                      IF clients[n].kind = "function"
                      THEN [clients[n] EXCEPT !.args = Preferred(clients[n], streamed)]
                      ELSE clients[n]],
       hosted  |-> of({"server"}),
       items   |-> LET rs == of({"reasoning"}) IN [n \in 1 .. Len(rs) |-> rs[n].id],
       text    |-> [n \in 1 .. Len(messages) |-> messages[n].args[1]]]

(* synthesize_items_from_accumulated *)
FromStream(col, streamed) ==
  [calls  |-> Pick(streamed, {n \in DOMAIN streamed : streamed[n].kind # "server"}),
   hosted |-> Pick(streamed, {n \in DOMAIN streamed : streamed[n].kind = "server"}),
   items  |-> col.items,
   text   |-> col.text]

(* inject_streaming_reasoning_fallback: streamed reasoning that no item    *)
(* stands for becomes an item of its own.                                  *)
WithReasoning(turn, think) ==
  IF turn.items = <<>> /\ think # <<>> THEN [turn EXCEPT !.items = <<NoId>>] ELSE turn

(* finalize_turn *)
Finalize(col) ==
  LET streamed == StreamedCalls(col)
  IN  WithReasoning(IF col.final # <<>> THEN FromSnapshot(col.final, streamed)
                    ELSE FromStream(col, streamed), col.think)
=============================================================================
