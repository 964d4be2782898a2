---------------------------- MODULE SessionItems ----------------------------
(***************************************************************************)
(* The conversation items of a stored session (conversation.rs), the       *)
(* detector of identical tool-call steps (agent/doom_loop.rs), and the     *)
(* sliding-window compaction of a long session (engine.rs).                *)
(*                                                                         *)
(* An item keeps its kind, the chat a user item came from, the signature   *)
(* and the number of the client calls of an assistant item, and the        *)
(* position in its batch of the call a result answers.  Backend tool calls *)
(* are treated like reasoning items everywhere and stand with them.  An    *)
(* item weighs one unit of the token estimate.                             *)
(***************************************************************************)
EXTENDS Integers, Sequences, FiniteSets

FSE == INSTANCE FiniteSetsExt

CONSTANTS Chats,         \* chat calls, each a turn of some session
          NoChat,        \* "no chat"
          Signatures,    \* hashes of a batch of calls
          NoSignature,   \* the signature of a turn without client calls
          NudgeAfter,    \* NUDGE_AFTER_IDENTICAL_TOOL_CALLS
          MaxIdentical,  \* MAX_CONSECUTIVE_IDENTICAL_TOOL_CALLS
          Threshold,     \* COMPACT_THRESHOLD_TOKENS, in items
          Keep           \* the window compaction keeps, 12

ASSUME ItemsAssumption ==
    /\ NoChat \notin Chats /\ NoSignature \notin Signatures
    /\ {NudgeAfter, MaxIdentical, Threshold, Keep} \subseteq Nat \ {0}
    /\ NudgeAfter < MaxIdentical

User(c)              == [kind |-> "user", chat |-> c]
Assistant(sig, n)    == [kind |-> "assistant", sig |-> sig, calls |-> n]
ToolResult(k)        == [kind |-> "result", call |-> k]
Reasoning            == [kind |-> "reasoning"]
Nudge                == [kind |-> "system"]

\* What a model may answer: reasoning first or not, and n client calls.
Answer == [reasoned : BOOLEAN, sig : Signatures \cup {NoSignature}, calls : Nat]

AnswerItems(a) ==
    (IF a.reasoned THEN <<Reasoning>> ELSE <<>>) \o <<Assistant(a.sig, a.calls)>>

IsFinal(item) == item.kind = "assistant" /\ item.calls = 0

-----------------------------------------------------------------------------
\* IdenticalToolCallRun
NoRun == [sig |-> NoSignature, len |-> 0, nudged |-> FALSE]

Observe(run, sig) ==
    IF run.sig = sig THEN [run EXCEPT !.len = @ + 1]
                     ELSE [sig |-> sig, len |-> 1, nudged |-> FALSE]

\* Faulty variant: the nudge is not latched.
TakesNudgeAgain(run) == run.len >= NudgeAfter

\* take_nudge fires; the caller then sets nudged.
TakesNudge(run) == run.len >= NudgeAfter /\ ~run.nudged

HardStop(run) == run.len >= MaxIdentical

-----------------------------------------------------------------------------
\* maybe_compact.  Positions are counted from 0, as in the code: items[k + 1]
\* is the first item kept by a cut at k.

\* Walking back from k, the first item that does not hang on an earlier one.
WalkBack(items, k) ==
    FSE!Max({j \in 0 .. k : j = 0 \/ items[j + 1].kind \notin {"result", "reasoning"}})

\* Walking on from a batch of calls, the next user item or final answer.
WalkOn(items, k) ==
    FSE!Min({j \in k + 1 .. Len(items) - 1 : items[j + 1].kind = "user" \/ IsFinal(items[j + 1])}
            \cup {Len(items)})

\* Faulty variant: the window begins wherever it falls.
CutAnywhere(items, keep) == Len(items) - keep

CutPoint(items, keep) ==
    LET back == WalkBack(items, Len(items) - keep)
    IN IF back > 0 /\ items[back + 1].kind = "assistant" /\ ~IsFinal(items[back + 1])
       THEN WalkOn(items, back)
       ELSE back

Window(items) ==
    LET spoken == Cardinality({i \in DOMAIN items : items[i].kind \in {"user", "assistant"}})
    IN IF spoken >= Keep THEN Keep ELSE IF spoken = 0 THEN 1 ELSE spoken

NeedsCompaction(items) == Len(items) >= Threshold /\ Len(items) > Window(items)

Compact(items) ==
    IF ~NeedsCompaction(items) THEN items
    ELSE LET cut == CutPoint(items, Window(items))
         IN IF cut >= Len(items) THEN items
            ELSE (IF items[cut + 1].kind = "user" THEN <<>> ELSE <<User(NoChat)>>)
                   \o SubSeq(items, cut + 1, Len(items))

-----------------------------------------------------------------------------
\* A history a provider accepts: it opens with a user item, the calls of every
\* batch are answered in order right after it, and no result stands alone.
WellPaired(items) ==
    /\ items # <<>> => Head(items).kind = "user"
    /\ \A i \in DOMAIN items : items[i].kind = "assistant" =>
          \A k \in 1 .. items[i].calls :
              i + k \in DOMAIN items /\ items[i + k] = ToolResult(k)
    /\ \A j \in DOMAIN items : items[j].kind = "result" =>
          \E i \in 1 .. j - 1 : items[i].kind = "assistant" /\ j - i <= items[i].calls

\* The batches of items i < j belong to one run of identical steps of a turn.
SameRun(items, i, j) ==
    \A m \in i .. j :
        /\ items[m].kind # "user"
        /\ items[m].kind = "assistant" => items[m].sig = items[i].sig

\* A run of identical batches is nudged at most once and never exceeds the
\* hard stop.
RunsBounded(items) ==
    \A i \in DOMAIN items : items[i].kind = "assistant" /\ items[i].calls > 0 =>
        LET run == {j \in i .. Len(items) : SameRun(items, i, j)}
        IN /\ Cardinality({j \in run : items[j].kind = "assistant"}) <= MaxIdentical
           /\ Cardinality({j \in run : items[j] = Nudge}) <= 1

=============================================================================
