---------------------------- MODULE MCTurnStream ----------------------------
(***************************************************************************)
(* Instance of TurnStream for TLC: two function calls, one of them without *)
(* arguments in some turns, a hosted search, a custom tool, a shell call.  *)
(***************************************************************************)
EXTENDS TurnStream, TLC

Kinds == ("read" :> "function") @@ ("list" :> "function") @@ ("now" :> "function")
         @@ ("web" :> "server") @@ ("patch" :> "custom_tool") @@ ("shell" :> "local_shell")
ToolNames == DOMAIN Kinds
BareTools == {"now"}

\* Reasoning first, text before calls, hosted searches before the answer.
TurnsOfInterest == {
  <<"text">>,
  <<"think", "read">>,
  <<"text", "read", "list">>,
  <<"think", "now", "read">>,
  <<"web", "text">>,
  <<"web", "read", "text">>,
  <<"patch", "read">>,
  <<"shell", "read">> }

\* The provider itself, and gateways that leave out, renumber, reorder or
\* only send snapshots; some rely on the terminal output, some send none.
GatewaysOfInterest ==
  {Gateway("true", ids, TRUE, early, done, final, FALSE) :
     ids \in BOOLEAN, early \in {FALSE}, done \in BOOLEAN, final \in {"full", "bare", "none"}}
  \cup {Gateway("true", TRUE, TRUE, TRUE, TRUE, final, FALSE) : final \in {"bare", "none"}}
  \cup {Gateway(index, TRUE, TRUE, FALSE, TRUE, final, FALSE) :
          index \in {"zero", "ordinal"}, final \in {"bare", "none"}}
  \cup {Gateway("ordinal", FALSE, TRUE, FALSE, FALSE, "none", FALSE),
        Gateway("zero", TRUE, TRUE, TRUE, FALSE, "none", FALSE),
        Gateway("true", TRUE, FALSE, FALSE, TRUE, "bare", FALSE),
        Gateway("true", TRUE, TRUE, FALSE, FALSE, "none", TRUE)}

LabelsOfInterest == {
  [head |-> "tail_repetition", arg |-> 8, channel |-> "thinking"],
  [head |-> "tail_repetition", arg |-> 9, channel |-> "thinking"],
  [head |-> "tail_repetition", arg |-> NoNumber, channel |-> "thinking"],
  [head |-> "tail_repetition", arg |-> 2, channel |-> "response"],
  [head |-> "low_logprob", arg |-> NoNumber, channel |-> "thinking"] }
=============================================================================
