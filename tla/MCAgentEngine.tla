--------------------------- MODULE MCAgentEngine ---------------------------
(***************************************************************************)
(* Instances of AgentEngine for TLC.                                       *)
(***************************************************************************)
EXTENDS AgentEngine

CONSTANTS c1, c2, s1, s2, a, b

\* The last answer of a turn, a step of one call, a reasoned step of two.
FinalAnswer == [reasoned |-> FALSE, sig |-> NoSignature, calls |-> 0]
OneCall     == [reasoned |-> FALSE, sig |-> a, calls |-> 1]
TwoCalls    == [reasoned |-> TRUE, sig |-> b, calls |-> 2]

MCAnswers == [c \in Chats |-> {FinalAnswer, OneCall, TwoCalls}]

\* The models of c1 repeat themselves.
StubbornAnswers == [MCAnswers EXCEPT ![c1] = {FinalAnswer, TwoCalls}]

=============================================================================
