---------------------------- MODULE MCToolCalls ----------------------------
(***************************************************************************)
(* A chat and a subagent whose models call different tools of the phone.   *)
(***************************************************************************)
EXTENDS ToolCalls, FileChecks

CONSTANTS chat, sub

MCChats      == {chat}
MCSubagents  == {sub}
Tools(ofChat, ofSub) == [a \in {chat, sub} |-> IF a = chat THEN ofChat ELSE ofSub]

MCRepertoires ==
    {Tools({"talent", "ask_user_question"}, {"browse", "notification"}),
     Tools({"scheduler"}, {"scheduler", "notification"}),
     Tools({"plan"}, {"plan"})}
MCHostSets   == {{"talent", "plan"}, {}}

=============================================================================
