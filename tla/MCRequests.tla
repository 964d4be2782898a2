----------------------------- MODULE MCRequests -----------------------------
(* Small instances of Requests.                                            *)
EXTENDS Requests, RecordChecks

Slot(key, wire, window, search) == [key |-> key, wire |-> wire, window |-> window, search |-> search]

MCConfig == Slot("a", "messages", 0, {})
MCWindowedConfig == Slot("a", "chat", 5, {})

\* Four providers; two keys are served on two wires.
MCSlots == {Slot("a", "responses", 0, {"web_search"}), Slot("a", "messages", 0, {}),
            Slot("b", "gemini", 0, {}), Slot("b", "chat", 0, {})}
MCWindowed == {Slot("a", "chat", 5, {}), Slot("b", "chat", 3, {})}

MCInputs == {<<"text", "image">>, <<"audio">>, <<"image", "image">>,
             <<"broken">>, <<>>}
MCTexts == {<<"text">>, <<"text", "image">>}
=============================================================================
