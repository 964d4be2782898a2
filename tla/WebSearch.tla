----------------------------- MODULE WebSearch -----------------------------
(***************************************************************************)
(* Calls of the web_search tool of one agent (tools/web_search.rs): first  *)
(* DuckDuckGo in the host's WebView, unless it failed of late, then the    *)
(* pool members that offer hosted search, one after the other.  The calls  *)
(* share the cooldown of DuckDuckGo, and read endpoints that change under  *)
(* them (SlotBinding).                                                     *)
(***************************************************************************)
EXTENDS SlotBinding

CONSTANTS Searches,  \* calls that may run at once
          Cooldown   \* DDG_COOLDOWN_DURATION, in ticks

VARIABLES cooldown,  \* what is left of cooldown_until
          search     \* the calls

searchVars == <<cooldown, search>>
vars       == <<bindingVars, searchVars>>

\* A call: where it is, the members it will ask and those it has asked.
\* History: whether endpoints changed as it collected them, and what it should
\* have collected.
NoSearch == [at |-> "idle", queue |-> <<>>, asked |-> <<>>, moved |-> FALSE, due |-> <<>>]

SearchInit == cooldown = 0 /\ search = [s \in Searches |-> NoSearch]

Init == BindingInit /\ SearchInit

SearchGoes(s, at) == search' = [search EXCEPT ![s].at = at]

-----------------------------------------------------------------------------
\* ---- DuckDuckGo

\* Faulty variant: a call that skips DuckDuckGo renews its cooldown.
SkippingRenews(s) ==
    /\ search[s].at = "idle"
    /\ \/ SearchGoes(s, "collecting") /\ UNCHANGED cooldown
       \/ /\ SearchGoes(s, IF cooldown > 0 THEN "collecting" ELSE "trying")
          /\ cooldown' = IF cooldown > 0 THEN Cooldown ELSE 0
    /\ UNCHANGED bindingVars

\* Without a host WebView the tool goes straight to the providers.  (Queries of
\* one character, or with both lists of domains, are refused at once.)
BeginSearch(s) ==
    /\ search[s].at = "idle"
    /\ \/ SearchGoes(s, "collecting")
       \/ SearchGoes(s, IF cooldown > 0 THEN "collecting" ELSE "trying")
    /\ UNCHANGED <<bindingVars, cooldown>>

\* probe_ddg_connectivity, then the WebView's page (HostCalls): a cancel during
\* either counts as a failure, like a challenge or a page without results.
TryDuckDuckGo(s) ==
    /\ search[s].at = "trying"
    /\ \E at \in {"found", "failed"} : SearchGoes(s, at)
    /\ UNCHANGED <<bindingVars, cooldown>>

TriggerCooldown(s) ==
    /\ search[s].at = "failed"
    /\ cooldown' = Cooldown
    /\ SearchGoes(s, "collecting")
    /\ UNCHANGED bindingVars

ClearCooldown(s) ==
    /\ search[s].at = "found"
    /\ cooldown' = 0
    /\ search' = [search EXCEPT ![s] = NoSearch]
    /\ UNCHANGED bindingVars

Tick ==
    /\ cooldown > 0
    /\ cooldown' = cooldown - 1
    /\ UNCHANGED <<bindingVars, search>>

-----------------------------------------------------------------------------
\* ---- hosted search

Hosted(endpoints) == Among(endpoints, Routing.hosted)

\* hosted_search_candidates reads the current endpoint ...
CollectCurrent(s) ==
    /\ search[s].at = "collecting"
    /\ search' = [search EXCEPT ![s].at = "collecting_rest", ![s].queue = Hosted(CurrentEndpoint),
                                ![s].due = Hosted(CurrentEndpoint) \o Hosted(FallbackEndpoints)]
    /\ UNCHANGED <<bindingVars, cooldown>>

\* ... and then the others, each taken once.
CollectRest(s) ==
    LET rest == Among(Hosted(FallbackEndpoints), Providers \ Range(search[s].queue))
    IN  /\ search[s].at = "collecting_rest"
        /\ search' = [search EXCEPT ![s].at = "asking", ![s].queue = @ \o rest]
        /\ UNCHANGED <<bindingVars, cooldown>>

\* Faulty variant: only the current member is asked.
AskFirstOnly(s) ==
    LET queue == search[s].queue IN
    /\ search[s].at = "asking" /\ queue # <<>>
    /\ search' = [search EXCEPT ![s].queue = <<>>, ![s].asked = Append(@, Head(queue))]
    /\ UNCHANGED <<bindingVars, cooldown>>

\* search_llm_fallback: the next candidate fails, and is passed over.
AskHosted(s) ==
    LET queue == search[s].queue IN
    /\ search[s].at = "asking" /\ queue # <<>>
    /\ search' = [search EXCEPT ![s].queue = Tail(queue), ![s].asked = Append(@, Head(queue))]
    /\ UNCHANGED <<bindingVars, cooldown>>

SearchFails(s) ==
    /\ search[s].at = "asking" /\ search[s].queue = <<>>
    /\ SearchGoes(s, "error")
    /\ UNCHANGED <<bindingVars, cooldown>>

\* A candidate answers, the error is returned, or the engine drops the call
\* where it waits: its cancel or its 120 s.  That leaves the cooldown alone.
EndSearch(s) ==
    /\ search[s].at \in {"error", "trying", "asking"}
    /\ search' = [search EXCEPT ![s] = NoSearch]
    /\ UNCHANGED <<bindingVars, cooldown>>

SearchStep(s) ==
    \/ BeginSearch(s) \/ TryDuckDuckGo(s) \/ TriggerCooldown(s) \/ ClearCooldown(s)
    \/ CollectCurrent(s) \/ CollectRest(s) \/ AskHosted(s) \/ SearchFails(s) \/ EndSearch(s)

\* A step of the client or its router, which may move the endpoints of a call
\* between its two reads.  (moved: history.)
ClientStep ==
    /\ ReplaceRouting \/ \E o \in Operations : OperationStep(o)
    /\ LET changed == <<Routing, lastSuccess>> # <<routings'[Len(routings')], lastSuccess'>> IN
       search' = [s \in Searches |->
                    IF search[s].at = "collecting_rest" /\ changed
                    THEN [search[s] EXCEPT !.moved = TRUE, !.due = <<>>] ELSE search[s]]
    /\ UNCHANGED cooldown

Next == ClientStep \/ Tick \/ \E s \in Searches : SearchStep(s)

\* A call that runs gets on: requests have timeouts.  Time passes.
Spec == /\ Init /\ [][Next]_vars
        /\ WF_vars(Tick)
        /\ \A s \in Searches : WF_vars(search[s].at # "idle" /\ SearchStep(s))

-----------------------------------------------------------------------------
\* A search that reports failure has asked every member that offers hosted
\* search, the current one first and each once, when none of them changed
\* while it collected them; however they changed, it asked none twice.
AllAsked ==
    \A s \in Searches :
        /\ IsInjective(search[s].asked)
        /\ search[s].at = "error" /\ ~search[s].moved => search[s].asked = search[s].due

\* DuckDuckGo is given another chance: calls that skip it in its cooldown do
\* not keep it there.
DuckDuckGoReturns == []<>(cooldown = 0)
=============================================================================
