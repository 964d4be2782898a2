------------------------------ MODULE WebPages ------------------------------
(***************************************************************************)
(* What the web tools make of pages and answers (tools/web_fetch.rs,       *)
(* browser.rs, ssrf.rs, and the parsers of web_search.rs).  A text is a    *)
(* sequence of words.                                                      *)
(***************************************************************************)
EXTENDS Integers, Sequences

LOCAL INSTANCE SequencesExt
LOCAL INSTANCE Functions

-----------------------------------------------------------------------------
\* ---- web_fetch

\* is_blocked_for_host: an address that is not public, unless loopback is
\* allowed and named as such.
Blocked(address, namesLoopback, allowLocal) ==
    /\ address # "public"
    /\ ~(allowLocal /\ address = "loopback" /\ namesLoopback)

\* check_ssrf: a host whose addresses are all let through; one at least.
Reachable(host, allowLocal) ==
    /\ host.addresses # {}
    /\ \A a \in host.addresses : ~Blocked(a, host.namesLoopback, allowLocal)

\* The statuses a site answers anti-bot challenges with.
Challenges == {403, 429, 503}

Success(status) == status \in 200 .. 299

\* get_platform_fingerprint and apply_browser_headers: how a request presents
\* itself.  A custom User-Agent is sent after the platform's, without the hints
\* of the platform's browser.
RequestHeaders(platform, custom) ==
    [agents |-> <<platform>> \o (IF custom THEN <<"custom">> ELSE <<>>),
     hints  |-> ~custom /\ platform \in {"android", "linux"},
     fresh  |-> FALSE]

\* get_fallback_fingerprint: desktop Chrome, past any cache.
RetryHeaders == [agents |-> <<"chrome">>, hints |-> TRUE, fresh |-> TRUE]

\* The answer that counts: the one to the platform's fingerprint, or, when that
\* meets a challenge, to the fallback fingerprint if it succeeds.
Answer(site, custom) ==
    IF ~custom /\ site.native.status \in Challenges /\ Success(site.fallback.status)
    THEN site.fallback ELSE site.native

NoAnswer == 0   \* the status of a request that was not answered

FromHttp(site, custom, allowLocal) ==
    LET answer == Answer(site, custom) IN
    IF site.native.status = NoAnswer THEN "unreachable"
    ELSE IF ~Reachable(answer.host, allowLocal) THEN "blocked"   \* after redirects
    ELSE IF answer.status \in {403, 429} THEN "challenge"
    ELSE IF ~Success(answer.status) THEN "status"
    ELSE answer.body                                   \* "page", "torn" or "large"

\* execute: the host's WebView first, if it has a page.
Fetch(site, custom, allowLocal) ==
    IF ~Reachable(site.host, allowLocal) THEN "blocked"
    ELSE IF site.webview = "page" THEN "page"
    ELSE FromHttp(site, custom, allowLocal)

\* convert_html_to_interactive_tree: links, then buttons, then inputs, numbered
\* on; links and buttons without text and hidden inputs are left out.
Refs(elements) ==
    LET Listed(kind) == SelectSeq(elements, LAMBDA e : e.kind = kind /\ e.shown) IN
    Listed("link") \o Listed("button") \o Listed("input")

-----------------------------------------------------------------------------
\* ---- web_search

\* build_ddg_query: what the query asks of the sites of its results.
DomainFilter(allowed, blocked) ==
    IF allowed # <<>> THEN [only |-> Range(allowed), never |-> {}]
    ELSE [only |-> {}, never |-> Range(blocked)]

\* parse_ddg_lite_html: the n-th link goes with the n-th snippet of the page;
\* links to help pages are counted, then left out.
SearchResults(links, snippets) ==
    LET all == [i \in DOMAIN links |->
                  [url |-> links[i],
                   snippet |-> IF i \in DOMAIN snippets THEN snippets[i] ELSE "none"]]
    IN  SelectSeq(all, LAMBDA r : r.url # "help")

\* search_llm_fallback: a setting of a request is the member's, then that of the
\* environment: there a blank one hides those after it.
Setting(own, environment) ==
    IF own \notin {"none", "blank"} THEN own
    ELSE LET i == SelectInSeq(environment, LAMBDA v : v # "none")
         IN  IF i = 0 THEN "none" ELSE environment[i]

\* Whether a request is sent at all: with a key, or not.
HasKey(own, environment) == Setting(own, environment) \notin {"none", "blank"}

\* What an answer says: an error, or its texts.
Says(texts) == [ok |-> texts # <<>>, texts |-> texts]

Blank(text) == text \in {"blank", "empty"}

\* parse_messages_api_json: texts that are not blank.
MessagesSays(answer) == Says(SelectSeq(answer.texts, LAMBDA t : ~Blank(t)))

\* parse_chat_completions_api_json: the first choice, if not blank.
ChatSays(answer) ==
    IF answer.texts # <<>> /\ ~Blank(Head(answer.texts))
    THEN Says(<<Head(answer.texts)>>) ELSE Says(<<>>)

\* parse_responses_api_json: all texts, blank or not; failing these output_text,
\* or the texts of choices.
ResponsesSays(answer) ==
    IF answer.texts # <<>> THEN Says(answer.texts)
    ELSE IF answer.outputText # "none" THEN Says(<<answer.outputText>>)
    ELSE Says(answer.choices)

\* Gemini: the texts of the first candidate as one; an answer without any is
\* given as it came.
GeminiSays(answer) ==
    LET texts == SelectSeq(answer.texts, LAMBDA t : t # "empty")
    IN  IF answer.texts \in {<<>>, <<"empty">>} THEN Says(<<"raw">>)
        ELSE IF \A i \in DOMAIN texts : Blank(texts[i]) THEN Says(<<>>)
        ELSE Says(<<texts>>)
=============================================================================
