------------------------------ MODULE WebChecks ------------------------------
(***************************************************************************)
(* What the web tools promise, checked over bounded sites and answers.     *)
(* TLC evaluates these assumptions in every run that extends this module.  *)
(***************************************************************************)
LOCAL INSTANCE Integers
LOCAL INSTANCE Sequences
LOCAL INSTANCE FiniteSets
LOCAL INSTANCE SequencesExt
LOCAL INSTANCE Functions
LOCAL INSTANCE WebPages

SomeHosts == [addresses : {{}, {"public"}, {"loopback"}, {"public", "private"}},
              namesLoopback : BOOLEAN]

Unanswered == [status |-> NoAnswer, body |-> "torn",
               host |-> [addresses |-> {}, namesLoopback |-> FALSE]]

SomeAnswers == [status : {200, 403, 404, 503}, body : {"page", "torn"}, host : SomeHosts]
                 \cup {Unanswered}

SomeSites == [webview : {"page", "none"}, host : SomeHosts, native : SomeAnswers,
              fallback : SomeAnswers]

\* A page comes from a host the policy lets through, and whole, with a status
\* of success, whichever of the three ways it was fetched.
ASSUME PagesAreAnswers ==
    \A site \in SomeSites, custom, allowLocal \in BOOLEAN :
        Fetch(site, custom, allowLocal) = "page" /\ site.webview # "page" =>
            \E a \in {site.native, site.fallback} :
                /\ Success(a.status) /\ a.body = "page"
                /\ a.host.addresses # {}
                /\ a.host.addresses \subseteq
                     {"public"} \cup (IF allowLocal /\ a.host.namesLoopback
                                      THEN {"loopback"} ELSE {})

\* A second try that fails, whatever way, changes nothing of what is reported;
\* and there is none for a caller that named its own browser.
ASSUME FailedRetryIsSilent ==
    \A site \in SomeSites, custom, allowLocal \in BOOLEAN :
        custom \/ ~Success(site.fallback.status) =>
            Fetch(site, custom, allowLocal)
              = Fetch([site EXCEPT !.fallback = Unanswered], custom, allowLocal)

\* Chromium's hints go only with the one User-Agent of a Chromium.
ASSUME HintsFitAgents ==
    \A headers \in {RequestHeaders(platform, custom) :
                      platform \in {"ios", "android", "macos", "linux"}, custom \in BOOLEAN}
                    \cup {RetryHeaders} :
        headers.hints => \E agent \in {"android", "linux", "chrome"} : headers.agents = <<agent>>

SomeElements == [kind : {"link", "button", "input"}, shown : BOOLEAN]

\* Every element that can be used has one reference, none other has, and those
\* of a kind keep the order of the page.
ASSUME RefsAreElements ==
    \A page \in BoundedSeq(SomeElements, 4) :
        LET numbered == [i \in DOMAIN page |-> page[i] @@ [at |-> i]]
            refs     == Refs(numbered)
        IN  /\ Range(refs) = {e \in Range(numbered) : e.shown}
            /\ IsInjective(refs)
            /\ \A i, j \in DOMAIN refs :
                 i < j /\ refs[i].kind = refs[j].kind => refs[i].at < refs[j].at

\* On a page where every link has its snippet, a result has the snippet of its
\* own link, whichever links are left out.  (Without that, a link that has none
\* takes the next one's.)
ASSUME SnippetsOfTheirLinks ==
    \A links \in BoundedSeq({"a", "b", "help"}, 3) :
        LET results == SearchResults(links, links) IN
        /\ \A i \in DOMAIN results : results[i].snippet = results[i].url
        /\ [i \in DOMAIN results |-> results[i].url] = SelectSeq(links, LAMBDA l : l # "help")

SomeReplies == [texts : BoundedSeq({"a", "blank", "empty"}, 3), outputText : {"none"},
                choices : {<<>>}]

\* An answer that begins with a text is one for every backend, and what a
\* backend says begins with it; an answer without any is an error, except on
\* Gemini, which gives it as it came.
ASSUME AnswersAreHeard ==
    \A reply \in SomeReplies :
        /\ reply.texts # <<>> /\ Head(reply.texts) = "a" =>
              /\ \A said \in {MessagesSays(reply), ChatSays(reply), ResponsesSays(reply)} :
                    said.ok /\ Head(said.texts) = "a"
              /\ GeminiSays(reply).ok
        /\ reply.texts = <<>> =>
              /\ \A said \in {MessagesSays(reply), ChatSays(reply), ResponsesSays(reply)} : ~said.ok
              /\ GeminiSays(reply).ok

SomeSettings == {"none", "blank", "a", "b"}

\* The member's own setting wins; a blank one of the environment hides the rest.
ASSUME OwnSettingFirst ==
    \A own \in SomeSettings, env \in [1 .. 3 -> SomeSettings] :
        /\ own \in {"a", "b"} => Setting(own, env) = own
        /\ HasKey("none", env) <=>
              \E i \in 1 .. 3 : env[i] \in {"a", "b"} /\ \A j \in 1 .. i - 1 : env[j] = "none"
=============================================================================
