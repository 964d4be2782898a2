---------------------------- MODULE RequestErrors ----------------------------
(***************************************************************************)
(* How an HTTP request comes out before a stream is open, and what the     *)
(* attempt loop makes of it (llm/transport.rs, llm/retry.rs, the handling  *)
(* of errors in llm/client.rs).  The transport turns every failure into a  *)
(* line of text and the classification reads that line back, so what the   *)
(* line no longer holds is lost to it.  Times are in milliseconds.         *)
(***************************************************************************)
EXTENDS Integers

LOCAL INSTANCE FiniteSetsExt

\* FAILOVER_RETRY_AFTER_INLINE_CAP, RETRY_AFTER_PARSE_CAP_SECS, MAX_RETRY_BACKOFF.
InlineCap     == 10000
RetryAfterCap == 120000
MaxBackoff    == 30000

\* parse_retry_after reads whole seconds; a date is as good as no header.
Unread == -1
RetryAfters == {Unread, 1, 10, 11, 600}

\* says: what the body of an error response tells; cut: an HTML page, or a body
\* so long that the part which tells it is not among its first 500 characters.
Bodies == [says : {"nothing", "overflow", "quota"}, cut : BOOLEAN]

\* send() failed, or never reached the server (is_connect_failure).
NoAnswers == [kind : {"noAnswer"}, connect : BOOLEAN]

\* An HTTP error.
StatusErrors ==
    [kind : {"status"}, code : {400, 401, 403, 429, 500, 525}, retryAfter : {Unread},
     shouldRetry : BOOLEAN, body : Bodies]
    \cup [kind : {"status"}, code : {429}, retryAfter : RetryAfters,
          shouldRetry : {TRUE}, body : {[says |-> "nothing", cut |-> FALSE]}]

\* A buffered answer that could not be read, or not be parsed.
BufferedErrors == [kind : {"brokenBody", "garbledBody"}]

Outcomes == NoAnswers \cup StatusErrors \cup BufferedErrors

\* What truncate_for_error leaves of the body.
Told(o) == IF o.body.cut THEN "nothing" ELSE o.body.says

\* is_retry_vetoed_message: x-should-retry: false, or a context overflow.
RetryVetoed(o) == o.kind = "status" /\ (~o.shouldRetry \/ Told(o) = "overflow")

\* classify_status
StatusClass(code) ==
    IF code = 429 THEN "rateLimited"
    ELSE IF code \in 500 .. 599 \ {525, 526} THEN "retry" ELSE "fatal"

\* retry_class_for_error.  An answer that breaks off in the body is an Llm
\* error whose text names none of the causes that are retried.
RetryClass(o) ==
    CASE o.kind = "noAnswer"    -> "retry"
      [] o.kind = "garbledBody" -> "retry"
      [] o.kind = "brokenBody"  -> "fatal"
      [] o.kind = "status"      -> IF RetryVetoed(o) THEN "fatal" ELSE StatusClass(o.code)

\* is_veto: no other provider would answer otherwise.
IsVeto(o) ==
    /\ o.kind = "status"
    /\ RetryVetoed(o) \/ o.code = 401 \/ (o.code = 403 /\ Told(o) = "quota")

\* The arm of try_provider that takes the error.
Handling(o) ==
    IF IsVeto(o) THEN "veto"
    ELSE IF o.kind = "noAnswer" /\ o.connect THEN "connectFailed"
    ELSE RetryClass(o)

\* The outcomes by the arm that takes them.
FailuresOf ==
    [h \in {"veto", "connectFailed", "fatal", "rateLimited", "retry"} |->
        {o \in Outcomes : Handling(o) = h}]

\* retry_backoff_with_jitter: its shortest and its longest wait.
Backoff(n) ==
    LET base == Min({2000 * 2 ^ Max({n - 1, 0}), MaxBackoff})
    IN [least |-> base - base \div 5, most |-> base + base \div 5]

\* retry_after_from_error, or else the backoff of the attempt.
Waits(o, attempt) ==
    IF o.retryAfter # Unread
    THEN LET wait == Min({1000 * o.retryAfter, RetryAfterCap})
         IN [least |-> wait, most |-> wait]
    ELSE Backoff(attempt)

\* Whether the wait is too long to be spent on the spot.
TooLong(o, attempt) ==
    {Waits(o, attempt).least > InlineCap, Waits(o, attempt).most > InlineCap}

=============================================================================
