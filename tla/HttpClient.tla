----------------------------- MODULE HttpClient -----------------------------
(***************************************************************************)
(* The HTTP client of netx/httpx: Request.Execute (client_request.go) with *)
(* its rate limiter, retries, waits and body handling, the redirect rule   *)
(* of NewClient (client.go), and NewSafeClient (client_safe.go), which     *)
(* checks every connection after name resolution.                          *)
(*                                                                         *)
(* A URL is [scheme, host, port, path]; paths are sequences of segments.   *)
(* External: the server, which may execute a request whose answer is lost  *)
(* or is a redirect to a GET, and does not execute one it answers with     *)
(* 429, 307 or 308; what net/http makes of a redirect; and name            *)
(* resolution, which may change between two connections.                   *)
(***************************************************************************)
EXTENDS Integers, Sequences, FiniteSets

CONSTANTS
    HttpRequests,          \* the requests the caller builds
    Targets,            \* URLs a server may redirect to
    MaxRedirects,       \* redirects followed
    RetrySleep,         \* the client's first wait
    MaxRetryAfter,      \* cap on Retry-After
    RetryAfters         \* the values servers send in Retry-After

ASSUME HttpClientAssumption ==
    /\ MaxRedirects \in Nat /\ RetrySleep \in Nat /\ MaxRetryAfter \in Nat
    /\ RetryAfters \subseteq Nat

VARIABLES
    rq,         \* the request, and what NewRequest made of it
    ex,         \* Execute: where it is, its attempt, its wait and its result; get: the
                \* request on its way is the GET that a redirect made of it
    server,     \* history: executions, their bodies, where they arrived, and strays:
                \* attempts repeated for a 429 to such a GET
    bodies      \* response bodies not closed

clientVars == <<rq, ex, server, bodies>>

NoRequest == [kind |-> "none"]
Idle == [pc |-> "idle", attempt |-> 0, sleep |-> RetrySleep, fromHeader |-> FALSE,
         url |-> <<>>, via |-> 0, get |-> FALSE, fresh |-> TRUE, result |-> "none"]

HttpClientInit ==
    /\ rq = NoRequest /\ ex = Idle
    /\ server = [executed |-> 0, strays |-> 0, partial |-> FALSE, arrived |-> {}, waited |-> 0]
    /\ bodies = 0

-----------------------------------------------------------------------------
\* pathpkg.Clean on segments: ".." drops the one before it.
Clean(path) ==
    LET after[n \in 0 .. Len(path)] ==          \* the first n segments
            IF n = 0 THEN <<>>
            ELSE LET acc == after[n - 1] IN
                 IF path[n] = ".." THEN SubSeq(acc, 1, Len(acc) - 1)
                 ELSE IF path[n] = "." THEN acc ELSE Append(acc, path[n])
    IN  after[Len(path)]

\* joinBaseURL: the cleaned path stays under the base path of the same origin.
UnderBase(base, u) ==
    LET path == Clean(u.path)
    IN  Len(base.path) <= Len(path) /\ SubSeq(path, 1, Len(base.path)) = base.path
InsideBase(base, u) ==
    /\ u.scheme = base.scheme /\ u.host = base.host /\ u.port = base.port
    /\ UnderBase(base, u)

NewRequest(r) ==
    /\ rq = NoRequest
    /\ rq' = [kind |-> "built", r |-> r, retries |-> r.retries, urlErr |-> ~InsideBase(r.base, r.url)]
    /\ ex' = [Idle EXCEPT !.pc = "prepare"]
    /\ UNCHANGED <<server, bodies>>

Returns(result) == ex' = [ex EXCEPT !.pc = "returned", !.result = result]

\* Variant: a streamed body does not turn the retries off.
PrepareBodyAny ==
    /\ ex.pc = "prepare"
    /\ \/ rq.r.body = "unreadable" /\ Returns("body")
       \/ rq.r.body # "unreadable" /\ ex' = [ex EXCEPT !.pc = "attempt"]
    /\ UNCHANGED <<rq, server, bodies>>

\* prepareRequestBody: a reader that fails ends Execute; a stream too large to
\* buffer is sent once, so it turns the retries off.
PrepareBody ==
    /\ ex.pc = "prepare"
    /\ \/ rq.r.body = "unreadable" /\ Returns("body") /\ UNCHANGED rq
       \/ /\ rq.r.body # "unreadable"
          /\ rq' = [rq EXCEPT !.retries = IF rq.r.body = "stream" THEN 0 ELSE @]
          /\ ex' = [ex EXCEPT !.pc = "attempt"]
    /\ UNCHANGED <<server, bodies>>

\* handleRateLimiting: the limiter never gets to it before ctx ends.
HandleRateLimiting == Returns("ratelimit")

\* createHttpRequest: the URL NewRequest refused, or a signature that fails.
CreateHttpRequest ==
    \/ rq.urlErr /\ Returns("outside base")
    \/ rq.r.signed /\ Returns("signature")
    \/ /\ ~rq.urlErr
       /\ ex' = [ex EXCEPT !.pc = "send", !.url = rq.r.url, !.via = 0, !.get = FALSE]

\* One attempt: the reader is rebuilt from the buffered bytes, the limiter
\* waits for its turn, the request is created and signed.
Attempt ==
    /\ ex.pc = "attempt"
    /\ HandleRateLimiting \/ CreateHttpRequest
    /\ UNCHANGED <<rq, server, bodies>>

\* isBlocked and destinationGuard, run on the address the name resolves to.
Blocked(addr) == addr \in {"loopback", "private", "special"}

Guarded(addr) == rq.r.safe => addr \in rq.r.allowed \/ ~Blocked(addr)

\* Client.Do reaches the server of the current URL; the safe client refuses
\* plaintext and addresses that are not public.
Connect ==
    /\ ex.pc = "send"
    /\ \E addr \in {"public", "loopback", "special"} :
        IF (rq.r.safe => ex.url.scheme = "https") /\ Guarded(addr)
        THEN /\ ex' = [ex EXCEPT !.pc = "served"]
             /\ server' = [server EXCEPT !.arrived = @ \cup {[url |-> ex.url, addr |-> addr]}]
        ELSE ex' = [ex EXCEPT !.pc = "neterror"] /\ UNCHANGED server
    /\ UNCHANGED <<rq, bodies>>

\* sameOriginRedirect, against the first URL of the chain.
SameOrigin(from, to) ==
    LET upgrade == from.scheme = "http" /\ to.scheme = "https"
    IN  /\ from.host = to.host
        /\ to.scheme = from.scheme \/ upgrade
        /\ to.port = from.port \/ upgrade

\* The request takes effect, with the body this attempt carries: a stream is
\* at its end from the second attempt on.  A GET after a redirect has none.
Executes ==
    /\ ~ex.get
    /\ server' = [server EXCEPT !.executed = @ + 1,
                                !.partial = @ \/ (rq.r.body = "stream" /\ ~ex.fresh)]

\* The server answers with 307 or 308, to send the same request elsewhere, or
\* with 301, 302 or 303, for which net/http goes on with a GET: the request may
\* have taken effect.  A stream cannot be sent again, and its 307 is the answer.
Redirect(to, same) ==
    /\ ex.pc = "served" /\ ~(same /\ rq.r.body = "stream")
    /\ ex' = IF ex.via >= MaxRedirects THEN [ex EXCEPT !.pc = "neterror"]
             ELSE IF ~SameOrigin(rq.r.url, to) THEN [ex EXCEPT !.pc = "returned", !.result = "redirect blocked"]
             ELSE [ex EXCEPT !.pc = "send", !.url = to, !.via = @ + 1, !.get = @ \/ ~same]
    /\ (~same /\ Executes) \/ UNCHANGED server
    /\ UNCHANGED <<rq, bodies>>

RedirectReturned ==
    /\ ex.pc = "served" /\ rq.r.body = "stream"
    /\ ex' = [ex EXCEPT !.pc = "read"]
    /\ bodies' = bodies + 1
    /\ UNCHANGED <<rq, server>>

\* retrySafe: an idempotent method, or an Idempotency-Key.
RetrySafe == rq.r.idempotent \/ rq.r.key

LastAttempt == ex.attempt = rq.retries

Wait(from, sleep) ==
    ex' = [ex EXCEPT !.pc = "sleep", !.fromHeader = from, !.sleep = sleep]

\* A request that fails in the network, after it took effect or before.
NetworkError ==
    /\ ex.pc = "neterror"
    /\ IF LastAttempt \/ ~RetrySafe THEN Returns("network") ELSE Wait(FALSE, ex.sleep)
    /\ UNCHANGED <<rq, server, bodies>>

AnswerLost ==
    /\ ex.pc = "served"
    /\ ex' = [ex EXCEPT !.pc = "neterror"]
    /\ Executes \/ UNCHANGED server
    /\ UNCHANGED <<rq, bodies>>

\* A 429, which is retried whatever the method, from the first URL on;
\* handleRetryAfterHeader caps what the server asks for, and without it the
\* wait grows by 5 s.
TooManyRequests ==
    /\ ex.pc = "served"
    /\ \/ rq.r.disable429 /\ Returns("429") /\ UNCHANGED server
       \/ ~rq.r.disable429 /\ LastAttempt /\ Returns("429 exceeded") /\ UNCHANGED server
       \/ /\ ~rq.r.disable429 /\ ~LastAttempt
          /\ \/ Wait(FALSE, ex.sleep + 5)
             \/ \E h \in RetryAfters : Wait(TRUE, IF h < MaxRetryAfter THEN h ELSE MaxRetryAfter)
          /\ server' = [server EXCEPT !.strays = IF ex.get THEN @ + 1 ELSE @]
    /\ UNCHANGED <<rq, bodies>>

ClientError ==
    /\ ex.pc = "served"
    /\ Returns("4xx")
    /\ UNCHANGED <<rq, server, bodies>>

\* isRetryableStatus: 500, 502, 503 and 504.
ServerError(retryable) ==
    /\ ex.pc = "served"
    /\ IF ~retryable \/ LastAttempt \/ ~RetrySafe THEN Returns("5xx") ELSE Wait(FALSE, ex.sleep)
    /\ Executes \/ UNCHANGED server
    /\ UNCHANGED <<rq, bodies>>

\* sleepCtx: the wait, jittered unless the server asked for it, or ctx.
SleepOver ==
    /\ ex.pc = "sleep"
    /\ \/ Returns("ctx") /\ UNCHANGED server
       \/ /\ ex' = [ex EXCEPT !.pc = "attempt", !.attempt = @ + 1, !.fresh = FALSE]
          /\ server' = [server EXCEPT !.waited = IF ex.fromHeader /\ ex.sleep > @ THEN ex.sleep ELSE @]
    /\ UNCHANGED <<rq, bodies>>

\* A success: its body stays open until Execute has read it.
Success ==
    /\ ex.pc = "served"
    /\ ex' = [ex EXCEPT !.pc = "read"]
    /\ bodies' = bodies + 1
    /\ IF ex.get THEN UNCHANGED server ELSE Executes
    /\ UNCHANGED rq

\* readResponseBody: no content, a media type that is not JSON and an empty
\* body are nil; a body over the cap or malformed is an error.
ReadResponse ==
    /\ ex.pc = "read"
    /\ \E result \in {"value", "nil", "too large", "malformed"} : Returns(result)
    /\ bodies' = bodies - 1
    /\ UNCHANGED <<rq, server>>

HttpClientNext ==
    \/ \E r \in HttpRequests : NewRequest(r)
    \/ PrepareBody \/ Attempt \/ Connect \/ NetworkError \/ AnswerLost \/ TooManyRequests
    \/ ClientError \/ SleepOver \/ Success \/ ReadResponse \/ RedirectReturned
    \/ \E to \in Targets, same \in BOOLEAN : Redirect(to, same)
    \/ \E b \in BOOLEAN : ServerError(b)

HttpClientSpec == HttpClientInit /\ [][HttpClientNext]_clientVars
-----------------------------------------------------------------------------
\* Execute never repeats a request that is not safe to repeat once it may have
\* taken effect, but for one case: a redirect made a GET of it, and the 429 is
\* about that GET.  It never sends half of a body, waits no longer than the cap
\* however long a server asks for, leaves no response body open, and whatever
\* redirects it meets arrives only at the host of its base URL, never in
\* plaintext from https.
RetriedSafely ==
    /\ rq # NoRequest /\ ~(rq.r.idempotent \/ rq.r.key) => server.executed <= 1 + server.strays
    /\ ~server.partial
    /\ server.waited <= MaxRetryAfter
    /\ ex.pc = "returned" => bodies = 0
    /\ \A a \in server.arrived :
        /\ a.url.host = rq.r.base.host
        /\ rq.r.base.scheme = "https" => a.url.scheme = "https"
        /\ a.url = rq.r.url => UnderBase(rq.r.base, a.url)
        /\ rq.r.safe => a.url.scheme = "https" /\ (a.addr = "public" \/ a.addr \in rq.r.allowed)
=============================================================================
