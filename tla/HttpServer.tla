----------------------------- MODULE HttpServer -----------------------------
(***************************************************************************)
(* netx/httpx, the server: the chain of middlewares a request goes through *)
(* in NewServer's order, and inside it the wrappers registerRoute puts     *)
(* around the handler of a route.  Several requests are served at the same *)
(* time and share the concurrency slots and the rate limiter's buckets.    *)
(*                                                                         *)
(* A path and a pattern are sequences of segments; Param is the segment of *)
(* a path parameter.  A request is a record of what the middlewares look   *)
(* at: its method, path, Origin and requested preflight method (Nil when   *)
(* absent), TCP peer and X-Forwarded-For hops, API key, token and body.    *)
(* chi's routing and net/http's CrossOriginProtection are external.        *)
(* NetServer models how the same server starts, drains and stops, and      *)
(* Readiness what its readiness probe answers.                             *)
(***************************************************************************)
EXTENDS Integers, Sequences, FiniteSets

CONSTANTS
    Conn,           \* requests served at the same time
    HttpReqs,       \* the requests a client may send
    Routes,         \* [method, pattern, private, cors, request, write]; cors is a policy or
                    \* NoPolicy, request and write the route's timeouts, 0 when not set
    WSTimeouts,     \* WSConfig's [request, write] timeouts, 0 when not set
    ServerOptions,  \* [limiter, csrf, authed] of the servers looked at: the rate limiter, "none", "open"
                    \* or "closed" (FailClosed); unless DisableCrossOriginProtection, csrf; and the
                    \* routes added after UseAuth
    GlobalPolicy,   \* WSConfig.CORS
    TrustedProxies, \* addresses of trusted proxies
    KnownKeys,      \* API keys with a plan, or known to IsKnownAPIKey
    Burst,          \* requests a bucket lets through in one period
    PoolSize,       \* slots of each pool: [default |-> n, route prefix |-> n]
    MaxBody         \* WSConfig.MaxBodyBytes

Nil == "nil"
Param == "{id}"
SelfOrigin == "self"
NoPolicy == [any |-> FALSE, origins |-> {"no policy"}, credentials |-> FALSE, methods |-> {}]

\* CorsConfig.Validate: AnyOrigin and credentials exclude each other.
Validate(p) == ~(p.any /\ p.credentials)

ASSUME HttpServerAssumption ==
    /\ Burst \in Nat /\ MaxBody \in Nat
    /\ WSTimeouts \in [request : Nat, write : Nat]
    /\ \A p \in DOMAIN PoolSize : PoolSize[p] \in Nat \ {0}
    /\ "default" \in DOMAIN PoolSize
    /\ Validate(GlobalPolicy)
    /\ \A r \in Routes : Validate(r.cors) /\ r.request \in Nat /\ r.write \in Nat
    /\ \A r, s \in Routes : r.method = s.method /\ r.pattern = s.pattern => r = s
    /\ \A r \in HttpReqs : r.path \in Seq(STRING) /\ r.size \in Nat
    /\ IsFiniteSet(Conn)

VARIABLES
    http,   \* conn -> the request being served and where it is in the chain
    sem,    \* pool -> slots taken (newSemaphoreLimiter)
    used,   \* bucket -> requests the backend allowed (external)
    options \* how the server was built

httpVars == <<http, sem, used, options>>

NoCors == <<>>

NoReq == [pc |-> "idle", r |-> Nil, acao |-> NoCors, passed |-> FALSE, badBody |-> FALSE,
          ran |-> FALSE, cut |-> FALSE, status |-> 0]

(***************************************************************************)
(* Routing (chi, external): a static segment wins over a parameter, and a  *)
(* pattern that does not serve the method is passed over.                  *)
(***************************************************************************)
Fits(pattern, path) ==
    /\ Len(pattern) = Len(path)
    /\ \A i \in DOMAIN path : pattern[i] \in {path[i], Param}

Wins(p, q, path) ==
    \E i \in DOMAIN path :
        /\ p[i] = path[i] /\ q[i] # path[i]
        /\ \A j \in 1 .. i - 1 : p[j] = q[j]

Find(patterns, path) ==
    {p \in patterns : Fits(p, path) /\ \A q \in patterns : Fits(q, path) => q = p \/ Wins(p, q, path)}

\* The route that serves method on path: a set with one member, or empty.
RouteOf(method, path) ==
    LET served == {r \in Routes : r.method = method}
    IN  {r \in served : r.pattern \in Find({s.pattern : s \in served}, path)}

(***************************************************************************)
(* The time a route gives its handler and its response.                    *)
(***************************************************************************)
DefaultRequestTimeout == 30
DefaultWriteTimeout == 35

OrDefault(d, fallback) == IF d <= 0 THEN fallback ELSE d

\* registerRoute: the budget covers the wait for a slot, auth and the handler.
RequestTimeout(route) == OrDefault(route.request, OrDefault(WSTimeouts.request, DefaultRequestTimeout))

\* routeWriteTimeout: 0 keeps the server's.
RouteWriteTimeout(route) ==
    LET needed == route.request + (DefaultWriteTimeout - DefaultRequestTimeout)
        server == OrDefault(WSTimeouts.write, DefaultWriteTimeout)
    IN  IF route.request <= 0 \/ needed <= server \/ needed <= route.write
        THEN route.write ELSE needed

\* routeDeadlines, over Server.WriteTimeout: net/http's writer takes the deadline.
WriteDeadline(route) == OrDefault(RouteWriteTimeout(route), OrDefault(WSTimeouts.write, DefaultWriteTimeout))

(***************************************************************************)
(* CORS.                                                                   *)
(***************************************************************************)
\* allowOrigin
AllowOrigin(p, origin) ==
    IF origin = Nil THEN Nil
    ELSE IF p.any THEN "*"
    ELSE IF origin \in p.origins THEN origin
    ELSE Nil

\* What a response shows of a policy: the allowed origin and the credentials.
Apply(p, origin) ==
    IF AllowOrigin(p, origin) = Nil THEN NoCors
    ELSE <<AllowOrigin(p, origin), p.credentials>>

IsPreflight(r) == r.method = "OPTIONS" /\ r.origin # Nil /\ r.acrm # Nil

\* Variant: the policy of any route with the pattern, whatever its method.
LookupAnyMethod(r) ==
    LET own   == {s \in Routes : s.cors # NoPolicy}
        found == {s \in own : s.pattern \in Find({o.pattern : o \in own}, r.path)}
    IN  IF found # {} THEN (CHOOSE s \in found : TRUE).cors ELSE GlobalPolicy

\* routePreflights.add and lookup: the patterns with a policy of their own,
\* then the method; other methods of those patterns keep the global policy.
Lookup(r) ==
    LET own     == {s \in Routes : s.cors # NoPolicy}
        found   == {s \in own : s.pattern \in Find({o.pattern : o \in own}, r.path)}
        methods == {s \in found : s.method = r.acrm}
    IN  IF methods # {} THEN (CHOOSE s \in methods : TRUE).cors ELSE GlobalPolicy

\* preflight: 204 with the policy, or 403 without CORS headers.
Preflight(p, r) ==
    IF AllowOrigin(p, r.origin) # Nil /\ r.acrm \in p.methods
    THEN [status |-> 204, acao |-> Apply(p, r.origin)]
    ELSE [status |-> 403, acao |-> NoCors]

\* crossOriginProtection (net/http, external): a request that may change state,
\* from another origin that is not trusted, is refused.
CrossSite(r, trusted) ==
    r.method \notin {"GET", "HEAD", "OPTIONS"} /\ r.origin \notin trusted \cup {Nil, SelfOrigin}

(***************************************************************************)
(* Client address, rate limit bucket, slot pool.                           *)
(***************************************************************************)
\* resolveClientIP: from the last hop back, the first that is not a trusted
\* proxy; a hop that is no address ends the walk at the peer.
ResolveClientIP(r) ==
    LET stops == {i \in DOMAIN r.xff : r.xff[i] \notin TrustedProxies}
        last  == CHOOSE i \in stops : \A j \in stops : j <= i
    IN  IF r.peer \notin TrustedProxies \/ stops = {} \/ r.xff[last] = "junk"
        THEN r.peer ELSE r.xff[last]

\* Variant: any API key has a bucket of its own.
BucketOfAnyKey(r) == IF r.key # Nil THEN <<"key", r.key>> ELSE <<"ip", ResolveClientIP(r)>>

\* bucket: a known API key has its own, anything else that of its address.
Bucket(r) ==
    IF r.key \in KnownKeys THEN <<"key", r.key>> ELSE <<"ip", ResolveClientIP(r)>>

\* NewStressControlMiddleware: the first route limit whose path is a prefix.
PoolOf(r) == IF r.path[1] \in DOMAIN PoolSize THEN r.path[1] ELSE "default"

ReqBuckets == {Bucket(r) : r \in HttpReqs} \cup {BucketOfAnyKey(r) : r \in HttpReqs}

HttpServerInit ==
    /\ http = [c \in Conn |-> NoReq]
    /\ sem = [p \in DOMAIN PoolSize |-> 0]
    /\ used = [b \in ReqBuckets |-> 0]
    /\ options \in ServerOptions

(***************************************************************************)
(* The chain.                                                              *)
(***************************************************************************)
\* registerRoute: the wrappers of a route's handler, outermost first: the stress
\* limiter, which buffers and then takes a slot, and crossOrigin with auth inside.
Wrappers == <<"buffer", "slot", "route", "handler">>

Inner(pc) == Wrappers[1 + CHOOSE i \in DOMAIN Wrappers : Wrappers[i] = pc]

Step(c, pc) == http' = [http EXCEPT ![c].pc = pc]

Answer(c, status) == http' = [http EXCEPT ![c].pc = "done", ![c].status = status]

\* handler: health probes are answered ahead of the router.  Otherwise
\* requestContext, SecurityHeadersWith, Recoverer and ClientIPMiddleware, then
\* corsMiddleware answers a preflight or applies the global policy.
Accept(c) ==
    /\ http[c].pc = "idle"
    /\ \E r \in HttpReqs :
         http' = [http EXCEPT ![c] =
            IF r.method = "GET" /\ r.path = <<"livez">>
            THEN [NoReq EXCEPT !.r = r, !.pc = "done", !.status = 200]
            ELSE IF IsPreflight(r)
            THEN [NoReq EXCEPT !.r = r, !.pc = "done", !.status = Preflight(Lookup(r), r).status,
                               !.acao = Preflight(Lookup(r), r).acao]
            ELSE [NoReq EXCEPT !.r = r, !.pc = "limit", !.acao = Apply(GlobalPolicy, r.origin)]]
    /\ UNCHANGED <<sem, used>>

\* NewServer adds NewRedisRateLimiter if configured: the backend counts and
\* answers, or fails.
RateLimit(c) ==
    /\ http[c].pc = "limit"
    /\ LET b == Bucket(http[c].r)
       IN  \/ /\ options.limiter # "none" /\ used[b] < Burst
              /\ used' = [used EXCEPT ![b] = @ + 1]
              /\ http' = [http EXCEPT ![c].pc = "screen", ![c].passed = TRUE]
           \/ /\ options.limiter # "none" /\ used[b] >= Burst
              /\ Answer(c, 429)
              /\ UNCHANGED used
           \/ /\ IF options.limiter = "closed" THEN Answer(c, 503) ELSE Step(c, "screen")
              /\ UNCHANGED used
    /\ UNCHANGED sem

\* LoggingMiddleware, BlockUnsafeMethods, LimitBodyWithMax, then the routing and
\* the outer wrappers of the route: telemetry, deadlines, Timeout.
Screen(c) ==
    /\ http[c].pc = "screen"
    /\ LET r == http[c].r
       IN  \/ r.method = "TRACE" /\ Answer(c, 405)
           \/ r.method # "TRACE" /\ ~r.chunked /\ r.size > MaxBody /\ Answer(c, 413)
           \/ /\ r.method # "TRACE" /\ (r.chunked \/ r.size <= MaxBody)
              /\ IF RouteOf(r.method, r.path) # {} THEN Step(c, Wrappers[1])
                 ELSE Answer(c, IF \E s \in Routes : Fits(s.pattern, r.path) THEN 405 ELSE 404)
    /\ UNCHANGED <<sem, used>>

\* bufferBody reads the first bytes; what fails, the cap of MaxBytesReader or
\* the connection, is kept for the handler to see.
BufferBody(c) ==
    /\ http[c].pc = "buffer"
    /\ \E failed \in (IF http[c].r.size > MaxBody THEN {TRUE} ELSE IF http[c].r.size = 0 THEN {FALSE} ELSE BOOLEAN) :
         http' = [http EXCEPT ![c].pc = Inner(@), ![c].badBody = failed]
    /\ UNCHANGED <<sem, used>>

\* newSemaphoreLimiter: a slot, or 503 when the wait times out (or the request's
\* context ends).
TakeSlot(c) ==
    /\ http[c].pc = "slot"
    /\ LET p == PoolOf(http[c].r)
       IN  \/ /\ sem[p] < PoolSize[p]
              /\ sem' = [sem EXCEPT ![p] = @ + 1]
              /\ Step(c, Inner("slot"))
           \/ Answer(c, 503) /\ UNCHANGED sem
    /\ UNCHANGED used

\* The deferred release of the slot.
Release(c) == sem' = [sem EXCEPT ![PoolOf(http[c].r)] = @ - 1]

\* crossOrigin: routeCORS replaces the global headers and CrossOriginProtection
\* trusts the origins of the route's policy (a policy open to any origin skips
\* the check, and so does a server without it); then auth, on a private route
\* that was added once the server had it; then the handler.
CrossOrigin(c) ==
    /\ http[c].pc = "route"
    /\ LET r     == http[c].r
           route == CHOOSE s \in RouteOf(r.method, r.path) : TRUE
           own   == route.cors # NoPolicy
           p     == IF own THEN route.cors ELSE GlobalPolicy
           acao  == IF own THEN Apply(p, r.origin) ELSE http[c].acao
           ends  == IF options.csrf /\ CrossSite(r, p.origins) /\ ~(own /\ p.any) THEN 403
                    ELSE IF route.private /\ route \in options.authed /\ ~r.token THEN 401
                    ELSE 0
       IN  IF ends = 0
           THEN http' = [http EXCEPT ![c].pc = Inner(@), ![c].acao = acao, ![c].ran = TRUE] /\ UNCHANGED sem
           ELSE /\ http' = [http EXCEPT ![c].pc = "done", ![c].acao = acao, ![c].status = ends]
                /\ Release(c)
    /\ UNCHANGED used

\* ParseRequestBody, for a handler that reads a body: the media type, the cap,
\* one JSON value and nothing after it.
ParseRequestBody(r, badBody) ==
    IF r.media # "json" THEN 415
    ELSE IF badBody /\ r.size > MaxBody THEN 413
    ELSE IF badBody \/ r.size = 0 \/ ~r.valid THEN 400
    ELSE 200

\* The handler answers, panics (Recoverer writes 500), aborts the response
\* (http.ErrAbortHandler, re-raised: no status) or runs into its deadline: chi's
\* Timeout writes 504 when it wrote nothing, which the connection takes only
\* before its write deadline.  The slot is released on every way out.
Handle(c) ==
    /\ http[c].pc = "handler"
    /\ \/ \E status \in {ParseRequestBody(http[c].r, http[c].badBody), 500, 0} : Answer(c, status)
       \/ LET route == CHOOSE s \in RouteOf(http[c].r.method, http[c].r.path) : TRUE
              cut   == WriteDeadline(route) <= RequestTimeout(route)
          IN  http' = [http EXCEPT ![c].pc = "done", ![c].status = IF cut THEN 0 ELSE 504, ![c].cut = cut]
    /\ Release(c)
    /\ UNCHANGED used

HttpServerNext ==
    /\ \E c \in Conn :
        \/ Accept(c) \/ RateLimit(c) \/ Screen(c) \/ BufferBody(c)
        \/ TakeSlot(c) \/ CrossOrigin(c) \/ Handle(c)
    /\ UNCHANGED options

HttpServerSpec == HttpServerInit /\ [][HttpServerNext]_httpVars

-----------------------------------------------------------------------------
\* The policy of the route that serves method on path, the global one when it
\* has none.
PolicyFor(method, path) ==
    LET s == {r \in RouteOf(method, path) : r.cors # NoPolicy}
    IN  IF s = {} THEN GlobalPolicy ELSE (CHOOSE r \in s : TRUE).cors

\* The handler of a route ran only for a request that every layer the server has
\* lets through, whatever else was served at the same time: a limiter that fails
\* closed let it pass, its body was within the cap, the origin is one the policy
\* of that very route trusts (with cross-origin protection), the token is there
\* when the route is private and was added after UseAuth; the slots taken are
\* exactly those of the requests inside, within the pool's size; a handler that
\* used the whole RequestTimeout of its route can still answer, unless the route
\* has a write timeout of its own; and the requests of one address without a
\* known API key that the limiter let through within a period are at most Burst.
HandlerGuarded ==
    /\ \A c \in Conn : http[c].ran =>
         LET r == http[c].r
             p == PolicyFor(r.method, r.path)
         IN  /\ options.limiter = "closed" => http[c].passed
             /\ \E s \in RouteOf(r.method, r.path) : s.private /\ s \in options.authed => r.token
             /\ options.csrf /\ CrossSite(r, p.origins) => p.any
             /\ http[c].cut => \E s \in RouteOf(r.method, r.path) : s.request = 0 \/ s.write > 0
             /\ r.size > MaxBody => r.chunked /\ http[c].status \notin {200, 204}
    /\ \A p \in DOMAIN PoolSize :
         /\ sem[p] = Cardinality({c \in Conn : http[c].pc \in {"route", "handler"} /\ PoolOf(http[c].r) = p})
         /\ sem[p] <= PoolSize[p]
    /\ \A a \in {ResolveClientIP(r) : r \in HttpReqs} :
         Cardinality({c \in Conn : /\ http[c].ran /\ http[c].passed
                                   /\ http[c].r.key \notin KnownKeys
                                   /\ ResolveClientIP(http[c].r) = a}) <= Burst

\* A response that reached the route, and the answer to a preflight, carry the
\* CORS headers of the policy of the route that serves the request: Origin
\* answered with another route's policy lets a page read, or keeps it from
\* reading, what it should not.
PolicyOfRoute ==
    \A c \in Conn : http[c].pc = "done" =>
        LET r == http[c].r
        IN  /\ http[c].ran => http[c].acao = Apply(PolicyFor(r.method, r.path), r.origin)
            /\ IsPreflight(r) => http[c].acao = Preflight(PolicyFor(r.acrm, r.path), r).acao
=============================================================================
