----------------------------- MODULE MCPlatform -----------------------------
(***************************************************************************)
(* One instance of each model of netx, of the mailer, of sign-in (identity *)
(* providers, login throttle) and of the configuration, for TLC.  A        *)
(* behaviour is of one part: the others keep their initial state.          *)
(***************************************************************************)
EXTENDS HttpClient, HttpServer, Readiness, CertReload, GrpcCall, Mail, Idp, LoginThrottle, Bootstrap, Tokens

VARIABLE part

\* A deployment with these variables and components, and nothing else.
Deployment(os, components) ==
    [os |-> os, file |-> <<>>, dot |-> <<>>, dotenv |-> "missing", override |-> "",
     secrets |-> <<>>, stores |-> {}, components |-> components, injected |-> {},
     codeTLS |-> {}, allow |-> {}, broker |-> "", drivers |-> {"postgres", "mysql", "oracle"}]
Prod == "APP_ENVIRONMENT" :> Text("prod")
MCBare == Deployment(Prod, {})

Calling    == part = "http client" /\ UNCHANGED <<part, httpVars, readinessVars, certVars, grpcVars, mailVars, idpVars, throttleVars, bootVars, tokenVars>>
Serving    == part = "http server" /\ UNCHANGED <<part, clientVars, readinessVars, certVars, grpcVars, mailVars, idpVars, throttleVars, bootVars, tokenVars>>
Probing    == part = "readiness" /\ UNCHANGED <<part, clientVars, httpVars, certVars, grpcVars, mailVars, idpVars, throttleVars, bootVars, tokenVars>>
Rotating   == part = "certificates" /\ UNCHANGED <<part, clientVars, httpVars, readinessVars, grpcVars, mailVars, idpVars, throttleVars, bootVars, tokenVars>>
Chaining   == part = "grpc" /\ UNCHANGED <<part, clientVars, httpVars, readinessVars, certVars, mailVars, idpVars, throttleVars, bootVars, tokenVars>>
Mailing    == part = "mail" /\ UNCHANGED <<part, clientVars, httpVars, readinessVars, certVars, grpcVars, idpVars, throttleVars, bootVars, tokenVars>>
Signing    == part = "idp" /\ UNCHANGED <<part, clientVars, httpVars, readinessVars, certVars, grpcVars, mailVars, throttleVars, bootVars, tokenVars>>
Throttling == part = "login" /\ UNCHANGED <<part, clientVars, httpVars, readinessVars, certVars, grpcVars, mailVars, idpVars, bootVars, tokenVars>>
Booting    == part = "bootstrap" /\ UNCHANGED <<part, clientVars, httpVars, readinessVars, certVars, grpcVars, mailVars, idpVars, throttleVars, tokenVars>>
Guarding   == part = "tokens" /\ UNCHANGED <<part, clientVars, httpVars, readinessVars, certVars, grpcVars, mailVars, idpVars, throttleVars, bootVars>>

Init ==
    /\ part \in {"http client", "http server", "readiness", "certificates", "grpc", "mail", "idp", "login", "bootstrap", "tokens"}
    /\ probing \in IF part = "readiness" THEN {"http", "grpc"} ELSE {"http"}
    /\ options \in IF part = "http server" THEN ServerOptions ELSE {CHOOSE o \in ServerOptions : TRUE}
    /\ store \in IF part = "login" THEN {"memory", "redis"} ELSE {"redis"}
    /\ dep \in IF part = "bootstrap" THEN Deployments ELSE {MCBare}
    /\ HttpClientInit /\ HttpServerInit /\ ReadinessInit /\ CertReloadInit /\ GrpcInit
    /\ MailInit /\ IdpInit /\ ThrottleInit /\ BootstrapInit /\ TokensInit

Next ==
    \/ Calling /\ HttpClientNext
    \/ Serving /\ HttpServerNext
    \/ Probing /\ ReadinessNext
    \/ Rotating /\ CertReloadNext
    \/ Chaining /\ GrpcNext
    \/ Mailing /\ MailNext
    \/ Signing /\ IdpNext
    \/ Throttling /\ ThrottleNext
    \/ Booting /\ BootstrapNext
    \/ Guarding /\ TokensNext
-----------------------------------------------------------------------------
URL(s, h, p, path) == [scheme |-> s, host |-> h, port |-> p, path |-> path]

\* Requests that may and may not be repeated, bodies that can and cannot be
\* sent again, a path that leaves the base, a client for untrusted addresses.
MCHttpRequests ==
    LET r == [base |-> URL("https", "a", 443, <<"v1">>), url |-> URL("https", "a", 443, <<"v1", "x">>),
              retries |-> 2, body |-> "buffered", idempotent |-> TRUE, key |-> FALSE, signed |-> FALSE,
              disable429 |-> FALSE, safe |-> FALSE, allowed |-> {}]
    IN  {[r EXCEPT !.retries = 1], [r EXCEPT !.idempotent = FALSE],
         [r EXCEPT !.idempotent = FALSE, !.key = TRUE, !.body = "stream", !.signed = TRUE],
         [r EXCEPT !.url.path = <<"v1", "..", "x">>], [r EXCEPT !.body = "unreadable"],
         [r EXCEPT !.disable429 = TRUE, !.body = "stream", !.retries = 1],
         [r EXCEPT !.safe = TRUE, !.allowed = {"special"}, !.retries = 1]}
MCTargets == {URL("https", "a", 443, <<"login">>), URL("https", "b", 443, <<"v1">>)}

\* A route with its own policy beside one of the same path without.
Policy(any, o, cr, m) == [any |-> any, origins |-> o, credentials |-> cr, methods |-> m]
MCGlobal == Policy(FALSE, {"o1"}, TRUE, {"GET", "POST"})
MCRoutes ==
    {[method |-> "GET", pattern |-> <<"orders", Param>>, private |-> TRUE, cors |-> NoPolicy,
      request |-> 0, write |-> 20],
     [method |-> "POST", pattern |-> <<"orders", Param>>, private |-> TRUE, cors |-> Policy(FALSE, {"o2"}, TRUE, {"POST"}),
      request |-> 40, write |-> 0],
     [method |-> "POST", pattern |-> <<"widget">>, private |-> FALSE, cors |-> Policy(TRUE, {}, FALSE, {"POST"}),
      request |-> 60, write |-> 10]}
\* A server with every guard, and servers without one or two of them.
MCGuarded == [limiter |-> "closed", csrf |-> TRUE, authed |-> MCRoutes]
MCServerOptions ==
    {MCGuarded, [MCGuarded EXCEPT !.limiter = "open"], [MCGuarded EXCEPT !.limiter = "none", !.csrf = FALSE],
     [MCGuarded EXCEPT !.authed = {r \in MCRoutes : r.method = "POST"}]}
MCTimeouts == [request |-> 0, write |-> 36]
MCPools == [default |-> 1, widget |-> 1]
MCHttpReqs ==
    LET r == [method |-> "GET", path |-> <<"orders", "7">>, origin |-> Nil, acrm |-> Nil, peer |-> "p", xff |-> <<>>,
              key |-> Nil, token |-> TRUE, size |-> 0, chunked |-> FALSE, media |-> "json", valid |-> TRUE]
        widget == [r EXCEPT !.path = <<"widget">>, !.method = "POST", !.origin = "o2", !.size = 1]
    IN  {[r EXCEPT !.method = m, !.origin = "o2", !.token = t] : m \in {"GET", "POST"}, t \in BOOLEAN}
        \cup {[r EXCEPT !.method = "OPTIONS", !.origin = o, !.acrm = m] : m \in {"GET", "POST"}, o \in {"o1", "o2"}}
        \cup {widget, [widget EXCEPT !.size = 2, !.chunked = TRUE], [widget EXCEPT !.size = 2],
              [widget EXCEPT !.media = "form"], [widget EXCEPT !.valid = FALSE]}
        \cup {[r EXCEPT !.key = "k1", !.xff = <<"x", "p">>], [r EXCEPT !.key = "k2", !.xff = <<"x", "junk">>],
              [r EXCEPT !.path = <<"livez">>], [r EXCEPT !.path = <<"none">>], [r EXCEPT !.method = "TRACE"]}

MCClients ==
    LET c == [insecure |-> FALSE, tls |-> TRUE, pair |-> "none", token |-> "valid", attempts |-> 0, codes |-> {}]
    IN  {c, [c EXCEPT !.attempts = 2], [c EXCEPT !.attempts = 2, !.codes = {"Internal"}],
         [c EXCEPT !.token = "fails", !.attempts = 2, !.codes = {"Unauthenticated"}], [c EXCEPT !.token = "none"],
         [c EXCEPT !.insecure = TRUE], [c EXCEPT !.pair = "half"]}
\* A code that two processes know, and one that they know under another kind.
MCAppErrs == {[reason |-> "NEW", kind |-> k] : k \in Kinds \cup {""}}
             \cup {[reason |-> "SOLD_OUT", kind |-> "unprocessable"], [reason |-> "BUSY", kind |-> "too many requests"]}
MCRegistry == 0 :> [SOLD_OUT |-> "unprocessable"] @@ 1 :> <<>> @@ 3 :> <<>>
              @@ 2 :> [SOLD_OUT |-> "unprocessable", BUSY |-> "external"]

\* Mails, alone and in bulk, some of them invalid, to servers with and without
\* STARTTLS and AUTH.
Letter(f, t, b, h, x, fs) == [from |-> f, to |-> t, bcc |-> b, html |-> h, text |-> x, files |-> fs]
Copied == Letter("ok", <<"ok">>, <<"ok">>, "h", "t", <<>>)
Attached == Letter("ok", <<"ok", "blank">>, <<>>, "", "t", <<"f">>)
Html == Letter("ok", <<"ok">>, <<>>, "h", "", <<>>)
MCMails ==
    {<<>>, <<Copied>>, <<Attached>>, <<[Html EXCEPT !.from = "blank"]>>, <<Copied, [Html EXCEPT !.bcc = <<"bad">>], Attached>>,
     <<Html, Copied, Attached>>, <<[Html EXCEPT !.to = <<"blank">>], Copied, [Html EXCEPT !.html = ""]>>}
Smtp(e, a, l, p, r) ==
    [host |-> "h", from |-> "ok", encryption |-> e, auth |-> a, username |-> a = "", local |-> l, pool |-> p, retries |-> r]
MCSettings ==
    {Smtp("", "", FALSE, 0, 1), Smtp("none", "login", FALSE, 0, 1), Smtp("none", "plain", FALSE, 1, 1), Smtp("tls", "login", FALSE, 2, 0),
     Smtp("none", "none", TRUE, 1, 2), Smtp("none", "plain", TRUE, 0, 0), Smtp("other", "none", TRUE, 0, 0)}
MCServers == [starttls : BOOLEAN, auth : BOOLEAN]

\* Deployments: one family per component that opens a connection.
MCFields == <<"APP_ENVIRONMENT", "DATABASE_DRIVER", "DATABASE_HOST", "DATABASE_READ_HOST", "DATABASE_USER",
      "DATABASE_PASSWORD", "DATABASE_SSL_MODE", "DATABASE_SSL_ROOT_CERT", "DATABASE_SSL_CERT", "DATABASE_SSL_KEY",
      "DATABASE_FULLTEXT_POLICY", "DATABASE_LOG_QUERIES",
      "CACHE_TYPE", "CACHE_URI", "CACHE_USE_TLS", "MESSAGING_PROVIDER", "MESSAGING_USE_TLS", "MESSAGING_TLS_CA_FILE",
      "MESSAGING_TLS_INSECURE_SKIP_VERIFY", "BUCKET_PROVIDER", "BUCKET_ENDPOINT", "BUCKET_S3_USE_SSL",
      "OTEL_EXPORTER_OTLP_ENDPOINT", "OTEL_EXPORTER_OTLP_INSECURE", "OTEL_EXPORTER_OTLP_CERTIFICATE",
      "TLS_INSECURE_SKIP_VERIFY", "JWT_SECRET",
      "HTTP_TLS_CERT_FILE", "HTTP_TLS_KEY_FILE", "HTTP_TLS_CLIENT_CA_FILE", "HTTP_TLS_CLIENT_AUTH", "HTTP_REQUIRE_TLS",
      "GRPC_TLS_CERT_FILE", "GRPC_TLS_KEY_FILE", "GRPC_TLS_CLIENT_CA_FILE", "GRPC_TLS_CLIENT_AUTH", "GRPC_REQUIRE_TLS">>
MCBools == {"DATABASE_LOG_QUERIES", "CACHE_USE_TLS", "MESSAGING_USE_TLS", "MESSAGING_TLS_INSECURE_SKIP_VERIFY",
      "BUCKET_S3_USE_SSL", "TLS_INSECURE_SKIP_VERIFY", "HTTP_REQUIRE_TLS", "GRPC_REQUIRE_TLS"}

Texts(T) == {Text(t) : t \in T}
Flag == {Blank, Text("true")}
FlagsOf(names) == [names -> Flag]

DatabaseDeployments ==
    {Deployment([APP_ENVIRONMENT |-> e, DATABASE_DRIVER |-> d, DATABASE_HOST |-> h, DATABASE_READ_HOST |-> r,
                 DATABASE_SSL_MODE |-> m], {"database"}) :
        e \in Texts({"prod", "dev"}), d \in Texts({"", "mysql", "oracle", "sqlserver"}), h \in Texts({"db", "localhost"}),
        r \in Texts({"", "replica", "localhost"}), m \in Texts({"", "require", "verify-ca", "verify-full"})}
CertDeployments ==
    {Deployment(Prod @@ [DATABASE_DRIVER |-> d, DATABASE_HOST |-> Text("db"), DATABASE_SSL_MODE |-> m,
                 DATABASE_SSL_ROOT_CERT |-> r, DATABASE_SSL_CERT |-> c, DATABASE_SSL_KEY |-> k], {"database"}) :
        d \in Texts({"", "mysql", "sqlserver"}), m \in Texts({"require", "verify-full", "verify"}),
        r \in Texts({"", "ca"}), c \in Texts({"", "crt"}), k \in Texts({"", "crt"})}
PolicyDeployments ==
    {Deployment([APP_ENVIRONMENT |-> e, DATABASE_FULLTEXT_POLICY |-> p, DATABASE_LOG_QUERIES |-> l], {"database"}) :
        e \in Texts({"stage", "test"}), p \in Texts({"", "ensure", "off"}), l \in Flag}
RedisDeployments ==
    {Deployment(Prod @@ [CACHE_TYPE |-> t, CACHE_URI |-> u, CACHE_USE_TLS |-> s, JWT_SECRET |-> Text("k")], c) :
        t \in Texts({"", "redis"}), u \in Texts({"", "redis"}), s \in Texts({"", "true", "yes"}),
        c \in {{"cache"}, {"session"}, {"iam"}, {"cache", "session"}}}
BrokerDeployments ==
    {[Deployment(Prod @@ [MESSAGING_PROVIDER |-> p] @@ f, {"messaging"}) EXCEPT !.allow = a] :
        p \in Texts({"", "kafka", "redis", "sqs"}), a \in {{}, {"messaging"}},
        f \in FlagsOf({"MESSAGING_USE_TLS", "MESSAGING_TLS_CA_FILE", "MESSAGING_TLS_INSECURE_SKIP_VERIFY", "CACHE_USE_TLS"})}
OtlpDeployments ==
    {Deployment(Prod @@ [OTEL_EXPORTER_OTLP_ENDPOINT |-> Url(s, h), OTEL_EXPORTER_OTLP_INSECURE |-> i,
                         OTEL_EXPORTER_OTLP_CERTIFICATE |-> c], {"observability"}) :
        s \in {"", "http", "https", "unix"}, h \in {"", "localhost", "otel"}, i \in Flag, c \in Flag}
BucketDeployments ==
    {Deployment(Prod @@ [BUCKET_PROVIDER |-> p, BUCKET_ENDPOINT |-> Url(s, h), BUCKET_S3_USE_SSL |-> b,
                         TLS_INSECURE_SKIP_VERIFY |-> t], {}) :
        p \in Texts({"s3", "oci"}), s \in {"", "http", "https"}, h \in {"", "minio"}, b \in Flag, t \in Flag}
ServerDeployments ==
    {[Deployment(Prod @@ [HTTP_TLS_CERT_FILE |-> f, HTTP_TLS_KEY_FILE |-> k, HTTP_TLS_CLIENT_CA_FILE |-> ca,
                          HTTP_TLS_CLIENT_AUTH |-> m, HTTP_REQUIRE_TLS |-> r], {"http"}) EXCEPT !.codeTLS = t] :
        f \in Flag, k \in Flag, ca \in Flag, m \in Texts({"", "none", "require_and_verify"}), r \in Flag, t \in {{}, {"http"}}}
    \cup
    {[Deployment(Prod @@ [GRPC_TLS_CERT_FILE |-> f, GRPC_TLS_KEY_FILE |-> k, GRPC_REQUIRE_TLS |-> r], {"grpc"})
          EXCEPT !.codeTLS = t] :
        f \in Flag, k \in Flag, r \in Flag, t \in {{}, {"grpc"}}}
Ref(s, n, k) == [store |-> s, name |-> n, key |-> k]
Secretive(e, p, m) ==
    [Deployment([APP_ENVIRONMENT |-> e, DATABASE_USER |-> Ref("awssm", "db", "user"), DATABASE_HOST |-> Text("db"),
                 DATABASE_PASSWORD |-> p, DATABASE_SSL_MODE |-> m], {"database"}) EXCEPT
        !.secrets = (<<"awssm", "db">> :> [user |-> Text("u"), password |-> Text("p")])
                      @@ (<<"awssm", "tls">> :> ("" :> Text("require"))),
        !.stores = {"awssm"}]
SecretDeployments ==
    {Secretive(Text("prod"), Ref("awssm", "db", k), Ref(s, "tls", "")) : k \in {"password", "pin"}, s \in {"awssm", "vault", ""}}
FileDeployments ==
    {[Deployment([APP_ENVIRONMENT |-> e, DATABASE_HOST |-> Text("db"), DATABASE_SSL_MODE |-> Text("require")], {"database"})
         EXCEPT !.file = [APP_ENVIRONMENT |-> f], !.dot = [APP_ENVIRONMENT |-> Text("dev"), DATABASE_HOST |-> Text("localhost")],
                !.dotenv = d, !.override = o] :
        e \in Texts({"", "production", "prod"}), f \in {Blank, Text("prod"), [gone |-> TRUE]},
        d \in {"missing", "ok", "broken"}, o \in {"", "true", "false"}}
InjectedDeployments ==
    {[Deployment(Prod @@ [CACHE_TYPE |-> Text("redis"), CACHE_URI |-> Text("redis"), CACHE_USE_TLS |-> t,
                          JWT_SECRET |-> Text("k")], {"cache", "session", "iam"}) EXCEPT
          !.injected = {i}, !.allow = a] :
        t \in Flag, i \in {"cache", "iam"}, a \in {{}, {"all"}}}
MCDeployments ==
    {MCBare} \cup DatabaseDeployments \cup CertDeployments \cup PolicyDeployments \cup RedisDeployments \cup BrokerDeployments \cup OtlpDeployments
      \cup BucketDeployments \cup ServerDeployments \cup SecretDeployments \cup FileDeployments \cup InjectedDeployments

\* A rotation of the secret in three releases, the first without a key id,
\* releases that New refuses, and a service with an RSA key pair of its own.
Secret(id) == Key("bytes", id, 32)
MCSecurity == [ttl |-> 0, refresh |-> 0, lifetime |-> 0, issuer |-> "", verify |-> FALSE, skipIssuer |-> FALSE,
               audience |-> "", skew |-> 0, ticket |-> NoKey, skipTicket |-> FALSE, dummy |-> ""]
MCJwt == [alg |-> "RS256", secret |-> NoKey, priv |-> Key("rsa", "p", 2048), pub |-> Key("rsa.pub", "p", 2048),
          kid |-> "p", keys |-> <<>>, ttl |-> 0, issuer |-> "", verify |-> FALSE, audience |-> "api", leeway |-> 0]
RotatedTo(new, kid, old, oldKid) ==
    [use |-> TRUE, secret |-> new, kid |-> kid, prevSecret |-> old, prevKid |-> oldKid]
ReleaseOf(default, sec, jwt) ==
    [default |-> default, sec |-> sec, jwt |-> jwt, session |-> TRUE, login |-> TRUE]
MCReleases ==
    LET first == ReleaseOf(RotatedTo(Secret("s1"), "", NoKey, ""), MCSecurity, MCJwt)
        own == [first EXCEPT !.default.use = FALSE, !.sec.ticket = Secret("s9")]
    IN  <<first,
          ReleaseOf(RotatedTo(Secret("s2"), "b", Secret("s1"), ""), [MCSecurity EXCEPT !.skew = 1, !.ttl = 1], MCJwt),
          ReleaseOf(RotatedTo(Secret("s3"), "c", Secret("s2"), "b"), [MCSecurity EXCEPT !.dummy = "bcrypt"], MCJwt),
          [first EXCEPT !.sec.dummy = "md5"],
          [own EXCEPT !.jwt.keys = [q |-> Key("rsa", "q", 2048)]],
          [own EXCEPT !.jwt.alg = "ES256"],
          own>>
MCRoles == [t |-> "editor"]
MCPerms == [editor |-> [orders |-> <<"read", "write">>], root |-> [orders |-> <<"*">>]]
MCRequests ==
    LET r == [via |-> "http", header |-> "bearer", method |-> <<>>, guards |-> <<"auth", "tenant", "rbac">>,
              resource |-> "orders", action |-> "write"]
        g == [r EXCEPT !.via = "unary", !.guards = <<>>, !.method = <<"shop", "Orders", "Place">>]
    IN  {r, [r EXCEPT !.action = "delete"], [r EXCEPT !.header = "basic"], [r EXCEPT !.guards = <<"rbac", "auth">>],
         g, [g EXCEPT !.header = "no metadata"], [g EXCEPT !.via = "stream"],
         [g EXCEPT !.method = <<"grpc", "health", "v1", "Health", "Check">>, !.header = "missing"],
         [g EXCEPT !.via = "stream", !.method = <<"grpc", "reflection", "v1", "ServerReflection">>, !.header = "missing"]}
MCPublic == {<<"grpc", "reflection">>}
=============================================================================
