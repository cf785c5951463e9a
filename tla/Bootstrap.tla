----------------------------- MODULE Bootstrap -----------------------------
(***************************************************************************)
(* What gofi's Build makes of the configuration of a deployment: how the   *)
(* Environment is loaded (base/environment, with the secret references of  *)
(* base/secrets), how the guard of prod and stage judges the connections   *)
(* the components would open (gofi/config/core and the InsecureTransports  *)
(* of gofi/component), and how the components then open them.  Guard and   *)
(* opening are two readings of the same variables in the code, and they    *)
(* are two here: what is opened follows Start, the drivers' DSN and the    *)
(* providers' registration.                                                *)
(*                                                                         *)
(* A value is a text with the scheme of its URL, a reference to a secret   *)
(* (with a store), or an X_FILE that cannot be read (gone).                *)
(***************************************************************************)
EXTENDS Naturals, Sequences, SequencesExt, TLC

CONSTANTS
    Deployments,  \* the configurations the platform may give the process
    Fields,       \* the tags of the Environment struct, in the struct's order
    Bools,        \* those of kind bool
    MaxVersion,   \* how often a secret may be rotated
    MaxBuilds     \* how often the program calls Build

ASSUME BootstrapAssumption ==
    /\ Bools \subseteq ToSet(Fields)
    /\ MaxVersion \in Nat
    /\ MaxBuilds \in Nat \ {0}

VARIABLES
    dep,      \* the deployment
    secret,   \* the version every secret of the managers is at
    load,     \* the Environment of the process, its load error, its Resolver
    build,    \* the builder and the process-wide settings it applies
    opened    \* the connections the components opened

bootVars == <<dep, secret, load, build, opened>>

Url(scheme, t) == [scheme |-> scheme, text |-> t]
Text(t) == Url("", t)
Blank == Text("")
Given(f, x) == IF x \in DOMAIN f THEN f[x] ELSE Blank
IsRef(v) == "store" \in DOMAIN v
Gone(v) == "gone" \in DOMAIN v

\* The zero Environment, the Resolver empty.
Unloaded == [pc |-> "none", at |-> 0, os |-> <<>>, err |-> FALSE,
             env |-> [x \in ToSet(Fields) |-> Blank],
             stores |-> {}, values |-> <<>>, from |-> <<>>]
Unbuilt == [pc |-> "new", env |-> FALSE, tries |-> 0, next |-> <<>>, verify |-> TRUE]

BootstrapInit ==
    /\ dep \in Deployments
    /\ secret = [n \in DOMAIN dep.secrets |-> 1]
    /\ load = Unloaded
    /\ build = Unbuilt
    /\ opened = {}

-----------------------------------------------------------------------------
(* base/environment: Load, run once by Instance.                            *)

\* shouldLoadDotEnv: GOFI_DOTENV, or else APP_ENVIRONMENT as the process has
\* it before any file is read.
ShouldLoadDotEnv ==
    IF dep.override # ""
    THEN dep.override = "true"
    ELSE Given(dep.os, "APP_ENVIRONMENT") \in {Blank, Text("dev"), Text("test")}

\* loadDotEnv: godotenv sets the variables the process lacks; a missing file
\* is no error, and one that cannot be parsed sets nothing.
LoadBegins ==
    LET dot == IF ShouldLoadDotEnv /\ dep.dotenv = "ok" THEN dep.dot ELSE <<>>
    IN /\ build.pc = "load"
       /\ load.pc = "none"
       /\ load' = [load EXCEPT
             !.pc = "fields",
             !.os = [x \in DOMAIN dep.os \cup DOMAIN dot |->
                        IF x \in DOMAIN dep.os THEN dep.os[x] ELSE dot[x]],
             !.err = ShouldLoadDotEnv /\ dep.dotenv = "broken"]
       /\ UNCHANGED <<dep, secret, build, opened>>

\* lookupWithFile: X, or else the content of the file X_FILE names.
LookupEnv(x) == IF Given(load.os, x) # Blank THEN load.os[x] ELSE Given(dep.file, x)

\* ParseStructAnnotationFunc goes through the fields in order; one without a
\* value keeps its zero value.  Here is the next one with a value.
Here == SelectInSubSeq(Fields, load.at + 1, Len(Fields), LAMBDA f : LookupEnv(f) # Blank)
AtField(i) == load.pc = "fields" /\ i # 0

\* ... and one whose value does not parse keeps it too, and fails the load.
Parses(x, v) == x \in Bools => v \in {Text("true"), Text("false")}
Store(l, i, v) ==
    [l EXCEPT !.at = i,
              !.env[Fields[i]] = IF Parses(Fields[i], v) THEN v ELSE @,
              !.err = @ \/ ~Parses(Fields[i], v)]
FieldFails(l, i) == [l EXCEPT !.at = i, !.err = TRUE]

PlainField(i) ==
    /\ AtField(i)
    /\ LET v == LookupEnv(Fields[i])
       IN /\ ~IsRef(v)
          /\ load' = IF Gone(v) THEN FieldFails(load, i) ELSE Store(load, i, v)
    /\ UNCHANGED <<dep, secret, build, opened>>

-----------------------------------------------------------------------------
(* base/secrets: the Resolver of one Load opens a provider once and fetches *)
(* a secret once.                                                           *)

\* ParseRef wants a provider and a name.
ValidRef(v) == v.store # "" /\ v.name # ""
Id(v) == <<v.store, v.name>>

\* Resolve: the whole secret, or the field of the JSON object it holds.
Resolved(l, i, v) ==
    LET held == dep.secrets[Id(v)]
        kept == [l EXCEPT !.from = (Fields[i] :> <<Id(v), l.values[Id(v)]>>) @@ @]
    IN IF v.key \in DOMAIN held THEN Store(kept, i, held[v.key]) ELSE FieldFails(l, i)

\* fetch finds the value it kept.
FetchKept(i) ==
    /\ AtField(i)
    /\ LET v == LookupEnv(Fields[i])
       IN /\ IsRef(v)
          /\ Id(v) \in DOMAIN load.values
          /\ load' = Resolved(load, i, v)
          /\ UNCHANGED <<dep, secret, build, opened>>

\* fetch opens the provider when this Resolver has not yet, and gets the
\* secret as it is now.
Fetch(i) ==
    /\ AtField(i)
    /\ LET v == LookupEnv(Fields[i])
           l == [load EXCEPT !.stores = @ \cup {v.store},
                             !.values = (Id(v) :> secret[Id(v)]) @@ @]
       IN /\ IsRef(v)
          /\ ValidRef(v)
          /\ v.store \in dep.stores
          /\ Id(v) \in DOMAIN secret \ DOMAIN load.values
          /\ load' = Resolved(l, i, v)
          /\ UNCHANGED <<dep, secret, build, opened>>

\* A malformed reference, a provider nobody registered, a provider that does
\* not open, a secret that is not there or cannot be read now: no value is
\* kept, the provider is when it opened.
FetchFails(i) ==
    /\ AtField(i)
    /\ LET v == LookupEnv(Fields[i])
       IN /\ IsRef(v)
          /\ Id(v) \notin DOMAIN load.values
          /\ \E open \in {s \in {v.store} : ValidRef(v) /\ s \in dep.stores} \cup {""} :
                load' = FieldFails([load EXCEPT !.stores = @ \cup ({open} \ {""})], i)
          /\ UNCHANGED <<dep, secret, build, opened>>

\* The secret is rotated while the process starts.
SecretRotates(n) ==
    /\ load.pc = "fields"
    /\ secret[n] <= MaxVersion
    /\ secret' = [secret EXCEPT ![n] = @ + 1]
    /\ UNCHANGED <<dep, load, build, opened>>

\* applyEnvironmentConfigurations rejects an unknown APP_ENVIRONMENT.
LoadEnds ==
    /\ load.pc = "fields"
    /\ Here = 0
    /\ load' = [load EXCEPT
          !.pc = "done",
          !.err = @ \/ load.env["APP_ENVIRONMENT"] \notin
                         {Blank, Text("dev"), Text("test"), Text("stage"), Text("prod")}]
    /\ UNCHANGED <<dep, secret, build, opened>>

-----------------------------------------------------------------------------
(* The readings of the Environment.                                         *)

E(x) == load.env[x]
On(x) == E(x) = Text("true")
Has(x) == E(x) # Blank

\* isGuarded: prod and stage.
IsGuarded == E("APP_ENVIRONMENT") \in {Text("prod"), Text("stage")}

\* IsLoopback and Settings.IsLocal: nothing leaves the machine.
IsLoopback(v) == v.text \in {"", "localhost"}

\* A connection as CheckTransport and the outside world see it.
Endpoint(resource, v, verified) == [resource |-> resource, local |-> IsLoopback(v), verified |-> verified]

\* driverName, settingsFromEnv: the replica differs by its host only.
DriverName == IF Has("DATABASE_DRIVER") THEN E("DATABASE_DRIVER").text ELSE "postgres"
Hosts == {E("DATABASE_HOST")} \cup (IF Has("DATABASE_READ_HOST") THEN {E("DATABASE_READ_HOST")} ELSE {})

\* EffectiveSSLMode and Insecure of the settings with this host.
SslModes == {"disable", "allow", "prefer", "require", "verify-ca", "verify-full"}
EffectiveSSLMode(host) ==
    IF Has("DATABASE_SSL_MODE") THEN E("DATABASE_SSL_MODE").text
    ELSE IF IsLoopback(host) THEN "disable" ELSE "verify-full"
Insecure(host) == EffectiveSSLMode(host) \notin {"verify-ca", "verify-full"}

\* TLSConfig.configured, TLSEnabled, RedisTLSEnabled.
MessagingTLS == Has("MESSAGING_TLS_CA_FILE") \/ On("MESSAGING_TLS_INSECURE_SKIP_VERIFY")
TLSEnabled == On("MESSAGING_USE_TLS") \/ MessagingTLS
RedisTLSEnabled == On("CACHE_USE_TLS") \/ MessagingTLS

\* providerConfig: the type the code declares before MESSAGING_PROVIDER.
BrokerType == IF dep.broker # "" THEN dep.broker ELSE E("MESSAGING_PROVIDER").text

\* otlpEndpoint: the scheme of an http(s) endpoint decides over the flag.
OtlpTLS ==
    LET v == E("OTEL_EXPORTER_OTLP_ENDPOINT")
    IN IF v.scheme \in {"http", "https"} THEN v.scheme = "https"
       ELSE E("OTEL_EXPORTER_OTLP_INSECURE") # Text("true")

-----------------------------------------------------------------------------
(* The guard: what the environment and the components report.               *)

\* bucketOverHTTP.
BucketOverHTTP ==
    LET v == E("BUCKET_ENDPOINT")
    IN /\ E("BUCKET_PROVIDER") \in {Text("s3"), Text("minio")}
       /\ ~IsLoopback(v)
       /\ IF v.scheme # "" THEN v.scheme = "http" ELSE ~On("BUCKET_S3_USE_SSL")

\* core.InsecureTransports.
ProcessInsecure ==
    {r \in {"tls", "bucket"} : IF r = "tls" THEN On("TLS_INSECURE_SKIP_VERIFY") ELSE BucketOverHTTP}

\* core.InsecureCache.
InsecureCache ==
    IF On("CACHE_USE_TLS") \/ IsLoopback(E("CACHE_URI")) THEN {} ELSE {"cache"}

\* A guard that looks at the primary's settings only.
InsecureSettingsPrimary ==
    {h \in {E("DATABASE_HOST")} : Insecure(h) /\ ~IsLoopback(h)}

\* The database component's insecureSettings.
InsecureSettings == {h \in Hosts : Insecure(h) /\ ~IsLoopback(h)}

\* ProviderConfig.Insecure.
BrokerInsecure ==
    /\ BrokerType \notin {"", "sqs", "oci"}
    /\ \/ ~(IF BrokerType = "redis" THEN RedisTLSEnabled ELSE TLSEnabled)
       \/ On("MESSAGING_TLS_INSECURE_SKIP_VERIFY")

\* The servers' InsecureTransports: tlsEnabled is the code's TLS or the
\* certificate variable.
ServerInsecure(kind) ==
    LET p == IF kind = "http" THEN "HTTP_" ELSE "GRPC_"
    IN kind \notin dep.codeTLS /\ ~Has(p \o "TLS_CERT_FILE") /\ On(p \o "REQUIRE_TLS")

Redis == E("CACHE_TYPE") = Text("redis")
TelemetryInsecure ==
    LET v == E("OTEL_EXPORTER_OTLP_ENDPOINT") IN ~OtlpTLS /\ ~IsLoopback(v) /\ v.scheme # "unix"
InsecureTransports(c) ==
    CASE c \in dep.injected -> {}
      [] c = "observability" -> IF TelemetryInsecure THEN {"otlp"} ELSE {}
      [] c = "database" -> IF InsecureSettings = {} THEN {} ELSE {"database"}
      [] c = "cache" -> InsecureCache
      [] c \in {"session", "iam"} -> IF Redis THEN InsecureCache ELSE {}
      [] c = "messaging" -> IF BrokerInsecure THEN {"messaging"} ELSE {}
      [] c \in {"http", "grpc"} -> IF ServerInsecure(c) THEN {c} ELSE {}

\* CheckTransport: allowedResources is the parsed list of
\* GOFI_ALLOW_INSECURE_TRANSPORT.
Allowed(r) == "all" \in dep.allow \/ r \in dep.allow
CheckTransport ==
    IsGuarded => \A r \in ProcessInsecure \cup UNION {InsecureTransports(c) : c \in dep.components} : Allowed(r)

-----------------------------------------------------------------------------
(* gofi.Build.                                                              *)

BuildBegins ==
    /\ build.pc \in {"new", "refused"}
    /\ build.tries < MaxBuilds
    /\ build' = [build EXCEPT !.pc = IF build.env THEN "check" ELSE "load", !.tries = @ + 1]
    /\ UNCHANGED <<dep, secret, load, opened>>

\* bootstrap keeps the environment and returns its load error, but goes on to
\* apply the process-wide settings (ApplyTLS); checkTransport follows.  The
\* error is the one of the call that loaded.
Settled(ok) ==
    build' = [build EXCEPT
        !.pc = IF ok /\ CheckTransport THEN "start" ELSE "refused",
        !.env = TRUE,
        !.verify = ~On("TLS_INSECURE_SKIP_VERIFY"),
        !.next = SelectSeq(<<"observability", "database", "cache", "session", "messaging",
                             "iam", "http", "grpc">>, LAMBDA c : c \in dep.components)]
BootstrapLoaded ==
    /\ build.pc = "load"
    /\ load.pc = "done"
    /\ Settled(~load.err)
    /\ UNCHANGED <<dep, secret, load, opened>>
BootstrapAgain ==
    /\ build.pc = "check"
    /\ Settled(TRUE)
    /\ UNCHANGED <<dep, secret, load, opened>>

-----------------------------------------------------------------------------
(* What Start opens, and the configuration it refuses.                      *)

\* Settings.Validate, which every driver's settings pass.
SettingsFail ==
    \/ Has("DATABASE_SSL_MODE") /\ E("DATABASE_SSL_MODE").text \notin SslModes
    \/ Has("DATABASE_SSL_CERT") # Has("DATABASE_SSL_KEY")

\* ValidateSettings of the drivers that have one: the modes and files their
\* DSN can express.
MySQLRefuses(mode) ==
    mode \notin {"disable", "prefer", "require", "verify-full"} \/ Has("DATABASE_SSL_ROOT_CERT") \/ Has("DATABASE_SSL_CERT")
OracleRefuses(mode) ==
    mode \notin {"disable", "require", "verify-full"} \/ Has("DATABASE_SSL_ROOT_CERT") \/ Has("DATABASE_SSL_CERT")
SQLServerRefuses(mode) ==
    mode \notin {"disable", "require", "verify-full"} \/ Has("DATABASE_SSL_CERT")
DriverRefuses(driver, mode) ==
    CASE driver = "postgres" -> FALSE
      [] driver = "mysql" -> MySQLRefuses(mode)
      [] driver = "oracle" -> OracleRefuses(mode)
      [] driver = "sqlserver" -> SQLServerRefuses(mode)

\* The DSN of each driver: does what it writes for the mode verify the server?
\* (libpq takes require with a root certificate for verify-ca.)
PostgresDSN(mode) == mode \in {"verify-ca", "verify-full"} \/ (mode = "require" /\ Has("DATABASE_SSL_ROOT_CERT"))
MySQLDSN(mode) == mode \notin {"disable", "prefer", "require"}
OracleDSN(mode) == mode \notin {"disable", "require"}
SQLServerDSN(mode) == mode \notin {"disable", "require"}
Verifies(driver, mode) ==
    CASE driver = "postgres" -> PostgresDSN(mode)
      [] driver = "mysql" -> MySQLDSN(mode)
      [] driver = "oracle" -> OracleDSN(mode)
      [] driver = "sqlserver" -> SQLServerDSN(mode)

\* fullTextPolicy and checkQueryLog, stricter when guarded.
PolicyFails ==
    \/ E("DATABASE_FULLTEXT_POLICY").text \notin {"", "verify", "trust", "ensure"}
    \/ E("DATABASE_FULLTEXT_POLICY").text = "ensure" /\ IsGuarded
    \/ On("DATABASE_LOG_QUERIES") /\ IsGuarded
DatabaseFails ==
    \/ DriverName \notin dep.drivers
    \/ SettingsFail
    \/ \E h \in Hosts : DriverRefuses(DriverName, EffectiveSSLMode(h))
    \/ PolicyFails

\* tlsFromEnv, and its copy for gRPC: certificate and key together, the
\* client CA and mode only with them, and not contradicting each other.
ServerTlsFails(p) ==
    LET cert == Has(p \o "TLS_CERT_FILE")
        key == Has(p \o "TLS_KEY_FILE")
        ca == Has(p \o "TLS_CLIENT_CA_FILE")
        mode == E(p \o "TLS_CLIENT_AUTH").text
    IN \/ cert # key
       \/ ~cert /\ (ca \/ mode # "")
       \/ mode \notin {"", "none", "request", "require", "verify_if_given", "require_and_verify"}
       \/ mode = "none" /\ ca
       \/ mode \in {"verify_if_given", "require_and_verify"} /\ ~ca

\* The errors of Start that the configuration alone decides: a certificate
\* for a plaintext OTLP endpoint (validateTLS); no JWT secret, or sessions in
\* memory when guarded (config.IAM, IAMInMemory).  The gRPC server reads the
\* variables only without a TLS of the code.
TelemetryFails ==
    Has("OTEL_EXPORTER_OTLP_ENDPOINT") /\ ~OtlpTLS /\ Has("OTEL_EXPORTER_OTLP_CERTIFICATE")
IamFails == ~Has("JWT_SECRET") \/ (~Redis /\ IsGuarded)
GrpcFails == "grpc" \notin dep.codeTLS /\ ServerTlsFails("GRPC_")
StartFails(c) ==
    CASE c \in dep.injected -> FALSE
      [] c = "observability" -> TelemetryFails
      [] c = "database" -> DatabaseFails
      [] c = "cache" -> FALSE
      [] c = "session" -> ~Redis
      [] c = "messaging" -> BrokerType = ""
      [] c = "iam" -> IamFails
      [] c = "http" -> ServerTlsFails("HTTP_")
      [] c = "grpc" -> GrpcFails

\* redisOptions: TLS, and then verified, when CACHE_USE_TLS says so.
CacheConn == Endpoint("cache", E("CACHE_URI"), On("CACHE_USE_TLS"))

\* The connections Start opens.  The session uses the cache component's
\* client when the service has one; iam opens its own, or keeps its state in
\* memory without an address; a server is a connection its peers make.
TelemetryOpens ==
    LET v == E("OTEL_EXPORTER_OTLP_ENDPOINT")
    IN IF v = Blank THEN {} ELSE {[Endpoint("otlp", v, OtlpTLS) EXCEPT !.local = @ \/ v.scheme = "unix"]}
DatabaseOpens ==
    {Endpoint("database", h, Verifies(DriverName, EffectiveSSLMode(h))) : h \in Hosts}
SessionOpens == IF "cache" \in dep.components THEN {} ELSE {CacheConn}
MessagingOpens ==
    {IF BrokerType \in {"sqs", "oci"} THEN Endpoint("messaging", Text("sdk"), TRUE)
     ELSE Endpoint("messaging", Text("broker"),
              /\ IF BrokerType = "redis" THEN RedisTLSEnabled ELSE TLSEnabled
              /\ ~On("MESSAGING_TLS_INSECURE_SKIP_VERIFY"))}
IamOpens == IF Redis /\ Has("CACHE_URI") THEN {CacheConn} ELSE {}
HttpListens == {Endpoint("http", Text("peer"), "http" \in dep.codeTLS \/ Has("HTTP_TLS_CERT_FILE"))}
GrpcListens == {Endpoint("grpc", Text("peer"), "grpc" \in dep.codeTLS \/ Has("GRPC_TLS_CERT_FILE"))}
Opens(c) ==
    CASE c \in dep.injected -> {}
      [] c = "observability" -> TelemetryOpens
      [] c = "database" -> DatabaseOpens
      [] c = "cache" -> {CacheConn}
      [] c = "session" -> SessionOpens
      [] c = "messaging" -> MessagingOpens
      [] c = "iam" -> IamOpens
      [] c = "http" -> HttpListens
      [] c = "grpc" -> GrpcListens

\* Build starts the components by stage; when one fails, by its
\* configuration or because the other side is not there, what is open closes.
Start ==
    /\ build.pc = "start"
    /\ build.next # <<>>
    /\ ~StartFails(Head(build.next))
    /\ opened' = opened \cup Opens(Head(build.next))
    /\ build' = [build EXCEPT !.next = Tail(@)]
    /\ UNCHANGED <<dep, secret, load>>
StartError ==
    /\ build.pc = "start"
    /\ build.next # <<>>
    /\ StartFails(Head(build.next)) \/ (Opens(Head(build.next)) # {} /\ Head(build.next) # "http")
    /\ opened' = {}
    /\ build' = [build EXCEPT !.pc = "refused", !.next = <<>>]
    /\ UNCHANGED <<dep, secret, load>>
Built ==
    /\ build.pc = "start"
    /\ build.next = <<>>
    /\ build' = [build EXCEPT !.pc = "built"]
    /\ UNCHANGED <<dep, secret, load, opened>>

\* A handler opens the bucket of config.Bucket; withScheme completes the
\* endpoint of an S3-compatible store.
OpenBucket ==
    LET v == E("BUCKET_ENDPOINT")
        scheme == IF v.scheme # "" THEN v.scheme ELSE IF On("BUCKET_S3_USE_SSL") THEN "https" ELSE "http"
    IN /\ build.pc = "built"
       /\ E("BUCKET_PROVIDER").text \in {"s3", "minio", "oci"}
       /\ opened' = opened \cup
             {IF v = Blank \/ E("BUCKET_PROVIDER") = Text("oci")
              THEN Endpoint("bucket", Text("sdk"), TRUE) ELSE Endpoint("bucket", v, scheme = "https")}
       /\ UNCHANGED <<dep, secret, load, build>>

BootstrapNext ==
    \/ BuildBegins \/ LoadBegins \/ LoadEnds
    \/ \E i \in {Here} : PlainField(i) \/ FetchKept(i) \/ Fetch(i) \/ FetchFails(i)
    \/ \E n \in DOMAIN secret : SecretRotates(n)
    \/ BootstrapLoaded \/ BootstrapAgain
    \/ Start \/ StartError \/ Built \/ OpenBucket

-----------------------------------------------------------------------------
\* "each secret is fetched once per Load" (withSecrets): two variables taken
\* from one secret, a user and its password say, are of the same version of
\* it, even when it is rotated while the process starts or a fetch fails.
SecretWhole ==
    \A x, y \in DOMAIN load.from :
        load.from[x][1] = load.from[y][1] => load.from[x][2] = load.from[y][2]

\* "In prod and stage, plaintext or unverified TLS connections are
\* configuration errors" (Build): whatever the variables, the files, the
\* secrets and the components, every connection of a service built there
\* stays on the machine, verifies the other side, or was allowed by name.  A
\* server counts when *_REQUIRE_TLS asks for it.  Verification stays on for
\* the process, and no service there logs queries or creates indexes.  What
\* any service is built from is whole (SecretWhole).
GuardedBuild ==
    /\ SecretWhole
    /\ build.pc = "built" /\ IsGuarded =>
        /\ \A c \in opened : \/ c.local
                             \/ c.verified
                             \/ Allowed(c.resource)
                             \/ c.resource = "http" /\ ~On("HTTP_REQUIRE_TLS")
                             \/ c.resource = "grpc" /\ ~On("GRPC_REQUIRE_TLS")
        /\ build.verify \/ Allowed("tls")
        /\ "database" \in dep.components \ dep.injected =>
              ~On("DATABASE_LOG_QUERIES") /\ E("DATABASE_FULLTEXT_POLICY") # Text("ensure")
============================================================================
