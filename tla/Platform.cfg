\* The HTTP client and server, readiness, certificates, gRPC calls, the mailer,
\* identity providers, the login throttle, the configuration and tokens, one part at a
\* time.
INIT Init
NEXT Next
CONSTANTS
    HttpRequests <- MCHttpRequests
    Targets <- MCTargets
    MaxRedirects = 2
    RetrySleep = 2
    MaxRetryAfter = 3
    RetryAfters = {0, 9}
    Conn = {c1, c2}
    HttpReqs <- MCHttpReqs
    Routes <- MCRoutes
    WSTimeouts <- MCTimeouts
    ServerOptions <- MCServerOptions
    GlobalPolicy <- MCGlobal
    TrustedProxies = {"p"}
    KnownKeys = {"k1"}
    Burst = 1
    PoolSize <- MCPools
    MaxBody = 1
    Check = {k1, k2}
    Probe = {p1, p2}
    MaxWrites = 3
    Hops = 3
    ClientConfigs <- MCClients
    PublicMethods = {"health"}
    Authed = {2, 3}
    AppErrs <- MCAppErrs
    Registry <- MCRegistry
    Mails <- MCMails
    Settings <- MCSettings
    Servers <- MCServers
    MaxFaults = 2
    Visitors = {v1, v2}
    TTL = 2
    MinRefresh = 1
    MaxIdpTime = 1
    MaxKeys = 2
    Logins = {l1, l2}
    Emails = {"a"}
    Addresses = {"", "x"}
    MaxAttempts = 2
    IPMaxAttempts = 2
    Window = 2
    Lockout = 2
    MaxTime = 2
    MaxErrors = 1
    Fields <- MCFields
    Bools <- MCBools
    Deployments <- MCDeployments
    MaxVersion = 1
    MaxBuilds = 2
    Releases <- MCReleases
    DefaultTTL = 2
    MaxAccessTTL = 2
    MaxSkew = 1
    TicketTTL = 1
    MaxSessionTTL = 3
    RoleOf <- MCRoles
    Perms <- MCPerms
    PublicOptions <- MCPublic
    Requests <- MCRequests
    MaxServing = 2
    MaxSessions = 1
    MaxMoment = 2
INVARIANTS
    RetriedSafely
    HandlerGuarded
    PolicyOfRoute
    ReadyMeansPassed
    CertCurrent
    ErrorsTravel
    MailAccounted
    SharedFetchFair
    GuessesBounded
    GuardedBuild
    TokensHonoured
CHECK_DEADLOCK FALSE
