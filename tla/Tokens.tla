------------------------------- MODULE Tokens -------------------------------
(* iam: access tokens and tenant tickets over replicas whose keys are being *)
(* rotated (iam.New, NewDefault, provider/jwt, core/ticket.go) and the      *)
(* guards of a request (middleware, provider/rbac/roles).  A release is one *)
(* configuration; a rolling update replaces the replicas one by one, so two *)
(* releases serve together for a while.  Times are ticks.  The session      *)
(* store, modelled in Sessions, is here the set of live sessions; the       *)
(* tenant port and the JWT library are external.                            *)
EXTENDS Naturals, Sequences, FiniteSets, Functions

CONSTANTS
    Releases,       \* sequence of configurations
    DefaultTTL, MaxAccessTTL, MaxSkew, TicketTTL, MaxSessionTTL,
    RoleOf,         \* tenant -> the user's role there
    Perms,          \* role -> resource -> actions
    PublicOptions,  \* prefixes given to WithPublicMethods
    Requests,       \* requests a client makes
    MaxServing,     \* bound: releases that serve at once
    MaxSessions,    \* bound: sessions opened
    MaxMoment       \* bound: ticks

ASSUME TokensAssumption ==
    {DefaultTTL, MaxAccessTTL, TicketTTL, MaxSessionTTL, MaxServing, MaxSessions, MaxMoment} \subseteq Nat \ {0} /\ MaxSkew \in Nat

VARIABLES
    fleet,     \* releases some replica serves
    moment,
    ticket,    \* the user's ticket
    issued,    \* access tokens by session, and the release they are of
    live,      \* sessions not revoked
    access,    \* tenants the user may enter
    call       \* the request under way, or answered
tokenVars == <<fleet, moment, ticket, issued, live, access, call>>

Guards == {"auth", "rbac", "tenant"}

(* A configuration has its fields; interceptors guard a gRPC call, and only *)
(* an HTTP route has guards of its own.                                     *)
ASSUME ReleasesAssumption ==
    \A g \in DOMAIN Releases :
        /\ {"ttl", "refresh", "lifetime", "issuer", "verify", "skipIssuer", "audience", "skew", "ticket", "skipTicket", "dummy"}
              \subseteq DOMAIN Releases[g].sec
        /\ {"alg", "secret", "priv", "pub", "kid", "keys", "ttl", "issuer", "verify", "audience", "leeway"}
              \subseteq DOMAIN Releases[g].jwt
        /\ {Releases[g].sec.ttl, Releases[g].sec.skew, Releases[g].jwt.leeway} \subseteq Nat
ASSUME RequestsAssumption ==
    \A req \in Requests :
        /\ req.via \in {"http", "unary", "stream"} /\ req.guards \in Seq(Guards)
        /\ req.via # "http" => req.guards = <<>>

Key(type, id, size) == [type |-> type, id |-> id, size |-> size]
NoKey == Key("nil", "", 0)
NoTicket == [key |-> NoKey, exp |-> 0, used |-> TRUE]
NoClaims == [sid |-> 0, tenant |-> "", roles |-> <<>>]
EmptyRequest == [via |-> "none", header |-> "missing", method |-> <<>>, guards |-> <<>>, resource |-> "", action |-> ""]
NoneCalled == [pc |-> "none", req |-> EmptyRequest, by |-> 0, sid |-> 0, left |-> <<>>, claims |-> NoClaims, answer |-> "none",
           start |-> [moment |-> 0, ticket |-> NoTicket, live |-> {}, access |-> {}]]

-----------------------------------------------------------------------------
(* Construction: the configuration of a release and what refuses it *)

ApplyDefaults(sec) ==
    LET refresh == IF sec.refresh = 0 THEN DefaultTTL ELSE sec.refresh
        longer == IF refresh > DefaultTTL THEN refresh ELSE DefaultTTL
    IN  [sec EXCEPT !.ttl = IF @ = 0 THEN DefaultTTL ELSE @, !.refresh = refresh,
                    !.lifetime = IF @ = 0 THEN longer ELSE @,
                    !.issuer = IF @ = "" THEN "gofi/iam" ELSE @, !.verify = @ \/ ~sec.skipIssuer]

PreviousKeys(d) == IF d.prevSecret = NoKey THEN <<>> ELSE [k \in {d.prevKid} |-> d.prevSecret]
DeriveKey(secret) == Key("derived", secret.id, 32)
WithTicketSecret(sec, secret) ==
    IF sec.ticket = NoKey THEN [sec EXCEPT !.ticket = DeriveKey(secret)] ELSE sec

(* NewDefault: HS256 with the security settings; New with a token provider  *)
(* of the application takes both as they are given.                         *)
JwtConfig(rel) ==
    IF ~rel.default.use THEN rel.jwt
    ELSE LET sec == ApplyDefaults(rel.sec) IN
         [alg |-> "HS256", secret |-> rel.default.secret, priv |-> NoKey, pub |-> NoKey,
          kid |-> rel.default.kid, keys |-> PreviousKeys(rel.default), ttl |-> sec.ttl,
          issuer |-> sec.issuer, verify |-> sec.verify, audience |-> sec.audience, leeway |-> sec.skew]
Security(rel) ==
    LET sec == ApplyDefaults(rel.sec) IN
    IF rel.default.use THEN WithTicketSecret(sec, rel.default.secret) ELSE sec

CheckSecret(k) == k.type = "bytes" /\ k.size >= 32
CheckRSAPublic(k) == k.type = "rsa.pub" /\ k.size >= 2048
CheckRSAPrivate(priv, pub) == priv.type = "rsa" /\ CheckRSAPublic(pub) /\ priv.id = pub.id
CheckP256Public(k) == k.type = "ecdsa.pub" /\ k.size = 256
CheckP256Private(priv, pub) == priv.type = "ecdsa" /\ CheckP256Public(pub) /\ priv.id = pub.id
PublicCheck(alg, k) ==
    CASE alg = "HS256" -> CheckSecret(k) [] alg = "RS256" -> CheckRSAPublic(k) [] OTHER -> CheckP256Public(k)
ValidateKeys(c) ==
    /\ \/ c.alg = "HS256" /\ CheckSecret(c.secret)
       \/ c.alg = "RS256" /\ CheckRSAPrivate(c.priv, c.pub)
       \/ c.alg = "ES256" /\ CheckP256Private(c.priv, c.pub)
    /\ \A kid \in DOMAIN c.keys : PublicCheck(c.alg, c.keys[kid])

WithAlgorithm(c) == [c EXCEPT !.alg = IF @ = "" THEN "HS256" ELSE @]
NewProvider(c) == ValidateKeys(WithAlgorithm(c)) /\ c.leeway <= MaxSkew
Provider(rel) == [WithAlgorithm(JwtConfig(rel)) EXCEPT !.ttl = IF @ = 0 THEN DefaultTTL ELSE @]

Supported(hash) == hash \in {"argon2id", "bcrypt"}
ValidateSecurity(rel, sec) ==
    /\ rel.session
    /\ sec.ttl <= MaxAccessTTL /\ sec.refresh <= MaxSessionTTL /\ sec.lifetime <= MaxSessionTTL /\ sec.skew <= MaxSkew
    /\ sec.dummy = "" \/ Supported(sec.dummy)
    /\ sec.ticket = NoKey \/ sec.ticket.size >= 32
    /\ rel.login /\ sec.ticket = NoKey => sec.skipTicket
New(rel) == NewProvider(JwtConfig(rel)) /\ ValidateSecurity(rel, Security(rel))

TokensInit ==
    /\ fleet = {} /\ moment = 0 /\ ticket = NoTicket
    /\ issued = <<>> /\ live = {} /\ access = DOMAIN RoleOf /\ call = NoneCalled

(* An answered call has no more effect: it is looked at, then forgotten. *)
Unanswered == call.pc # "done"
Forgotten ==
    /\ call.pc = "done" /\ call' = NoneCalled
    /\ UNCHANGED <<fleet, moment, ticket, issued, live, access>>

(* The rollout of a newer release starts; one that New refuses serves on no *)
(* replica.  When it ends, the last replica of an older one is gone.  A     *)
(* request stays with the release it reached, so its steps commute with     *)
(* these.                                                                   *)
RollOut(g) ==
    /\ call.pc = "none" /\ Cardinality(fleet) < MaxServing /\ \A h \in fleet : g > h
    /\ fleet' = IF New(Releases[g]) THEN fleet \cup {g} ELSE fleet
    /\ UNCHANGED <<moment, ticket, issued, live, access, call>>
RolledOut(g) ==
    /\ call.pc = "none" /\ \E h \in fleet : h > g
    /\ fleet' = fleet \ {g}
    /\ UNCHANGED <<moment, ticket, issued, live, access, call>>

-----------------------------------------------------------------------------
(* The token of a session and its verification *)

SigningKey(c) == IF c.alg \in {"RS256", "ES256"} THEN c.priv ELSE c.secret
VerificationKey(c) == IF c.alg \in {"RS256", "ES256"} THEN c.pub ELSE c.secret
SigningMethod(c) == IF c.alg \in {"RS256", "ES256"} THEN c.alg ELSE "HS256"
Audience(c) == IF c.audience = "" THEN {} ELSE {c.audience}

(* The library signs only with a key of the method's type. *)
CanSign(method, key) == key.type = [HS256 |-> "bytes", RS256 |-> "rsa", ES256 |-> "ecdsa"][method]

(* The claims' own expiry wins over the provider's. *)
IssueAccessToken(c, claims, exp) ==
    [alg |-> SigningMethod(c), kid |-> c.kid, key |-> SigningKey(c).id, iss |-> c.issuer, aud |-> Audience(c),
     exp |-> IF exp = 0 THEN moment + c.ttl ELSE exp, claims |-> claims]

(* A token without kid is tried with every known key. *)
KeyForCurrent(c, kid) ==
    IF kid \in {"", c.kid} THEN {VerificationKey(c)}
    ELSE IF kid \in DOMAIN c.keys THEN {c.keys[kid]} ELSE {}
KeyFor(c, kid) ==
    IF kid = "" THEN {VerificationKey(c)} \cup Range(c.keys)
    ELSE IF kid = c.kid THEN {VerificationKey(c)}
    ELSE IF kid \in DOMAIN c.keys THEN {c.keys[kid]} ELSE {}

ParserOptions(c, t) ==
    /\ c.verify /\ c.issuer # "" => t.iss = c.issuer
    /\ c.audience # "" => c.audience \in t.aud
ParseToken(c, t) ==
    IF t.alg # c.alg \/ t.key \notin {k.id : k \in KeyFor(c, t.kid)} THEN "invalid"
    ELSE IF moment >= t.exp + c.leeway THEN "expired"
    ELSE IF ParserOptions(c, t) THEN "valid" ELSE "invalid"

-----------------------------------------------------------------------------
(* Sign-in: Authenticate gives a ticket, SelectTenant takes it, perhaps on  *)
(* another replica, and opens a session.                                    *)

SignTenantTicket(key) == [key |-> key, exp |-> moment + TicketTTL, used |-> FALSE]
IssueTenantTicket(sec) == IF sec.ticket = NoKey THEN NoTicket ELSE SignTenantTicket(sec.ticket)
VerifyTenantTicket(key) == ticket.key = key /\ moment <= ticket.exp
CheckTenantTicket(sec) ==
    sec.skipTicket \/ (sec.ticket # NoKey /\ ticket # NoTicket /\ VerifyTenantTicket(sec.ticket))

LogIn(g) ==
    /\ call.pc = "none" /\ ticket.used /\ Len(issued) < MaxSessions
    /\ ticket' = IssueTenantTicket(Security(Releases[g]))
    /\ UNCHANGED <<fleet, moment, issued, live, access, call>>

Selected(g, a) == [NoneCalled EXCEPT !.pc = "done", !.req.via = "select", !.by = g, !.answer = a,
                                          !.start.moment = moment, !.start.ticket = ticket]

ClaimsOf(sid, t) == [sid |-> sid, tenant |-> t, roles |-> <<RoleOf[t]>>]

PickTenant(g, t) ==
    /\ call.pc = "none"
    /\ LET sec == Security(Releases[g])
           c == Provider(Releases[g])
           sid == Len(issued) + 1
       IN  IF ~CheckTenantTicket(sec)
           THEN call' = Selected(g, "bad ticket") /\ UNCHANGED <<ticket, issued, live>>
           ELSE IF t \notin access
           THEN call' = Selected(g, "denied") /\ UNCHANGED <<ticket, issued, live>>
           ELSE IF ticket.used /\ ~sec.skipTicket
           THEN call' = Selected(g, "bad ticket") /\ UNCHANGED <<ticket, issued, live>>
           ELSE IF ~CanSign(SigningMethod(c), SigningKey(c))
           THEN call' = Selected(g, "error") /\ ticket' = [ticket EXCEPT !.used = TRUE] /\ UNCHANGED <<issued, live>>
           ELSE /\ Len(issued) < MaxSessions /\ call' = Selected(g, "session")
                /\ ticket' = [ticket EXCEPT !.used = TRUE]
                /\ issued' = Append(issued, [token |-> IssueAccessToken(c, ClaimsOf(sid, t), moment + sec.ttl), by |-> g])
                /\ live' = live \cup {sid}
    /\ UNCHANGED <<fleet, moment, access>>

-----------------------------------------------------------------------------
(* A request: a chain of guards before an HTTP handler, an interceptor      *)
(* before a gRPC one.                                                       *)

HasPrefix(s, p) == Len(p) <= Len(s) /\ SubSeq(s, 1, Len(p)) = p
PublicPrefixes == {<<"grpc", "health", "v1", "Health">>} \cup PublicOptions
IsPublic(req) == req.via \in {"unary", "stream"} /\ \E p \in PublicPrefixes : HasPrefix(req.method, p)

ExtractBearerToken(req) == req.header = "bearer"

Answered(a) == [call EXCEPT !.pc = "done", !.left = <<>>, !.answer = a]
Passed == [call EXCEPT !.pc = "guards", !.left = Tail(@)]
Keeps == UNCHANGED <<fleet, moment, ticket, issued, live, access>>

RequestArrives(g, req, sid) ==
    /\ call.pc = "none"
    /\ call' = [NoneCalled EXCEPT !.pc = "guards", !.req = req, !.by = g, !.sid = sid, 
                              !.start = [@ EXCEPT !.moment = moment, !.live = live, !.access = access],
                              !.left = IF req.via = "http" THEN req.guards ELSE <<req.via>>]
    /\ Keeps

At(guard) == call.pc = "guards" /\ call.left # <<>> /\ Head(call.left) = guard
Parsed == ParseToken(Provider(Releases[call.by]), issued[call.sid].token)
Authenticated ==
    IF ~ExtractBearerToken(call.req) \/ Parsed # "valid" THEN Answered("unauthorized")
    ELSE [call EXCEPT !.pc = "session"]

AuthMiddleware == At("auth") /\ call' = Authenticated /\ Keeps

(* Unary and streaming calls authenticate alike, a stream only at its start. *)
AuthenticateGRPC ==
    IF call.req.header = "no metadata" THEN Answered("unauthorized") ELSE Authenticated
AuthInterceptor ==
    /\ At("unary")
    /\ call' = IF IsPublic(call.req) THEN Passed ELSE AuthenticateGRPC
    /\ Keeps
AuthStreamInterceptor ==
    /\ At("stream")
    /\ call' = IF IsPublic(call.req) THEN Passed ELSE AuthenticateGRPC
    /\ Keeps

(* ValidateToken goes on to the session behind the claims. *)
SessionChecked ==
    /\ call.pc = "session"
    /\ call' = IF call.sid \in live THEN [Passed EXCEPT !.claims = issued[call.sid].token.claims]
               ELSE Answered("unauthorized")
    /\ Keeps

ClaimsFromContext == call.claims

(* A role grants an action by name or by "*". *)
Enforce(claims, resource, action) ==
    \E i \in DOMAIN claims.roles :
        LET role == claims.roles[i] IN
        /\ role \in DOMAIN Perms /\ resource \in DOMAIN Perms[role]
        /\ \E a \in Range(Perms[role][resource]) : a = action \/ a = "*"
Permissions(claims) ==
    LET roles == Range(claims.roles) \cap DOMAIN Perms
    IN  [res \in UNION {DOMAIN Perms[role] : role \in roles} |->
            UNION {Range(Perms[role][res]) : role \in {q \in roles : res \in DOMAIN Perms[q]}}]

RBACMiddleware ==
    /\ At("rbac")
    /\ call' = IF ClaimsFromContext = NoClaims THEN Answered("unauthorized")
               ELSE IF Enforce(ClaimsFromContext, call.req.resource, call.req.action) THEN Passed
               ELSE Answered("forbidden")
    /\ Keeps
TenantMiddleware ==
    /\ At("tenant")
    /\ call' = IF ClaimsFromContext = NoClaims THEN Answered("unauthorized")
               ELSE IF ClaimsFromContext.tenant \in access THEN Passed
               ELSE Answered("forbidden")
    /\ Keeps
Handled == call.pc = "guards" /\ call.left = <<>> /\ call' = Answered("handled") /\ Keeps

-----------------------------------------------------------------------------
(* Around it: the session is revoked, the user leaves a tenant, time passes. *)
SessionEnds(sid) ==
    /\ Unanswered /\ sid \in live /\ live' = live \ {sid}
    /\ UNCHANGED <<fleet, moment, ticket, issued, access, call>>
AccessRemoved(t) ==
    /\ Unanswered /\ t \in access /\ access' = access \ {t}
    /\ UNCHANGED <<fleet, moment, ticket, issued, live, call>>
MomentPasses ==
    /\ Unanswered /\ moment < MaxMoment /\ moment' = moment + 1
    /\ UNCHANGED <<fleet, ticket, issued, live, access, call>>

TokensNext ==
    \/ \E g \in DOMAIN Releases : RollOut(g)
    \/ \E g \in fleet : \/ RolledOut(g) \/ LogIn(g)
                        \/ \E t \in DOMAIN RoleOf : PickTenant(g, t)
                        \/ \E req \in Requests, sid \in DOMAIN issued : RequestArrives(g, req, sid)
    \/ AuthMiddleware \/ AuthInterceptor \/ AuthStreamInterceptor \/ SessionChecked
    \/ RBACMiddleware \/ TenantMiddleware \/ Handled \/ Forgotten
    \/ \E sid \in live : SessionEnds(sid)
    \/ \E t \in access : AccessRemoved(t)
    \/ MomentPasses

-----------------------------------------------------------------------------
(* Release g was made from release h by the rotation DefaultConfig          *)
(* describes: h's secret and key id are its previous ones, its own id is    *)
(* new, and who issues and for whom has not changed.                        *)
Rotates(g, h) ==
    LET new == Releases[g].default
        old == Releases[h].default
    IN  /\ new.use /\ old.use
        /\ new.prevSecret = old.secret /\ new.prevKid = old.kid /\ (new.kid # old.kid \/ old.kid = "")
        /\ ApplyDefaults(Releases[g].sec).issuer = ApplyDefaults(Releases[h].sec).issuer
        /\ Releases[g].sec.audience \in {"", Releases[h].sec.audience}

KeysGiven(g) == LET c == Provider(Releases[g]) IN {k.id : k \in {VerificationKey(c)} \cup Range(c.keys)}

(* What the roles of the claims list for the request.                       *)
Listed(claims, req) ==
    LET listed == Permissions(claims)
    IN  req.resource \in DOMAIN listed /\ {req.action, "*"} \cap listed[req.resource] # {}

(* An unused fresh ticket opens a session at its own release, whose key can *)
(* always sign.                                                             *)
TicketHonoured ==
    /\ call.answer # "error"
    /\ call.answer = "bad ticket" =>
          \/ call.start.ticket.used \/ call.start.moment > call.start.ticket.exp
          \/ call.start.ticket.key # Security(Releases[call.by]).ticket

(* The bearer, its token unexpired and its session live, calls a replica of *)
(* the token's release or of the release rotated from it.                   *)
Rightful ==
    LET t == issued[call.sid] IN
    /\ call.req.header = "bearer" /\ moment < t.token.exp /\ call.sid \in live
    /\ call.by = t.by \/ Rotates(call.by, t.by)
    /\ call.req.via = "http" => Head(call.req.guards) = "auth"

BearerHonoured ==
    LET claims == issued[call.sid].token.claims IN
    /\ Rightful => call.answer # "unauthorized"
    /\ Rightful /\ call.answer = "forbidden" => ~Listed(claims, call.req) \/ claims.tenant \notin access

(* What the guards of the request saw: each when it ran.                    *)
HandlerGuards ==
    LET t == issued[call.sid].token
        guarded == {call.req.via} \cup Range(call.req.guards)
    IN  /\ guarded \cap {"auth", "unary", "stream"} # {} =>
              /\ call.claims = t.claims /\ t.key \in KeysGiven(call.by)
              /\ call.start.moment < t.exp + Provider(Releases[call.by]).leeway
              /\ call.sid \in call.start.live
        /\ "rbac" \in guarded => Listed(t.claims, call.req)
        /\ "tenant" \in guarded => t.claims.tenant \in call.start.access

(* A bearer whose token is unexpired and whose session is live is let in by *)
(* every replica of the token's release and of the release rotated from it, *)
(* through any mix of releases of a rolling update, and an unused fresh     *)
(* ticket opens a session at its own release, whose key can always sign.  A *)
(* handler behind the guards runs only for a token signed with a key its    *)
(* release was given, not expired beyond the leeway and with a live session *)
(* when the request arrived, of a role listed for the resource, and with    *)
(* access to the tenant at that time (provider/jwt/token.go, middleware).   *)
TokensHonoured ==
    call.pc = "done" =>
        IF call.req.via = "select" THEN TicketHonoured
        ELSE IF IsPublic(call.req) THEN call.answer = "handled"
        ELSE BearerHonoured /\ (call.answer = "handled" => HandlerGuards)

TokensSpec == TokensInit /\ [][TokensNext]_tokenVars
=============================================================================
