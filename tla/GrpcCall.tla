------------------------------ MODULE GrpcCall ------------------------------
(***************************************************************************)
(* netx/grpcx, one call along a chain of services: service 0 calls service *)
(* 1 with a client of NewClient, whose handler may call service 2, and so  *)
(* on.  Each service runs the interceptors of unaryChain (streamChain does *)
(* the same for streams) around its handler, and each caller turns what it *)
(* got with FromError and passes it on in one way or another.              *)
(*                                                                         *)
(* An error is [type, kind, code, reason, text]: an AppError ("app": its   *)
(* Code is the reason), a status ("status": code is the gRPC code, reason  *)
(* and kind are those of its grpcx ErrorInfo), a context error or any      *)
(* other error.  text is what its message shows: "message" is the one its  *)
(* author wrote for callers, "cause" that of an inner error.               *)
(***************************************************************************)
EXTENDS Integers, FiniteSets, Sequences

CONSTANTS
    Hops,           \* services in the chain
    ClientConfigs,  \* [insecure, tls, pair, token, attempts, codes] of every client
    PublicMethods,  \* the methods served without a token
    Authed,         \* the services with ServerConfig.Auth
    AppErrs,        \* [reason, kind] of the AppErrors the last handler returns
    Registry        \* Registry[h]: the kinds of the codes registered in process h (errs.Register...)

Kinds == {"unknown", "validation", "unprocessable", "too many requests", "not found", "conflict",
          "unauthorized", "forbidden", "external", "operation"}

\* No ErrorInfo.
NoInfo == "no info"

ASSUME GrpcCallAssumption ==
    /\ Hops \in Nat \ {0} /\ "private" \notin PublicMethods
    /\ \A e \in AppErrs : e.reason # NoInfo /\ e.kind \in Kinds \cup {""}
    /\ \A h \in 0 .. Hops : \A c \in DOMAIN Registry[h] : Registry[h][c] \in Kinds

GrpcCodes == {"Canceled", "Unknown", "InvalidArgument", "DeadlineExceeded", "NotFound", "AlreadyExists",
              "PermissionDenied", "ResourceExhausted", "FailedPrecondition", "Aborted", "OutOfRange",
              "Unimplemented", "Internal", "Unavailable", "DataLoss", "Unauthenticated"}

\* CodeOf
CodeOf(kind) ==
    CASE kind = "validation"        -> "InvalidArgument"
      [] kind = "unprocessable"     -> "FailedPrecondition"
      [] kind = "too many requests" -> "ResourceExhausted"
      [] kind = "not found"         -> "NotFound"
      [] kind = "conflict"          -> "AlreadyExists"
      [] kind = "unauthorized"      -> "Unauthenticated"
      [] kind = "forbidden"         -> "PermissionDenied"
      [] kind = "external"          -> "Unavailable"
      [] OTHER                      -> "Internal"

\* kindOf
KindOf(code) ==
    CASE code \in {"InvalidArgument", "OutOfRange"}                           -> "validation"
      [] code = "NotFound"                                                    -> "not found"
      [] code \in {"AlreadyExists", "Aborted", "FailedPrecondition"}          -> "conflict"
      [] code = "Unauthenticated"                                             -> "unauthorized"
      [] code = "PermissionDenied"                                            -> "forbidden"
      [] code \in {"Unavailable", "DeadlineExceeded", "ResourceExhausted"}    -> "external"
      [] OTHER                                                                -> "operation"

PlainError(type, text) == [type |-> type, kind |-> "", code |-> "", reason |-> NoInfo, text |-> text]
NoError == PlainError("nil", "")

GrpcStatus(code, kind, reason, text) ==
    [type |-> "status", kind |-> kind, code |-> code, reason |-> reason, text |-> text]
PlainStatus(code, text) == GrpcStatus(code, "", NoInfo, text)

AppError(kind, reason, text) == [type |-> "app", kind |-> kind, code |-> "", reason |-> reason, text |-> text]

\* appErrorStatus
AppErrorStatus(e) == GrpcStatus(CodeOf(e.kind), e.kind, e.reason, e.text)

\* Status: an AppError anywhere in the chain (an empty one is no error), a
\* status, a context error, or an error whose text stays inside.
Status(e) ==
    CASE e.type \in {"nil", "empty"} -> NoError
      [] e.type = "app"              -> AppErrorStatus(e)
      [] e.type = "status"           -> e
      [] e.type = "canceled"         -> PlainStatus("Canceled", "generic")
      [] e.type = "deadline"         -> PlainStatus("DeadlineExceeded", "generic")
      [] OTHER                       -> PlainStatus("Internal", "generic")

\* The kind of an ErrorInfo that may have none.
InfoKind(e) == IF e.kind # "" THEN e.kind ELSE KindOf(e.code)

\* Variant: the kind is always that of the gRPC code.
FromErrorOfCode(h, e) ==
    IF e.type = "nil" THEN NoError
    ELSE AppError(KindOf(e.code), IF e.reason = NoInfo THEN e.code ELSE e.reason, e.text)

\* FromError, in process h, of what a call returned (nil or a status): the error
\* registered there under the code of the ErrorInfo, with the message received,
\* or one rebuilt from the ErrorInfo; without one, the kind of the gRPC code.
FromError(h, e) ==
    IF e.type = "nil" THEN NoError
    ELSE IF e.reason = NoInfo THEN AppError(KindOf(e.code), e.code, e.text)
    ELSE AppError(IF e.reason \in DOMAIN Registry[h] THEN Registry[h][e.reason] ELSE InfoKind(e), e.reason, e.text)

(***************************************************************************)
(* Configuration.                                                          *)
(***************************************************************************)
\* clientOptions, transportCredentials, clientServiceConfig: what NewClient
\* refuses.
NewClientOK(c) ==
    /\ ~(c.insecure /\ c.tls)
    /\ c.pair # "half"
    /\ c.attempts = 0 \/ c.attempts \in 2 .. 5      \* 0: no Retry
    /\ "OK" \notin c.codes                          \* codeNames

\* Retry.Codes defaults to Unavailable.
RetryCodes(c) == IF c.codes = {} THEN {"Unavailable"} ELSE c.codes

VARIABLES
    client,     \* the configuration every service's client was built with, or NoClient
    method,     \* the method called at every service
    link,       \* link[h]: the call from h - 1 to h
    origin      \* the error the handler of the last service returned to the calls under way

grpcVars == <<client, method, link, origin>>

NoClient == [insecure |-> FALSE, tls |-> FALSE, pair |-> "none", token |-> "none", attempts |-> -1, codes |-> {}]
NoCall == [pc |-> "idle", id |-> "none", token |-> "none", deadline |-> FALSE, attempts |-> 0, err |-> NoError]

GrpcInit ==
    /\ client = NoClient /\ method = "none"
    /\ link = [h \in 1 .. Hops |-> NoCall]
    /\ origin = NoError

\* NewClient at every service, and the first call, from a request whose ID is
\* valid or not.
NewClient ==
    /\ client = NoClient
    /\ \E c \in ClientConfigs, m \in {"private"} \cup PublicMethods, id \in {"req", "none"} :
         /\ NewClientOK(c)
         /\ client' = c /\ method' = m
         /\ link' = [link EXCEPT ![1] = [NoCall EXCEPT !.pc = "send", !.id = id]]
    /\ UNCHANGED origin

\* GetRequestMetadata: a token source that fails now and then fails the call,
\* with a status that has the text of its error.
TokenFails(h) ==
    /\ client.token = "fails"
    /\ link' = [link EXCEPT ![h].pc = "answered", ![h].err = PlainStatus("Unauthenticated", "cause"),
                            ![h].attempts = @ + 1]

TokenSent(c) == IF c.token = "fails" THEN "valid" ELSE c.token

\* The interceptors and credentials of the caller: outgoingRequestID, the
\* deadline of timeoutClientUnary, and the token.
Send(h) ==
    /\ link[h].pc = "send"
    /\ \/ TokenFails(h)
       \/ link' = [link EXCEPT ![h].pc = "arrive", ![h].token = TokenSent(client), ![h].deadline = TRUE,
                               ![h].attempts = @ + 1]
    /\ UNCHANGED <<client, method, origin>>

\* withRequestID: the caller's ID when valid, a new one otherwise.
RequestID(h) == IF link[h].id = "req" THEN "req" ELSE "fresh"

\* public: health methods and the listed ones.
Public(m) == m \in PublicMethods

\* unaryChain: recovery, request ID, logging, and auth if the service has it.
Arrive(h) ==
    /\ link[h].pc = "arrive"
    /\ link' = IF h \notin Authed \/ Public(method) \/ link[h].token = "valid"
               THEN [link EXCEPT ![h].pc = "handler", ![h].id = RequestID(h)]
               ELSE [link EXCEPT ![h].pc = "answered", ![h].err = PlainStatus("Unauthenticated", "generic")]
    /\ UNCHANGED <<client, method, origin>>

\* The errors a handler makes up: an AppError, one without code and cause, a
\* status of its own, and errors of others.
HandlerErrors ==
    {NoError, PlainError("empty", "")}
    \cup {AppError(e.kind, e.reason, "message") : e \in AppErrs}
    \cup {PlainStatus(c, "message") : c \in GrpcCodes}
    \cup {PlainError(t, "cause") : t \in {"canceled", "deadline", "other", "panic"}}

\* The handler of the last service returns, or panics: recoveryUnary answers as
\* Status does of an unknown error.  errorsUnary maps what it returned.
HopReturns(h) ==
    /\ link[h].pc = "handler" /\ h = Hops
    /\ \E e \in HandlerErrors :
         /\ link' = [link EXCEPT ![h].pc = "answered", ![h].err = Status(e)]
         /\ origin' = e
    /\ UNCHANGED <<client, method>>

\* The handler of an inner service calls the next one, with its request's
\* context: ID and deadline go along.
CallsNext(h) ==
    /\ h < Hops /\ link[h].pc = "handler" /\ link[h + 1].pc = "idle"
    /\ link' = [link EXCEPT ![h + 1] = [NoCall EXCEPT !.pc = "send", !.id = link[h].id]]
    /\ UNCHANGED <<client, method, origin>>

\* gRPC retries the call while the code is listed (external).
Retried(h) == link[h].err.code \in RetryCodes(client) /\ link[h].attempts < client.attempts

Retries(h) ==
    /\ link[h].pc = "answered" /\ Retried(h)
    /\ link' = [i \in 1 .. Hops |-> IF i = h THEN [link[h] EXCEPT !.pc = "send", !.err = NoError]
                                    ELSE IF i > h THEN NoCall ELSE link[i]]
    /\ origin' = NoError
    /\ UNCHANGED <<client, method>>

\* What the handler of service h - 1 makes of the answer of h: it returns the
\* error itself, or the AppError of FromError; errorsUnary maps it again.
PassesOn(h) ==
    /\ h > 1 /\ link[h].pc = "answered" /\ ~Retried(h)
    /\ \E e \in {link[h].err, FromError(h - 1, link[h].err)} :
         link' = [link EXCEPT ![h].pc = "done", ![h - 1].pc = "answered", ![h - 1].err = Status(e)]
    /\ UNCHANGED <<client, method, origin>>

GrpcNext ==
    \/ NewClient
    \/ \E h \in 1 .. Hops : Send(h) \/ Arrive(h) \/ HopReturns(h) \/ CallsNext(h) \/ Retries(h) \/ PassesOn(h)

GrpcCallSpec == GrpcInit /\ [][GrpcNext]_grpcVars

-----------------------------------------------------------------------------
\* No process registered the code of the AppError e under another kind.
Agreed(e) == \A h \in 0 .. Hops : e.reason \in DOMAIN Registry[h] => Registry[h][e.reason] = e.kind

\* The kind of an AppError as others see it: one made without a kind is an
\* operation error.
KindSeen(e) == IF e.kind # "" THEN e.kind ELSE "operation"

\* What service 0 learns of a call that the last handler answered with an
\* AppError: its code, as many services away as it is and however each of them
\* passed the error on; and its kind, although several kinds share a gRPC code
\* and every service maps the error twice, unless a process registered the code
\* under another kind.  No text of a cause leaves the service it arose in, but
\* that of a token source's error.  The request ID that came with the first
\* call reaches every handler; no handler of a private method runs without a
\* valid token in a service with Auth; and no call is tried more often than the
\* policy says.
ErrorsTravel ==
    /\ link[1].pc = "answered" /\ origin.type = "app" =>
         LET learnt == FromError(0, link[1].err)
         IN  learnt.reason = origin.reason /\ (Agreed(origin) => learnt.kind = KindSeen(origin))
    /\ \A h \in 1 .. Hops :
         /\ link[h].err.text = "cause" => client.token = "fails"
         /\ link[h].pc = "handler" => /\ link[h].id = RequestID(1)
                                      /\ h \in Authed /\ method = "private" => link[h].token = "valid"
         /\ client # NoClient => link[h].attempts <= (IF client.attempts = 0 THEN 1 ELSE client.attempts)
=============================================================================
