------------------------------ MODULE NetServer ------------------------------
(***************************************************************************)
(* The HTTP and the gRPC server (netx/httpx, netx/grpcx): both follow the  *)
(* same protocol between ListenAndServe, which serves until its context is *)
(* done, fails readiness, drains and stops gracefully, and Shutdown, which *)
(* cancels that context and waits.                                         *)
(*                                                                         *)
(* A server accepts at most one request at a time: what matters is whether *)
(* one is in flight.                                                       *)
(***************************************************************************)
EXTENDS Integers

CONSTANT Server

VARIABLES
    srv,        \* ListenAndServe: "idle", "serving", "drain", "shutdown", "returned", "failed"
    srvClosed,  \* Shutdown was requested (closed)
    srvCtx,     \* the context of serve is done (stop, or a signal)
    ready,      \* readiness (ready, setReady)
    busy,       \* a request is in flight
    left        \* serve returned without waiting for the requests in flight

serverVars == <<srv, srvClosed, srvCtx, ready, busy, left>>

ServerTypeOK ==
    /\ srv \in [Server -> {"idle", "serving", "drain", "shutdown", "returned", "failed"}]
    /\ srvClosed \in [Server -> BOOLEAN] /\ srvCtx \in [Server -> BOOLEAN]
    /\ ready \in [Server -> BOOLEAN] /\ busy \in [Server -> BOOLEAN] /\ left \in [Server -> BOOLEAN]

ServerInit ==
    /\ srv = [s \in Server |-> "idle"]
    /\ srvClosed = [s \in Server |-> FALSE]
    /\ srvCtx = [s \in Server |-> FALSE]
    /\ ready = [s \in Server |-> FALSE]
    /\ busy = [s \in Server |-> FALSE]
    /\ left = [s \in Server |-> FALSE]

\* ListenAndServe registers its stop function and serves, unless Shutdown came
\* first; listening may fail.
Serves(s) ==
    /\ srv[s] = "idle"
    /\ \/ /\ ~srvClosed[s]
          /\ srv' = [srv EXCEPT ![s] = "serving"]
          /\ ready' = [ready EXCEPT ![s] = TRUE]
       \/ /\ srv' = [srv EXCEPT ![s] = "returned"]
          /\ UNCHANGED ready
    /\ UNCHANGED <<srvClosed, srvCtx, busy, left>>

\* The listener fails: ListenAndServe returns the error, does not wait for the
\* requests in flight and leaves the accepted connections open.
ServeFails(s) ==
    /\ srv[s] = "serving"
    /\ srv' = [srv EXCEPT ![s] = "failed"]
    /\ ready' = [ready EXCEPT ![s] = FALSE]
    /\ left' = [left EXCEPT ![s] = TRUE]
    /\ UNCHANGED <<srvClosed, srvCtx, busy>>

\* The context is done: readiness fails first, then the server waits DrainDelay.
Drains(s) ==
    /\ srv[s] = "serving"
    /\ srvCtx[s]
    /\ srv' = [srv EXCEPT ![s] = "drain"]
    /\ ready' = [ready EXCEPT ![s] = FALSE]
    /\ UNCHANGED <<srvClosed, srvCtx, busy, left>>

\* http.Server.Shutdown, grpc.Server.GracefulStop: no new request is accepted.
DrainDelayOver(s) ==
    /\ srv[s] = "drain"
    /\ srv' = [srv EXCEPT ![s] = "shutdown"]
    /\ UNCHANGED <<srvClosed, srvCtx, ready, busy, left>>

StopsGracefully(s) ==
    /\ srv[s] = "shutdown"
    /\ ~busy[s]
    /\ srv' = [srv EXCEPT ![s] = "returned"]
    /\ UNCHANGED <<srvClosed, srvCtx, ready, busy, left>>

\* After ShutdownTimeout both servers close the connections, which tells the
\* handlers through their contexts.  The HTTP server returns then; the gRPC
\* server still waits for GracefulStop, which returns with the last handler.
WaitsForHandlers(s) == s = "grpc server"

ShutdownTimesOut(s) ==
    /\ srv[s] = "shutdown"
    /\ busy[s] /\ ~WaitsForHandlers(s)
    /\ srv' = [srv EXCEPT ![s] = "returned"]
    /\ left' = [left EXCEPT ![s] = TRUE]
    /\ UNCHANGED <<srvClosed, srvCtx, ready, busy>>

Request(s) ==
    /\ srv[s] \in {"serving", "drain", "failed"}
    /\ ~busy[s]
    /\ busy' = [busy EXCEPT ![s] = TRUE]
    /\ UNCHANGED <<srv, srvClosed, srvCtx, ready, left>>

RequestEnds(s) ==
    /\ busy[s]
    /\ busy' = [busy EXCEPT ![s] = FALSE]
    /\ UNCHANGED <<srv, srvClosed, srvCtx, ready, left>>

\* The steps of serve that only time and the end of the requests hold up.
ServerStops(s) == Drains(s) \/ DrainDelayOver(s) \/ StopsGracefully(s) \/ ShutdownTimesOut(s)

ServerStep(s) == ServerStops(s) \/ ServeFails(s) \/ Request(s) \/ RequestEnds(s)

Returned(s) == srv[s] \in {"returned", "failed"}

\* Shutdown up to its wait: the caller goes on at once when the server does not
\* run (stop = nil), otherwise when ListenAndServe has returned.
ShutdownCalled(s) ==
    /\ srvClosed' = [srvClosed EXCEPT ![s] = TRUE]
    /\ srvCtx' = [srvCtx EXCEPT ![s] = srv[s] # "idle"]
    /\ UNCHANGED <<srv, ready, busy, left>>

ShutdownReturns(s) == srv[s] = "idle" \/ Returned(s)
=============================================================================
