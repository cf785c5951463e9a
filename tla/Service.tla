------------------------------- MODULE Service -------------------------------
(***************************************************************************)
(* A gofi service (gofi/builder.go, runtime.go, service.go) and the        *)
(* components it is built from (gofi/component): Build starts them by      *)
(* stage and registers what they open, ListenAndServe runs the servers and *)
(* closes the resources when they have stopped, Shutdown may be called at  *)
(* any time by any goroutine.                                              *)
(*                                                                         *)
(* The timeouts are events that may come at any time of the wait they      *)
(* bound.  Build is called once, and so is ListenAndServe.                 *)
(***************************************************************************)
EXTENDS NetServer, Sequences, Functions

CONSTANTS
    Stopper,        \* goroutines that may call Shutdown
    Programs        \* the programs: the components in the order they are given
                    \* to With, the goroutines that call Shutdown, and those of
                    \* them whose context never ends (context.Background)

Component == {"observability", "database", "cache", "session", "messaging", "iam"} \cup Server

ASSUME ServiceAssumption ==
    /\ Server = {"http server", "grpc server"} /\ "ListenAndServe" \notin Stopper
    /\ \A m \in Programs : /\ m.with \in Seq(Component) /\ IsInjective(m.with)
                            /\ m.stoppers \subseteq Stopper /\ m.patient \subseteq m.stoppers

Main == "ListenAndServe"
Closing == {Main} \cup Stopper      \* who may run closeResources

VARIABLES
    stoppers,   \* the goroutines that call Shutdown
    patient,    \* those whose context never ends
    components, \* g.components, sorted by Build
    runners,    \* g.runners
    phase,      \* Build: "declared", "starting", "undo", "failed", "built"
    comp, part, \* the component being started, and how far its Start is
    open,       \* resources that are open
    closers,    \* rt.closers
    registered, \* history: every closer ever registered, in order
    checks,     \* rt.health, the readiness checks
    covered,    \* the checks each server was given
    listen,     \* where ListenAndServe is
    turn,       \* the runner that run stops next
    serviceCtx, \* its context is done
    isRunning,  \* g.stop is set
    isClosed,   \* g.closed
    stopExpired,    \* history: stopCtx ended before the runners had returned
    stopper, stopTurn,  \* where each Shutdown is
    closing, took,  \* where closeResources is in each goroutine, and its closers
    handling,       \* a message handler runs
    drainExpired,   \* history: the consumers' drain was cut by the context
    overlap         \* history: two Shutdowns closed the resources at once

resources == <<open, closers, registered, checks>>
buildVars == <<stoppers, patient, components, runners, phase, comp, part, covered>>
listenVars == <<listen, turn, serviceCtx, isRunning, isClosed, stopExpired>>
stopVars == <<stopper, stopTurn>>
closeVars == <<closing, took, drainExpired, overlap>>
vars == <<serverVars, buildVars, resources, listenVars, stopVars, closeVars, handling>>
-----------------------------------------------------------------------------
(* Build.                                                                  *)

Stage(c) ==
    CASE c = "observability" -> 100
      [] c = "database" -> 200
      [] c = "cache" -> 300
      [] c = "session" -> 400
      [] c = "messaging" -> 500
      [] c = "iam" -> 600
      [] OTHER -> 900      \* a server

\* slices.SortStableFunc: the order of With breaks ties.  There is one such
\* sequence.
Precedes(q, i, j) == Stage(q[i]) < Stage(q[j]) \/ (Stage(q[i]) = Stage(q[j]) /\ i < j)
Sortings(q) == {f \in Bijection(DOMAIN q, DOMAIN q) : \A m, n \in DOMAIN q : m < n => Precedes(q, f[m], f[n])}
SortedByStage(q) == {[n \in DOMAIN q |-> q[f[n]]] : f \in Sortings(q)}

\* What the Start of each component opens, in order; cache and session share
\* one Redis client.  The drain of the consumers has a closer of its own,
\* registered after the broker's.  A component whose resource was injected opens
\* nothing and counts as not declared.
Opens(c) ==
    CASE c = "observability" -> <<"telemetry">>
      [] c = "database" -> <<"database">>
      [] c \in {"cache", "session"} -> <<"redis">>
      [] c = "messaging" -> <<"broker", "consumers">>
      [] c = "iam" -> <<"iam redis">>
      [] OTHER -> <<>>     \* a server

\* The Start of iam registers no closer for the Redis client it creates.
HasCloser(r) == r # "iam redis"

\* The resources whose component adds a readiness check.
Checked == {"database", "redis", "consumers"}

Init ==
    /\ ServerInit
    /\ \E m \in Programs : /\ components = m.with
                           /\ stoppers = m.stoppers /\ patient = m.patient
    /\ runners = <<>>
    /\ phase = "declared" /\ comp = 1 /\ part = 1 /\ covered = [s \in Server |-> {}]
    /\ open = {} /\ closers = <<>> /\ registered = <<>> /\ checks = {}
    /\ listen = "idle" /\ turn = 1 /\ serviceCtx = FALSE /\ isRunning = FALSE /\ isClosed = FALSE
    /\ stopExpired = FALSE
    /\ stopper = [k \in Stopper |-> "idle"] /\ stopTurn = [k \in Stopper |-> 1]
    /\ closing = [p \in Closing |-> "idle"] /\ took = [p \in Closing |-> <<>>]
     /\ drainExpired = FALSE /\ overlap = FALSE
    /\ handling = FALSE

\* The environment, the settings and the transports are checked before any
\* component starts.
BuildBegins ==
    /\ phase = "declared"
    /\ \/ phase' = "starting" /\ components' \in SortedByStage(components)
       \/ phase' = "failed" /\ UNCHANGED components
    /\ UNCHANGED <<serverVars, stoppers, patient, runners, comp, part, covered, resources, listenVars,
                   stopVars, closeVars, handling>>

\* The resource that the component being started opens next.
Opening == Opens(components[comp])[part]

StartOpens ==
    /\ phase = "starting" /\ comp <= Len(components) /\ part <= Len(Opens(components[comp]))
    /\ open' = open \cup {Opening}
    /\ LET new == IF HasCloser(Opening) /\ Opening \notin open THEN <<Opening>> ELSE <<>>
       IN  closers' = closers \o new /\ registered' = registered \o new
    /\ checks' = checks \cup (Checked \cap {Opening})
    /\ part' = part + 1
    /\ UNCHANGED <<serverVars, stoppers, patient, components, runners, phase, comp, covered, listenVars, stopVars,
                   closeVars, handling>>

\* Start returns; that of a server, which is a Runner, gives it the checks
\* registered so far.
Started ==
    /\ phase = "starting" /\ comp <= Len(components) /\ part > Len(Opens(components[comp]))
    /\ covered' = [s \in Server |-> IF s = components[comp] THEN checks ELSE covered[s]]
    /\ runners' = IF components[comp] \in Server THEN Append(runners, components[comp]) ELSE runners
    /\ comp' = comp + 1 /\ part' = 1
    /\ UNCHANGED <<serverVars, stoppers, patient, components, phase, resources, listenVars, stopVars, closeVars,
                   handling>>

\* Start fails before, between or after what it opens.  The Redis client that
\* does not answer the ping has been created and has no closer.
StartFails ==
    /\ phase = "starting" /\ comp <= Len(components)
    /\ phase' = "undo"
    /\ \/ UNCHANGED open
       \/ part <= Len(Opens(components[comp])) /\ Opening = "redis" /\ open' = open \cup {"redis"}
    /\ UNCHANGED <<serverVars, stoppers, patient, components, runners, comp, part, covered, closers, registered, checks,
                   listenVars, stopVars, closeVars, handling>>

\* rt.Close of a failed Build: nothing else runs yet, so it is one step.
Undoes ==
    /\ phase = "undo"
    /\ phase' = "failed"
    /\ open' = open \ Range(closers)
    /\ closers' = <<>>
    /\ UNCHANGED <<serverVars, stoppers, patient, components, runners, comp, part, covered, registered, checks,
                   listenVars, stopVars, closeVars, handling>>

Built ==
    /\ phase = "starting" /\ comp > Len(components)
    /\ phase' = "built"
    /\ UNCHANGED <<serverVars, stoppers, patient, components, runners, comp, part, covered, resources, listenVars,
                   stopVars, closeVars, handling>>
-----------------------------------------------------------------------------
(* closeResources, run by goroutine p.                                     *)

\* rt.Close reads the closers and then forgets them; nothing guards the two.
Takes(p) ==
    /\ closing[p] = "take"
    /\ took' = [took EXCEPT ![p] = closers]
    /\ closing' = [closing EXCEPT ![p] = "forget"]
    /\ UNCHANGED <<serverVars, buildVars, resources, listenVars, stopVars, drainExpired, overlap, handling>>

Forgets(p) ==
    /\ closing[p] = "forget"
    /\ closers' = <<>>
    /\ closing' = [closing EXCEPT ![p] = "close"]
    /\ UNCHANGED <<serverVars, buildVars, open, registered, checks, listenVars, stopVars, took, drainExpired,
                   overlap, handling>>

Last(s) == s[Len(s)]
Front(s) == SubSeq(s, 1, Len(s) - 1)

\* The closers run in reverse order.  The consumers' one waits for the handlers
\* in flight, or for the context: that of ListenAndServe ends after
\* ShutdownTimeout, that of a Shutdown is its caller's.
Closes(p) ==
    /\ closing[p] = "close"
    /\ took[p] # <<>>
    /\ Last(took[p]) = "consumers" /\ handling => p \notin patient
    /\ open' = open \ {Last(took[p])}
    /\ took' = [took EXCEPT ![p] = Front(@)]
    /\ drainExpired' = (drainExpired \/ (Last(took[p]) = "consumers" /\ handling))
    /\ UNCHANGED <<serverVars, buildVars, closers, registered, checks, listenVars, stopVars, closing, overlap,
                   handling>>

\* logging.Shutdown, and closeResources returns.
ClosedAll(p) ==
    /\ closing[p] = "close"
    /\ took[p] = <<>>
    /\ closing' = [closing EXCEPT ![p] = "done"]
    /\ UNCHANGED <<serverVars, buildVars, resources, listenVars, stopVars, took, drainExpired, overlap,
                   handling>>

CloseResources(p) == Takes(p) \/ Forgets(p) \/ Closes(p) \/ ClosedAll(p)
-----------------------------------------------------------------------------
(* ListenAndServe.                                                         *)

\* After Shutdown it returns at once.
ListenBegins ==
    /\ phase = "built" /\ listen = "idle"
    /\ IF isClosed
       THEN listen' = "refused" /\ UNCHANGED isRunning
       ELSE listen' = "select" /\ isRunning' = TRUE
    /\ UNCHANGED <<serverVars, buildVars, resources, turn, serviceCtx, isClosed, stopExpired, stopVars, closeVars,
                   handling>>

\* The goroutine of a runner calls Run.
Runs(s) ==
    /\ isRunning /\ s \in Range(runners)
    /\ Serves(s)
    /\ UNCHANGED <<buildVars, resources, listenVars, stopVars, closeVars, handling>>

\* SIGINT or SIGTERM: the service and the servers that run get it.
Signal ==
    /\ isRunning /\ listen # "done"
    /\ serviceCtx' = TRUE
    /\ srvCtx' = [s \in Server |-> srvCtx[s] \/ srv[s] # "idle"]
    /\ UNCHANGED <<srv, srvClosed, ready, busy, left, buildVars, resources, listen, turn, isRunning, isClosed,
                   stopExpired, stopVars, closeVars, handling>>

\* Variant: the resources are closed without stopping the runners.
SelectedCloses ==
    /\ listen = "select"
    /\ serviceCtx \/ \E s \in Server : Returned(s)
    /\ listen' = "close"
    /\ closing' = [closing EXCEPT ![Main] = "take"]
    /\ UNCHANGED <<serverVars, buildVars, resources, turn, serviceCtx, isRunning, isClosed, stopExpired, stopVars,
                   took, drainExpired, overlap, handling>>

\* Variant: only the context ends the wait.
SelectedOnSignal ==
    /\ listen = "select"
    /\ serviceCtx
    /\ listen' = IF runners = <<>> THEN "close" ELSE "stop"
    /\ closing' = [closing EXCEPT ![Main] = IF runners = <<>> THEN "take" ELSE @]
    /\ UNCHANGED <<serverVars, buildVars, resources, turn, serviceCtx, isRunning, isClosed, stopExpired, stopVars,
                   took, drainExpired, overlap, handling>>

\* The first runner returned, or the context is done; without runners only that.
Selected ==
    /\ listen = "select"
    /\ serviceCtx \/ \E s \in Server : Returned(s)
    /\ listen' = IF runners = <<>> THEN "close" ELSE "stop"
    /\ closing' = [closing EXCEPT ![Main] = IF runners = <<>> THEN "take" ELSE @]
    /\ UNCHANGED <<serverVars, buildVars, resources, turn, serviceCtx, isRunning, isClosed, stopExpired, stopVars,
                   took, drainExpired, overlap, handling>>

\* run stops the runners one after the other, within one context.
StopsRunner ==
    /\ listen = "stop" /\ turn <= Len(runners)
    /\ ShutdownCalled(runners[turn])
    /\ listen' = "stopping"
    /\ UNCHANGED <<buildVars, resources, turn, serviceCtx, isRunning, isClosed, stopExpired, stopVars, closeVars,
                   handling>>

RunnerStopped ==
    /\ listen = "stopping"
    /\ ShutdownReturns(runners[turn]) \/ stopExpired
    /\ turn' = turn + 1
    /\ listen' = IF turn < Len(runners) THEN "stop" ELSE "collect"
    /\ UNCHANGED <<serverVars, buildVars, resources, serviceCtx, isRunning, isClosed, stopExpired, stopVars,
                   closeVars, handling>>

StopTimesOut ==
    /\ listen \in {"stop", "stopping", "collect"}
    /\ ~stopExpired
    /\ stopExpired' = TRUE
    /\ UNCHANGED <<serverVars, buildVars, resources, listen, turn, serviceCtx, isRunning, isClosed, stopVars,
                   closeVars, handling>>

\* run has the results of all runners, or the context of the stop ended.
Collects ==
    /\ listen = "collect"
    /\ (\A s \in Range(runners) : Returned(s)) \/ stopExpired
    /\ listen' = "close"
    /\ turn' = 1
    /\ closing' = [closing EXCEPT ![Main] = "take"]
    /\ UNCHANGED <<serverVars, buildVars, resources, serviceCtx, isRunning, isClosed, stopExpired, stopVars,
                   took, drainExpired, overlap, handling>>

ListenReturns ==
    /\ listen = "close" /\ closing[Main] = "done"
    /\ listen' = "done"
    /\ UNCHANGED <<serverVars, buildVars, resources, turn, serviceCtx, isRunning, isClosed, stopExpired, stopVars,
                   closeVars, handling>>
-----------------------------------------------------------------------------
(* Shutdown, called by k.                                                  *)

DirectCloses == {k \in Stopper : closing[k] \notin {"idle", "done"}}

ShutdownBegins(k) ==
    /\ phase = "built" /\ k \in stoppers /\ stopper[k] = "idle"
    /\ isClosed' = TRUE
    /\ IF isRunning
       THEN /\ serviceCtx' = TRUE
            /\ stopper' = [stopper EXCEPT ![k] = "stop"]
            /\ UNCHANGED <<closing, overlap>>
       ELSE /\ closing' = [closing EXCEPT ![k] = "take"]
            /\ stopper' = [stopper EXCEPT ![k] = "close"]
            /\ overlap' = (overlap \/ DirectCloses # {})
            /\ UNCHANGED serviceCtx
    /\ UNCHANGED <<serverVars, buildVars, resources, listen, turn, isRunning, stopExpired, stopTurn, took,
                   drainExpired, handling>>

ShutdownStops(k) ==
    /\ stopper[k] = "stop" /\ stopTurn[k] <= Len(runners)
    /\ ShutdownCalled(runners[stopTurn[k]])
    /\ stopper' = [stopper EXCEPT ![k] = "stopping"]
    /\ UNCHANGED <<buildVars, resources, listenVars, stopTurn, closeVars, handling>>

ShutdownStopped(k) ==
    /\ stopper[k] = "stopping"
    /\ ShutdownReturns(runners[stopTurn[k]])
    /\ stopper' = [stopper EXCEPT ![k] = "stop"]
    /\ stopTurn' = [stopTurn EXCEPT ![k] = @ + 1]
    /\ UNCHANGED <<serverVars, buildVars, resources, listenVars, closeVars, handling>>

\* The runners are stopped: it waits for ListenAndServe.
ShutdownWaits(k) ==
    /\ stopper[k] = "stop" /\ stopTurn[k] > Len(runners)
    /\ listen = "done"
    /\ stopper' = [stopper EXCEPT ![k] = "nil"]
    /\ stopTurn' = [stopTurn EXCEPT ![k] = 1]
    /\ UNCHANGED <<serverVars, buildVars, resources, listenVars, closeVars, handling>>

\* Its context ends, in a Stop or in the wait; an error of Stop has the same end.
ShutdownTimesOutAt(k) ==
    /\ k \notin patient
    /\ stopper[k] = "stopping" \/ (stopper[k] = "stop" /\ stopTurn[k] > Len(runners))
    /\ stopper' = [stopper EXCEPT ![k] = "err"]
    /\ stopTurn' = [stopTurn EXCEPT ![k] = 1]
    /\ UNCHANGED <<serverVars, buildVars, resources, listenVars, closeVars, handling>>

ShutdownClosed(k) ==
    /\ stopper[k] = "close" /\ closing[k] = "done"
    /\ stopper' = [stopper EXCEPT ![k] = "nil"]
    /\ UNCHANGED <<serverVars, buildVars, resources, listenVars, stopTurn, closeVars, handling>>

Shutdown(k) ==
    ShutdownStops(k) \/ ShutdownStopped(k) \/ ShutdownWaits(k) \/ ShutdownClosed(k)
-----------------------------------------------------------------------------
(* The load: a request on a server, a message in a consumer.               *)

Serve(s) == ServerStep(s) /\ UNCHANGED <<buildVars, resources, listenVars, stopVars, closeVars, handling>>

\* The drain of the consumers has begun: they receive nothing more.
Draining == \E p \in Closing : closing[p] = "close" /\ took[p] # <<>> /\ Last(took[p]) = "consumers"

Message ==
    /\ phase = "built" /\ "consumers" \in open /\ ~handling /\ ~Draining
    /\ handling' = TRUE
    /\ UNCHANGED <<serverVars, buildVars, resources, listenVars, stopVars, closeVars>>

MessageDone ==
    /\ handling
    /\ handling' = FALSE
    /\ UNCHANGED <<serverVars, buildVars, resources, listenVars, stopVars, closeVars>>
-----------------------------------------------------------------------------
Build == BuildBegins \/ StartOpens \/ Started \/ StartFails \/ Undoes \/ Built

ListenAndServe ==
    \/ Selected \/ StopsRunner \/ RunnerStopped \/ StopTimesOut \/ Collects \/ ListenReturns

Next ==
    \/ Build \/ ListenBegins \/ ListenAndServe \/ Signal \/ Message \/ MessageDone
    \/ \E k \in Stopper : ShutdownBegins(k) \/ ShutdownTimesOutAt(k) \/ Shutdown(k)
    \/ \E p \in Closing : CloseResources(p)
    \/ \E s \in Server : Runs(s) \/ Serve(s)

Spec == Init /\ [][Next]_vars

\* Each goroutine runs (ListenAndServe, a runner, a caller of Shutdown), the
\* timeouts of ListenAndServe and of the servers come, and the contexts passed to
\* Shutdown end, those of the patient excepted.  Nobody has to call, and no
\* handler has to return.
Fairness ==
    /\ WF_vars(ListenAndServe \/ CloseResources(Main))
    /\ \A s \in Server : WF_vars(Runs(s) \/ (Serve(s) /\ ServerStops(s)))
    /\ \A k \in Stopper : WF_vars(Shutdown(k) \/ ShutdownTimesOutAt(k) \/ CloseResources(k))

FairSpec == Spec /\ Fairness
-----------------------------------------------------------------------------
(* Properties.                                                             *)

Resource == {"telemetry", "database", "redis", "broker", "consumers", "iam redis"}

\* The type invariant: among others each resource is registered once, however
\* many components share it (Shared), and every list a closeResources works on
\* is a prefix of the registration order.
TypeOK ==
    /\ ServerTypeOK
    /\ stoppers \subseteq Stopper /\ patient \subseteq stoppers
    /\ components \in Seq(Component) /\ runners \in Seq(Server)
    /\ phase \in {"declared", "starting", "undo", "failed", "built"}
    /\ comp \in 1..(Len(components) + 1) /\ part \in 1..3
    /\ open \subseteq Resource /\ checks \subseteq Resource /\ covered \in [Server -> SUBSET Resource]
    /\ registered \in Seq(Resource) /\ IsInjective(registered) /\ closers \in {<<>>, registered}
    /\ listen \in {"idle", "refused", "select", "stop", "stopping", "collect", "close", "done"}
    /\ turn \in 1..(Len(runners) + 1)
    /\ serviceCtx \in BOOLEAN /\ isRunning \in BOOLEAN /\ isClosed \in BOOLEAN /\ stopExpired \in BOOLEAN
    /\ stopper \in [Stopper -> {"idle", "stop", "stopping", "close", "nil", "err"}]
    /\ stopTurn \in [Stopper -> 1..(Len(runners) + 1)]
    /\ closing \in [Closing -> {"idle", "take", "forget", "close", "done"}]
    /\ took \in [Closing -> Seq(Resource)]
    /\ \A p \in Closing : Len(took[p]) <= Len(registered) /\ took[p] = SubSeq(registered, 1, Len(took[p]))
    /\ drainExpired \in BOOLEAN /\ overlap \in BOOLEAN /\ handling \in BOOLEAN

\* The resources with a closer that are still open.
Owned == open \cap Range(registered)

\* Whatever fails and whoever closes, a resource is closed only after all that
\* were registered later: the consumers before their broker, the cache and the
\* database ("Closers run in reverse order of registration", OnClose).
ClosedInReverse ==
    phase = "built" => \A i, j \in DOMAIN registered : i < j /\ registered[j] \in open => registered[i] \in open

\* Once a resource is closed no server serves, and no request or message is
\* handled, unless a timeout of the shutdown was used up or a listener failed
\* (ListenAndServe stops the runners before closeResources; CloseContext drains).
NotUsedClosed ==
    phase = "built" /\ Owned # Range(registered) =>
        /\ \A s \in Server : /\ ShutdownReturns(s) \/ stopExpired
                             /\ busy[s] => left[s] \/ stopExpired
        /\ handling => "consumers" \in open \/ drainExpired

\* When Shutdown returns nil every owned resource is closed, unless another
\* Shutdown of a service that does not run was closing at the same time.
NilMeansClosed ==
    \A k \in Stopper : stopper[k] = "nil" /\ ~overlap => Owned = {}

\* A Build that fails has closed all that had a closer (Build).
FailedBuildCloses == phase = "failed" => Owned = {} /\ closers = <<>>

\* In whatever order the components were given to With, the servers cover the
\* readiness of everything opened ("StageServer starts last, so it sees the
\* health checks registered by every other component", gofi.go).
ReadinessCovers ==
    phase = "built" => \A s \in Range(runners) : covered[s] = Checked \cap (Range(registered) \cup open)

\* ListenAndServe ends, with the resources closed, after a signal, a Shutdown or
\* the end of one runner, even if requests and handlers never end.
ListenEnds ==
    (listen = "select" /\ (serviceCtx \/ \E s \in Server : Returned(s))) ~> (listen = "done" /\ Owned = {})

\* A Shutdown returns, whenever it comes: one whose context ends whatever the
\* handlers do, one whose context never ends if no gRPC handler and no message
\* handler runs for ever (CloseContext and GracefulStop wait for them).
ShutdownEnds ==
    \A k \in Stopper :
        \/ (stopper[k] # "idle") ~> (stopper[k] \in {"nil", "err"})
        \/ <>[](k \in patient /\ handling)
        \/ \E s \in Server : <>[](k \in patient /\ WaitsForHandlers(s) /\ busy[s])

\* What the lifecycle promises of the resources, in all states (Build, OnClose,
\* ListenAndServe, Shutdown): they close in reverse, are not used closed, are
\* all closed after a Shutdown that says so and after a Build that failed, and
\* each is covered by the readiness of the servers.
OrderlyLifecycle ==
    TypeOK /\ ClosedInReverse /\ NotUsedClosed /\ NilMeansClosed /\ FailedBuildCloses /\ ReadinessCovers

\* A service that was told to stop stops (ListenAndServe), and whoever told it
\* learns of it (Shutdown).
ServiceEnds == ListenEnds /\ ShutdownEnds
=============================================================================
