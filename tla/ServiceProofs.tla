---------------------------- MODULE ServiceProofs ----------------------------
(***************************************************************************)
(* Proofs about the lifecycle of a service (Service): Build,               *)
(* ListenAndServe and Shutdown, for every program, that is any components  *)
(* in any order and any number of goroutines that call Shutdown.           *)
(*                                                                         *)
(* The closers that a closeResources has taken are a prefix of the         *)
(* registration order, and what lies behind it is closed already           *)
(* (TakenInReverse); so the order of closing is kept even when two         *)
(* Shutdowns overlap.  That nothing stays open needs a closeResources that *)
(* no other one overlaps: it then has all that is open ahead of it         *)
(* (SoleCloses).  ListenAndServe is never overlapped, because a Shutdown   *)
(* that closes by itself has set closed before ListenAndServe began        *)
(* (ShutdownsClose).                                                       *)
(***************************************************************************)
EXTENDS Service, TLAPS

\* The servers are of the last stage, and only they.
LEMMA ServersLast ==
    ASSUME NEW c \in Component
    PROVE  Stage(c) \in 0 .. 900 /\ (c \in Server <=> Stage(c) = 900)
<1>1. Server = {"http server", "grpc server"}
  BY Zenon, ServiceAssumption
<1>2. CASE c \in Server
  <2>1. c = "http server" \/ c = "grpc server"
    BY Zenon, <1>1, <1>2
  <2> DEFINE last == 900
  <2>2. Stage("http server") = last /\ Stage("grpc server") = last
    BY DEF Stage
  <2> HIDE DEF last
  <2>3. Stage(c) = last
    BY Zenon, <2>1, <2>2
  <2> QED
    BY <1>2, <2>3 DEF last
<1>3. CASE c \notin Server
  <2>1. c \in {"observability", "database", "cache", "session", "messaging", "iam"}
    BY Zenon, <1>3 DEF Component
  <2>2. Stage(c) \in {100, 200, 300, 400, 500, 600}
    BY <2>1 DEF Stage
  <2> QED
    BY <1>3, <2>2
<1> QED
  BY Zenon, <1>2, <1>3

\* Build starts the servers after all other components.
LEMMA SortSorts ==
    ASSUME NEW q \in Seq(Component), NEW t \in SortedByStage(q)
    PROVE  /\ t \in Seq(Component) /\ Len(t) = Len(q)
           /\ \A m, n \in DOMAIN q : m < n /\ t[m] \in Server => t[n] \in Server
<1>1. PICK f \in [DOMAIN q -> DOMAIN q] : /\ t = [n \in DOMAIN q |-> q[f[n]]]
                                         /\ \A m, n \in DOMAIN q : m < n => Precedes(q, f[m], f[n])
  BY Zenon DEF SortedByStage, Sortings, Bijection, Injection
<1>2. \A n \in DOMAIN q : f[n] \in DOMAIN q /\ t[n] = q[f[n]] /\ q[f[n]] \in Component
  <2>1. \A i \in DOMAIN q : q[i] \in Component
    OBVIOUS
  <2> QED
    BY Zenon, <1>1, <2>1
<1>3. t \in [1 .. Len(q) -> Component] /\ Len(q) \in Nat
  <2>1. DOMAIN q = 1 .. Len(q) /\ Len(q) \in Nat
    OBVIOUS
  <2> QED
    BY Zenon, <1>1, <1>2, <2>1
<1>4. t \in Seq(Component) /\ Len(t) = Len(q)
  BY <1>3
<1>5. ASSUME NEW m \in DOMAIN q, NEW n \in DOMAIN q, m < n, t[m] \in Server
      PROVE  t[n] \in Server
  <2>1. PICK c \in Component, d \in Component : c = t[m] /\ d = t[n]
    BY Zenon, <1>2
  <2>2. Stage(c) < Stage(d) \/ Stage(c) = Stage(d)
    BY Zenon, <1>1, <1>2, <1>5, <2>1 DEF Precedes
  <2> DEFINE last == 900
             range == 0 .. 900
  <2>3. \A x \in Component : Stage(x) \in range /\ (x \in Server <=> Stage(x) = last)
    BY Zenon, ServersLast
  <2>4. \A x \in range : ~(last < x)
    OBVIOUS
  <2> HIDE DEF last, range
  <2>5. Stage(c) = last /\ Stage(d) \in range
    BY Zenon, <1>5, <2>1, <2>3
  <2>6. Stage(d) = last
    BY Zenon, <2>2, <2>4, <2>5
  <2> QED
    BY Zenon, <2>1, <2>3, <2>6
<1> QED
  BY Zenon, <1>4, <1>5

\* Before Build has succeeded nothing runs, stops or closes.
Quiet ==
    phase # "built" =>
        /\ listen = "idle" /\ ~isRunning /\ ~handling
        /\ \A k \in Stopper : stopper[k] = "idle"
        /\ \A p \in Closing : closing[p] = "idle" /\ took[p] = <<>>

\* What Build has opened is registered, if it has a closer, and the closers are
\* those to run; a Build that failed has run them.
BuildRegisters ==
    /\ phase = "declared" => runners = <<>> /\ registered = <<>> /\ checks = {} /\ open = {}
    /\ phase \in {"declared", "starting", "undo"} => closers = registered
    /\ phase \in {"declared", "starting"} => Range(registered) \subseteq open
    /\ phase \in {"starting", "built"} => Checked \cap open \subseteq Range(registered)
    /\ phase \in {"starting", "built"} => checks = Checked \cap Range(registered)
    /\ phase = "failed" => Owned = {} /\ closers = <<>>

\* The servers come last, and those started have all checks.
ServersCover ==
    /\ phase = "starting" =>
         \A m, n \in DOMAIN components : m < n /\ components[m] \in Server => components[n] \in Server
    /\ phase = "starting" => \A s \in Range(runners) : \E m \in DOMAIN components : m < comp /\ components[m] = s
    /\ phase \in {"starting", "built"} => \A s \in Range(runners) : covered[s] = checks

\* A server runs only in ListenAndServe, and has no request in flight once it
\* returned, unless it left it.
ServersServe ==
    \A s \in Server :
        /\ srv[s] = "idle" => ~busy[s]
        /\ srv[s] = "failed" => left[s]
        /\ srv[s] = "returned" /\ busy[s] => left[s]
        /\ srv[s] # "idle" => isRunning /\ s \in Range(runners)

\* ListenAndServe stops the runners in turn and closes when all have returned.
ListenStops ==
    /\ isRunning <=> listen \notin {"idle", "refused"}
    /\ listen \in {"idle", "refused", "select"} => turn = 1
    /\ listen \in {"stop", "stopping"} => turn <= Len(runners)
    /\ listen \in {"close", "done"} => stopExpired \/ \A s \in Range(runners) : Returned(s)
    /\ closing[Main] # "idle" <=> listen \in {"close", "done"}
    /\ listen = "done" => closing[Main] = "done"

\* A Shutdown closes by itself only a service that does not run, and never will.
ShutdownsClose ==
    \A k \in Stopper :
        /\ closing[k] # "idle" => isClosed /\ ~isRunning
        /\ closing[k] # "idle" <=> stopper[k] = "close" \/ (stopper[k] = "nil" /\ ~isRunning)
        /\ stopper[k] = "nil" => closing[k] = "done" \/ listen = "done"
        /\ stopper[k] = "stopping" => stopTurn[k] <= Len(runners)

Active(p) == closing[p] \notin {"idle", "done"}

\* Who has taken closers has closed those behind them.
TakenInReverse ==
    \A p \in Closing :
        /\ closing[p] = "forget" => took[p] \in {<<>>, registered}
        /\ closing[p] \in {"forget", "close"} /\ took[p] # <<>> =>
             \A j \in DOMAIN registered : j > Len(took[p]) => registered[j] \notin open

\* A closeResources that no other overlaps has all that is open ahead of it.
SoleCloses(p) ==
    /\ closing[p] = "take" => closers = registered \/ Owned = {}
    /\ closing[p] = "forget" => took[p] = registered \/ Owned = {}
    /\ closing[p] = "close" => \A j \in DOMAIN registered : registered[j] \in open => j <= Len(took[p])
    /\ closing[p] = "done" => Owned = {}

ClosesAll ==
    /\ phase = "built" /\ (\A p \in Closing : closing[p] = "idle") =>
         closers = registered /\ Range(registered) \subseteq open
    /\ ~overlap => \A k, l \in Stopper : Active(k) /\ Active(l) => k = l
    /\ \A p \in Closing : p = Main \/ ~overlap => SoleCloses(p)

HandlersDrained == handling => "consumers" \in open \/ drainExpired

ServiceInv ==
    /\ TypeOK /\ Quiet /\ BuildRegisters /\ ServersCover /\ ServersServe /\ ListenStops /\ ShutdownsClose
    /\ TakenInReverse /\ ClosedInReverse /\ ClosesAll /\ HandlersDrained

-----------------------------------------------------------------------------
(* What each part of the service leaves alone.                             *)

LEMMA BuildFrame ==
    ASSUME Build
    PROVE  /\ UNCHANGED serverVars /\ UNCHANGED listenVars /\ UNCHANGED stopVars
           /\ UNCHANGED closeVars /\ UNCHANGED <<stoppers, patient, handling>> /\ phase # "built"
BY Zenon DEF Build, BuildBegins, StartOpens, Started, StartFails, Undoes, Built

LEMMA ListenFrame ==
    ASSUME ListenBegins \/ ListenAndServe \/ Signal
    PROVE  /\ UNCHANGED <<srv, ready, busy, left>> /\ UNCHANGED buildVars /\ UNCHANGED resources
           /\ UNCHANGED stopVars /\ UNCHANGED <<isClosed, took, drainExpired, overlap, handling>>
BY Zenon DEF ListenBegins, ListenAndServe, Selected, StopsRunner, RunnerStopped, StopTimesOut, Collects,
   ListenReturns, Signal, closeVars, listenVars, serverVars, ShutdownCalled

LEMMA ShutdownFrame ==
    ASSUME NEW k \in Stopper, ShutdownBegins(k) \/ ShutdownTimesOutAt(k) \/ Shutdown(k)
    PROVE  /\ UNCHANGED <<srv, ready, busy, left>> /\ UNCHANGED buildVars /\ UNCHANGED resources
           /\ UNCHANGED <<listen, turn, isRunning, stopExpired, took, drainExpired, handling>>
           /\ UNCHANGED <<closing, overlap, isClosed, serviceCtx>> \/ ShutdownBegins(k)
BY Zenon DEF ShutdownBegins, ShutdownTimesOutAt, Shutdown, ShutdownStops, ShutdownStopped, ShutdownWaits,
   ShutdownClosed, closeVars, listenVars, serverVars, ShutdownCalled

LEMMA CloseFrame ==
    ASSUME NEW p \in Closing, CloseResources(p)
    PROVE  /\ UNCHANGED serverVars /\ UNCHANGED buildVars /\ UNCHANGED <<registered, checks>>
           /\ UNCHANGED listenVars /\ UNCHANGED stopVars /\ UNCHANGED <<overlap, handling>>
           /\ closing[p] \in {"take", "forget", "close"}
BY Zenon DEF CloseResources, Takes, Forgets, Closes, ClosedAll, resources, closeVars

LEMMA LoadFrame ==
    ASSUME Message \/ MessageDone \/ \E s \in Server : Runs(s) \/ Serve(s)
    PROVE  /\ UNCHANGED buildVars /\ UNCHANGED resources /\ UNCHANGED listenVars /\ UNCHANGED stopVars
           /\ UNCHANGED closeVars
BY Zenon DEF Message, MessageDone, Runs, Serve

\* The steps of the service, by part.
LEMMA ServiceSteps ==
    ASSUME [Next]_vars
    PROVE  \/ Build
           \/ ListenBegins \/ ListenAndServe \/ Signal
           \/ \E k \in Stopper : ShutdownBegins(k) \/ ShutdownTimesOutAt(k) \/ Shutdown(k)
           \/ \E p \in Closing : CloseResources(p)
           \/ Message \/ MessageDone \/ \E s \in Server : Runs(s) \/ Serve(s)
           \/ UNCHANGED vars
BY Zenon DEF Next

LEMMA NothingChanges ==
    ASSUME UNCHANGED vars
    PROVE  /\ UNCHANGED serverVars /\ UNCHANGED buildVars /\ UNCHANGED resources /\ UNCHANGED listenVars
           /\ UNCHANGED stopVars /\ UNCHANGED closeVars /\ UNCHANGED handling
BY Zenon DEF vars

\* Who moves closeResources, the handlers and the servers.
LEMMA WhoCloses ==
    ASSUME [Next]_vars
    PROVE  \/ UNCHANGED closeVars
           \/ Selected \/ Collects
           \/ \E k \in Stopper : ShutdownBegins(k)
           \/ \E p \in Closing : CloseResources(p)
<1>1. CASE Build
  BY Zenon, <1>1, BuildFrame
<1>2. CASE ListenBegins \/ ListenAndServe \/ Signal
  BY Zenon, <1>2 DEF ListenBegins, ListenAndServe, StopsRunner, RunnerStopped, StopTimesOut, ListenReturns, Signal
<1>3. ASSUME NEW k \in Stopper, ShutdownTimesOutAt(k) \/ Shutdown(k) PROVE UNCHANGED closeVars
  BY Zenon, <1>3 DEF ShutdownTimesOutAt, Shutdown, ShutdownStops, ShutdownStopped, ShutdownWaits, ShutdownClosed
<1>4. CASE Message \/ MessageDone \/ \E s \in Server : Runs(s) \/ Serve(s)
  BY Zenon, <1>4, LoadFrame
<1>5. CASE UNCHANGED vars
  BY Zenon, <1>5, NothingChanges
<1> QED
  BY Zenon, <1>1, <1>2, <1>3, <1>4, <1>5, ServiceSteps

LEMMA WhoHandles ==
    ASSUME [Next]_vars
    PROVE  UNCHANGED handling \/ Message \/ MessageDone
<1>1. CASE Build
  BY Zenon, <1>1, BuildFrame
<1>2. CASE ListenBegins \/ ListenAndServe \/ Signal
  BY Zenon, <1>2, ListenFrame
<1>3. ASSUME NEW k \in Stopper, ShutdownBegins(k) \/ ShutdownTimesOutAt(k) \/ Shutdown(k) PROVE UNCHANGED handling
  BY Zenon, <1>3, ShutdownFrame
<1>4. ASSUME NEW p \in Closing, CloseResources(p) PROVE UNCHANGED handling
  BY Zenon, <1>4, CloseFrame
<1>5. ASSUME NEW s \in Server, Runs(s) \/ Serve(s) PROVE UNCHANGED handling
  BY Zenon, <1>5 DEF Runs, Serve
<1>6. CASE UNCHANGED vars
  BY Zenon, <1>6, NothingChanges
<1> QED
  BY Zenon, <1>1, <1>2, <1>3, <1>4, <1>5, <1>6, ServiceSteps

LEMMA WhoServes ==
    ASSUME [Next]_vars
    PROVE  UNCHANGED <<srv, busy, left>> \/ \E s \in Server : Runs(s) \/ Serve(s)
<1>1. CASE Build
  BY Zenon, <1>1, BuildFrame DEF serverVars
<1>2. CASE ListenBegins \/ ListenAndServe \/ Signal
  BY Zenon, <1>2, ListenFrame
<1>3. ASSUME NEW k \in Stopper, ShutdownBegins(k) \/ ShutdownTimesOutAt(k) \/ Shutdown(k)
      PROVE  UNCHANGED <<srv, busy, left>>
  BY Zenon, <1>3, ShutdownFrame
<1>4. ASSUME NEW p \in Closing, CloseResources(p) PROVE UNCHANGED <<srv, busy, left>>
  BY Zenon, <1>4, CloseFrame DEF serverVars
<1>5. CASE Message \/ MessageDone
  BY Zenon, <1>5 DEF Message, MessageDone, serverVars
<1>6. CASE UNCHANGED vars
  BY Zenon, <1>6, NothingChanges DEF serverVars
<1> QED
  BY Zenon, <1>1, <1>2, <1>3, <1>4, <1>5, <1>6, ServiceSteps

LEMMA WhoBuilds ==
    ASSUME [Next]_vars, ~Build
    PROVE  UNCHANGED buildVars /\ UNCHANGED <<registered, checks>>
<1>2. CASE ListenBegins \/ ListenAndServe \/ Signal
  BY Zenon, <1>2, ListenFrame DEF resources
<1>3. ASSUME NEW k \in Stopper, ShutdownBegins(k) \/ ShutdownTimesOutAt(k) \/ Shutdown(k)
      PROVE  UNCHANGED buildVars /\ UNCHANGED <<registered, checks>>
  BY Zenon, <1>3, ShutdownFrame DEF resources
<1>4. ASSUME NEW p \in Closing, CloseResources(p) PROVE UNCHANGED buildVars /\ UNCHANGED <<registered, checks>>
  BY Zenon, <1>4, CloseFrame
<1>5. CASE Message \/ MessageDone \/ \E s \in Server : Runs(s) \/ Serve(s)
  BY Zenon, <1>5, LoadFrame DEF resources
<1>6. CASE UNCHANGED vars
  BY Zenon, <1>6, NothingChanges DEF resources
<1> QED
  BY Zenon, <1>2, <1>3, <1>4, <1>5, <1>6, ServiceSteps

LEMMA WhoListens ==
    ASSUME [Next]_vars
    PROVE  \/ UNCHANGED listenVars
           \/ ListenBegins \/ ListenAndServe \/ Signal
           \/ \E k \in Stopper : ShutdownBegins(k)
<1>1. CASE Build
  BY Zenon, <1>1, BuildFrame
<1>3. ASSUME NEW k \in Stopper, ShutdownTimesOutAt(k) \/ Shutdown(k) PROVE UNCHANGED listenVars
  BY Zenon, <1>3 DEF ShutdownTimesOutAt, Shutdown, ShutdownStops, ShutdownStopped, ShutdownWaits, ShutdownClosed
<1>4. ASSUME NEW p \in Closing, CloseResources(p) PROVE UNCHANGED listenVars
  BY Zenon, <1>4, CloseFrame
<1>5. CASE Message \/ MessageDone \/ \E s \in Server : Runs(s) \/ Serve(s)
  BY Zenon, <1>5, LoadFrame
<1>6. CASE UNCHANGED vars
  BY Zenon, <1>6, NothingChanges
<1> QED
  BY Zenon, <1>1, <1>3, <1>4, <1>5, <1>6, ServiceSteps

LEMMA WhoShutsDown ==
    ASSUME [Next]_vars
    PROVE  \/ UNCHANGED stopVars
           \/ \E k \in Stopper : ShutdownBegins(k) \/ ShutdownTimesOutAt(k) \/ Shutdown(k)
<1>1. CASE Build
  BY Zenon, <1>1, BuildFrame
<1>2. CASE ListenBegins \/ ListenAndServe \/ Signal
  BY Zenon, <1>2, ListenFrame
<1>4. ASSUME NEW p \in Closing, CloseResources(p) PROVE UNCHANGED stopVars
  BY Zenon, <1>4, CloseFrame
<1>5. CASE Message \/ MessageDone \/ \E s \in Server : Runs(s) \/ Serve(s)
  BY Zenon, <1>5, LoadFrame
<1>6. CASE UNCHANGED vars
  BY Zenon, <1>6, NothingChanges
<1> QED
  BY Zenon, <1>1, <1>2, <1>4, <1>5, <1>6, ServiceSteps

LEMMA WhoOpensAndCloses ==
    ASSUME [Next]_vars
    PROVE  \/ UNCHANGED <<open, closers>>
           \/ Build
           \/ \E p \in Closing : Forgets(p) \/ Closes(p)
<1>2. CASE ListenBegins \/ ListenAndServe \/ Signal
  BY Zenon, <1>2, ListenFrame DEF resources
<1>3. ASSUME NEW k \in Stopper, ShutdownBegins(k) \/ ShutdownTimesOutAt(k) \/ Shutdown(k)
      PROVE  UNCHANGED <<open, closers>>
  BY Zenon, <1>3, ShutdownFrame DEF resources
<1>4. ASSUME NEW p \in Closing, Takes(p) \/ ClosedAll(p) PROVE UNCHANGED <<open, closers>>
  BY Zenon, <1>4 DEF Takes, ClosedAll, resources
<1>5. CASE Message \/ MessageDone \/ \E s \in Server : Runs(s) \/ Serve(s)
  BY Zenon, <1>5, LoadFrame DEF resources
<1>6. CASE UNCHANGED vars
  BY Zenon, <1>6, NothingChanges DEF resources
<1> QED
  BY Zenon, <1>2, <1>3, <1>4, <1>5, <1>6, ServiceSteps DEF CloseResources

-----------------------------------------------------------------------------
(* The types.                                                              *)

TypeBuild ==
    /\ stoppers \subseteq Stopper /\ patient \subseteq stoppers
    /\ components \in Seq(Component) /\ runners \in Seq(Server)
    /\ phase \in {"declared", "starting", "undo", "failed", "built"}
    /\ comp \in 1..(Len(components) + 1) /\ part \in 1..3
    /\ checks \subseteq Resource /\ covered \in [Server -> SUBSET Resource]
TypeResources ==
    open \subseteq Resource /\ registered \in Seq(Resource) /\ IsInjective(registered) /\ closers \in {<<>>, registered}
TypeListen ==
    /\ listen \in {"idle", "refused", "select", "stop", "stopping", "collect", "close", "done"}
    /\ turn \in 1..(Len(runners) + 1)
    /\ serviceCtx \in BOOLEAN /\ isRunning \in BOOLEAN /\ isClosed \in BOOLEAN /\ stopExpired \in BOOLEAN
TypeStop ==
    /\ stopper \in [Stopper -> {"idle", "stop", "stopping", "close", "nil", "err"}]
    /\ stopTurn \in [Stopper -> 1..(Len(runners) + 1)]
TypeClosing ==
    /\ closing \in [Closing -> {"idle", "take", "forget", "close", "done"}]
    /\ drainExpired \in BOOLEAN /\ overlap \in BOOLEAN /\ handling \in BOOLEAN
TypeTook ==
    /\ took \in [Closing -> Seq(Resource)]
    /\ \A p \in Closing : Len(took[p]) <= Len(registered) /\ took[p] = SubSeq(registered, 1, Len(took[p]))

LEMMA TypeParts ==
    /\ TypeOK <=> /\ ServerTypeOK /\ TypeBuild /\ TypeResources /\ TypeListen /\ TypeStop /\ TypeClosing /\ TypeTook
    /\ TypeOK' <=> /\ ServerTypeOK' /\ TypeBuild' /\ TypeResources' /\ TypeListen' /\ TypeStop' /\ TypeClosing'
                   /\ TypeTook'
BY Zenon DEF TypeOK, TypeBuild, TypeResources, TypeListen, TypeStop, TypeClosing, TypeTook

\* A component opens at most two resources, a server none.
LEMMA OpensTwo ==
    ASSUME NEW c \in Component
    PROVE  /\ Opens(c) \in Seq(Resource) /\ Len(Opens(c)) \in 0 .. 2
           /\ c \in Server => Len(Opens(c)) = 0
<1>1. Server = {"http server", "grpc server"}
  BY Zenon, ServiceAssumption
<1>2. CASE c \in Server
  <2>1. c = "http server" \/ c = "grpc server"
    BY Zenon, <1>1, <1>2
  <2>2. Opens("http server") = <<>> /\ Opens("grpc server") = <<>>
    BY DEF Opens
  <2>3. Opens(c) = <<>>
    BY Zenon, <2>1, <2>2
  <2> QED
    BY <2>3
<1>3. CASE c \notin Server
  <2>1. c \in {"observability", "database", "cache", "session", "messaging", "iam"}
    BY Zenon, <1>3 DEF Component
  <2>2. PICK r \in Resource, t \in Resource : Opens(c) = <<r>> \/ Opens(c) = <<r, t>>
    BY <2>1 DEF Opens, Resource
  <2>3. <<r>> \in Seq(Resource) /\ Len(<<r>>) = 1 /\ 1 \in 0 .. 2
    OBVIOUS
  <2>4. <<r, t>> \in Seq(Resource) /\ Len(<<r, t>>) = 2 /\ 2 \in 0 .. 2
    OBVIOUS
  <2> QED
    BY Zenon, <1>3, <2>2, <2>3, <2>4
<1> QED
  BY Zenon, <1>2, <1>3

LEMMA OpeningResource ==
    ASSUME TypeBuild, comp <= Len(components), part <= Len(Opens(components[comp]))
    PROVE  Opening \in Resource /\ components[comp] \in Component \ Server /\ part \in 1 .. 2
<1>1. components[comp] \in Component /\ part \in Nat /\ part >= 1
  BY DEF TypeBuild
<1>2. PICK q \in Seq(Resource) : q = Opens(components[comp]) /\ Len(q) \in 0 .. 2
                              /\ (components[comp] \in Server => Len(q) = 0)
  BY Zenon, <1>1, OpensTwo
<1>3. part \in 1 .. Len(q) /\ Len(q) # 0
  BY <1>1, <1>2
<1>4. q[part] \in Resource /\ part \in 1 .. 2
  BY <1>2, <1>3
<1> QED
  BY Zenon, <1>1, <1>2, <1>3, <1>4 DEF Opening

LEMMA TypeBuildStep ==
    ASSUME TypeOK, [Next]_vars
    PROVE  TypeBuild'
<1>0. TypeBuild
  BY Zenon, TypeParts
<1>1. CASE BuildBegins
  <2>1. UNCHANGED <<stoppers, patient, runners, comp, part, checks, covered>> /\ phase' \in {"starting", "failed"}
        /\ (components' = components \/ components' \in SortedByStage(components))
    BY Zenon, <1>1 DEF BuildBegins, resources
  <2>2. components' \in Seq(Component) /\ Len(components') = Len(components)
    BY Zenon, <1>0, <2>1, SortSorts DEF TypeBuild
  <2> QED
    BY Zenon, <1>0, <2>1, <2>2 DEF TypeBuild
<1>2. CASE StartOpens
  <2>1. /\ UNCHANGED <<stoppers, patient, components, runners, phase, comp, covered>>
        /\ checks' = checks \cup (Checked \cap {Opening}) /\ part' = part + 1
        /\ comp <= Len(components) /\ part <= Len(Opens(components[comp]))
    BY Zenon, <1>2 DEF StartOpens
  <2>2. Opening \in Resource /\ part \in 1 .. 2
    BY Zenon, <1>0, <2>1, OpeningResource
  <2>3. part' \in 1 .. 3
    BY <2>1, <2>2
  <2> QED
    BY Zenon, <1>0, <2>1, <2>2, <2>3 DEF TypeBuild
<1>3. CASE Started
  <2>1. /\ UNCHANGED <<stoppers, patient, components, phase, checks>> /\ part' = 1 /\ comp' = comp + 1 /\ comp <= Len(components)
        /\ covered' = [s \in Server |-> IF s = components[comp] THEN checks ELSE covered[s]]
        /\ runners' = IF components[comp] \in Server THEN Append(runners, components[comp]) ELSE runners
    BY Zenon, <1>3 DEF Started, resources
  <2>2. comp' \in 1..(Len(components) + 1) /\ part' \in 1 .. 3
    BY <1>0, <2>1 DEF TypeBuild
  <2>3. runners' \in Seq(Server)
    BY <1>0, <2>1 DEF TypeBuild
  <2>4. covered' \in [Server -> SUBSET Resource]
    BY Zenon, <1>0, <2>1 DEF TypeBuild
  <2> QED
    BY Zenon, <1>0, <2>1, <2>2, <2>3, <2>4 DEF TypeBuild
<1>4. CASE StartFails \/ Undoes \/ Built
  <2>1. UNCHANGED <<stoppers, patient, components, runners, comp, part, checks, covered>> /\ phase' \in {"undo", "failed", "built"}
    BY Zenon, <1>4 DEF StartFails, Undoes, Built, resources
  <2> QED
    BY Zenon, <1>0, <2>1 DEF TypeBuild
<1>5. CASE ~Build
  <2>1. UNCHANGED buildVars /\ UNCHANGED checks
    BY Zenon, <1>5, ServiceSteps, ListenFrame, ShutdownFrame, CloseFrame, LoadFrame, NothingChanges DEF resources
  <2> QED
    BY Zenon, <1>0, <2>1 DEF TypeBuild, buildVars
<1> QED
  BY Zenon, <1>1, <1>2, <1>3, <1>4, <1>5 DEF Build

\* The runners only grow, and only while Build runs.
LEMMA RunnersGrow ==
    ASSUME TypeOK, [Next]_vars
    PROVE  /\ runners' = runners \/ (Started /\ components[comp] \in Server /\ runners' = Append(runners, components[comp]))
           /\ Len(runners) \in Nat /\ Len(runners') \in Nat /\ Len(runners) <= Len(runners')
           /\ 1 .. (Len(runners) + 1) \subseteq 1 .. (Len(runners') + 1)
           /\ Range(runners) \subseteq Range(runners')
<1>1. TypeBuild
  BY Zenon, TypeParts
<1>2. runners' = runners \/ (Started /\ components[comp] \in Server /\ runners' = Append(runners, components[comp]))
  <2>1. CASE Build
    BY Zenon, <2>1 DEF Build, BuildBegins, StartOpens, Started, StartFails, Undoes, Built
  <2>2. CASE ~Build
    BY Zenon, <2>2, ServiceSteps, ListenFrame, ShutdownFrame, CloseFrame, LoadFrame, NothingChanges DEF buildVars
  <2> QED
    BY Zenon, <2>1, <2>2
<1>3. CASE runners' = runners
  BY <1>1, <1>2, <1>3 DEF TypeBuild
<1>4. CASE Started /\ components[comp] \in Server /\ runners' = Append(runners, components[comp])
  <2>1. runners \in Seq(Server)
    BY Zenon, <1>1 DEF TypeBuild
  <2>2. Len(runners') = Len(runners) + 1 /\ Len(runners) \in Nat /\ \A i \in 1 .. Len(runners) : runners'[i] = runners[i]
    BY <1>4, <2>1
  <2>3. DOMAIN runners = 1 .. Len(runners) /\ DOMAIN runners' = 1 .. Len(runners')
    BY <1>4, <2>1
  <2>4. Range(runners) \subseteq Range(runners')
    <3>1. ASSUME NEW i \in DOMAIN runners PROVE i \in DOMAIN runners' /\ runners'[i] = runners[i]
      BY <2>2, <2>3
    <3> QED
      BY Zenon, <3>1 DEF Range
  <2> QED
    BY <1>2, <2>2, <2>4
<1> QED
  BY Zenon, <1>2, <1>3, <1>4

LEMMA TypeListenStep ==
    ASSUME TypeOK, ListenStops, [Next]_vars
    PROVE  TypeListen'
<1>0. TypeListen
  BY Zenon, TypeParts
<1> DEFINE places(n) == 1 .. (n + 1)
<1>a. ASSUME UNCHANGED turn PROVE turn' \in places(Len(runners'))
  BY Zenon, <1>a, <1>0, RunnersGrow DEF TypeListen
<1>b. /\ listen' \in {"idle", "refused", "select", "stop", "stopping", "collect", "close", "done"}
      /\ serviceCtx' \in BOOLEAN /\ isRunning' \in BOOLEAN /\ isClosed' \in BOOLEAN /\ stopExpired' \in BOOLEAN
  <2>1. CASE ListenBegins \/ ListenAndServe \/ Signal
    BY Zenon, <1>0, <2>1 DEF TypeListen, ListenBegins, ListenAndServe, Selected, StopsRunner, RunnerStopped,
       StopTimesOut, Collects, ListenReturns, Signal, listenVars
  <2>2. CASE \E k \in Stopper : ShutdownBegins(k)
    BY Zenon, <1>0, <2>2 DEF TypeListen, ShutdownBegins
  <2>3. CASE UNCHANGED listenVars
    BY Zenon, <1>0, <2>3 DEF TypeListen, listenVars
  <2>4. \A k \in Stopper : ShutdownTimesOutAt(k) \/ Shutdown(k) => UNCHANGED listenVars
    BY Zenon DEF ShutdownTimesOutAt, Shutdown, ShutdownStops, ShutdownStopped, ShutdownWaits, ShutdownClosed
  <2> QED
    BY Zenon, <2>1, <2>2, <2>3, <2>4, ServiceSteps, BuildFrame, CloseFrame, LoadFrame, NothingChanges
<1>c. turn' \in places(Len(runners'))
  <2>1. CASE RunnerStopped
    <3>1. listen = "stopping" /\ turn' = turn + 1 /\ runners' = runners
      BY Zenon, <2>1 DEF RunnerStopped, buildVars
    <3>2. turn <= Len(runners)
      BY Zenon, <3>1 DEF ListenStops
    <3> QED
      BY <1>0, <3>1, <3>2, RunnersGrow DEF TypeListen
  <2>2. CASE Collects
    <3>1. turn' = 1
      BY Zenon, <2>2 DEF Collects
    <3> QED
      BY <3>1, RunnersGrow
  <2>3. CASE ~RunnerStopped /\ ~Collects
    <3>1. ListenBegins \/ ListenAndServe \/ Signal => UNCHANGED turn
      BY Zenon, <2>3 DEF ListenBegins, ListenAndServe, Selected, StopsRunner, StopTimesOut, ListenReturns, Signal
    <3>2. UNCHANGED turn
      BY Zenon, <3>1, ServiceSteps, BuildFrame, ShutdownFrame, CloseFrame, LoadFrame, NothingChanges DEF listenVars
    <3> QED
      BY Zenon, <1>a, <3>2
  <2> QED
    BY Zenon, <2>1, <2>2, <2>3
<1> QED
  BY Zenon, <1>b, <1>c DEF TypeListen

LEMMA TypeStopStep ==
    ASSUME TypeOK, ShutdownsClose, [Next]_vars
    PROVE  TypeStop'
<1> DEFINE Places(n) == 1 .. (n + 1)
           States == {"idle", "stop", "stopping", "close", "nil", "err"}
<1>0. stopper \in [Stopper -> States] /\ stopTurn \in [Stopper -> Places(Len(runners))]
  BY Zenon, TypeParts DEF TypeStop
<1>1. Len(runners) \in Nat /\ Places(Len(runners)) \subseteq Places(Len(runners'))
  BY Zenon, RunnersGrow
<1>2. "idle" \in States /\ "stop" \in States /\ "stopping" \in States /\ "close" \in States /\ "nil" \in States
      /\ "err" \in States
  BY Zenon
<1>3. 1 \in Places(Len(runners)) /\ \A n \in Places(Len(runners)) : n <= Len(runners) => n + 1 \in Places(Len(runners))
  BY <1>1
<1> HIDE DEF Places, States
<1>4. stopper' \in [Stopper -> States] /\ stopTurn' \in [Stopper -> Places(Len(runners))]
  <2>1. CASE UNCHANGED stopVars
    BY Zenon, <1>0, <2>1 DEF stopVars
  <2>2. ASSUME NEW k \in Stopper, ShutdownBegins(k) \/ ShutdownTimesOutAt(k) \/ Shutdown(k)
        PROVE  stopper' \in [Stopper -> States] /\ stopTurn' \in [Stopper -> Places(Len(runners))]
    <3>1. CASE ShutdownStopped(k)
      <4>1. stopper' = [stopper EXCEPT ![k] = "stop"] /\ stopTurn' = [stopTurn EXCEPT ![k] = @ + 1] /\ stopper[k] = "stopping"
        BY Zenon, <3>1 DEF ShutdownStopped
      <4>2. stopTurn[k] \in Places(Len(runners)) /\ stopTurn[k] <= Len(runners)
        BY Zenon, <1>0, <4>1 DEF ShutdownsClose
      <4>3. stopTurn[k] + 1 \in Places(Len(runners))
        BY Zenon, <1>3, <4>2
      <4> QED
        BY Zenon, <1>0, <1>2, <4>1, <4>3
    <3>2. CASE ~ShutdownStopped(k)
      <4>1. PICK u \in States : stopper' = [stopper EXCEPT ![k] = u]
        BY Zenon, <1>2, <2>2, <3>2 DEF ShutdownBegins, ShutdownTimesOutAt, Shutdown, ShutdownStops, ShutdownWaits,
           ShutdownClosed
      <4>2. stopTurn' = stopTurn \/ stopTurn' = [stopTurn EXCEPT ![k] = 1]
        BY Zenon, <2>2, <3>2 DEF ShutdownBegins, ShutdownTimesOutAt, Shutdown, ShutdownStops, ShutdownWaits,
           ShutdownClosed
      <4> QED
        BY Zenon, <1>0, <1>3, <4>1, <4>2
    <3> QED
      BY Zenon, <3>1, <3>2
  <2> QED
    BY Zenon, <2>1, <2>2, WhoShutsDown
<1>5. stopTurn' \in [Stopper -> Places(Len(runners'))]
  BY Zenon, <1>1, <1>4
<1> QED
  BY Zenon, <1>4, <1>5 DEF TypeStop, Places, States

LEMMA TypeClosingStep ==
    ASSUME TypeOK, [Next]_vars
    PROVE  TypeClosing'
<1> DEFINE States == {"idle", "take", "forget", "close", "done"}
<1>0. /\ closing \in [Closing -> States] /\ drainExpired \in BOOLEAN /\ overlap \in BOOLEAN /\ handling \in BOOLEAN
      /\ \A k \in Stopper : k \in Closing
      /\ Main \in Closing /\ "take" \in States /\ "forget" \in States /\ "close" \in States /\ "done" \in States
  BY Zenon, TypeParts DEF TypeClosing, Closing
<1> HIDE DEF States
<1>1. closing' \in [Closing -> States]
  <2>1. CASE UNCHANGED closing
    BY Zenon, <1>0, <2>1
  <2>2. CASE Selected
    <3>1. closing' = [closing EXCEPT ![Main] = "take"] \/ closing' = [closing EXCEPT ![Main] = closing[Main]]
      BY Zenon, <2>2 DEF Selected
    <3> QED
      BY Zenon, <1>0, <3>1
  <2>3. CASE Collects
    BY Zenon, <1>0, <2>3 DEF Collects
  <2>4. CASE \E k \in Stopper : ShutdownBegins(k)
    BY Zenon, <1>0, <2>4 DEF ShutdownBegins
  <2>5. CASE \E p \in Closing : CloseResources(p)
    BY Zenon, <1>0, <2>5 DEF CloseResources, Takes, Forgets, Closes, ClosedAll
  <2> QED
    BY Zenon, <2>1, <2>2, <2>3, <2>4, <2>5, WhoCloses DEF closeVars
<1>2. drainExpired' \in BOOLEAN
  <2>1. \A p \in Closing : CloseResources(p) => drainExpired' \in BOOLEAN
    BY Zenon, <1>0 DEF CloseResources, Takes, Forgets, Closes, ClosedAll
  <2>2. CASE UNCHANGED drainExpired
    BY Zenon, <1>0, <2>2
  <2>3. Selected \/ Collects \/ (\E k \in Stopper : ShutdownBegins(k)) => UNCHANGED drainExpired
    BY Zenon DEF Selected, Collects, ShutdownBegins
  <2> QED
    BY Zenon, <2>1, <2>2, <2>3, WhoCloses DEF closeVars
<1>3. overlap' \in BOOLEAN
  <2>1. \A k \in Stopper : ShutdownBegins(k) => overlap' \in BOOLEAN
    BY Zenon, <1>0 DEF ShutdownBegins
  <2>2. CASE UNCHANGED overlap
    BY Zenon, <1>0, <2>2
  <2>3. Selected \/ Collects \/ (\E p \in Closing : CloseResources(p)) => UNCHANGED overlap
    BY Zenon, CloseFrame DEF Selected, Collects
  <2> QED
    BY Zenon, <2>1, <2>2, <2>3, WhoCloses DEF closeVars
<1>4. handling' \in BOOLEAN
  <2>1. Message \/ MessageDone => handling' \in BOOLEAN
    BY Zenon DEF Message, MessageDone
  <2>2. CASE UNCHANGED handling
    BY Zenon, <1>0, <2>2
  <2> QED
    BY Zenon, <2>1, <2>2, WhoHandles
<1> QED
  BY Zenon, <1>1, <1>2, <1>3, <1>4 DEF TypeClosing, States

LEMMA ServerTypeStep ==
    ASSUME TypeOK, [Next]_vars
    PROVE  ServerTypeOK'
<1>0. ServerTypeOK
  BY Zenon, TypeParts
<1>1. CASE UNCHANGED serverVars
  BY Zenon, <1>0, <1>1 DEF serverVars, ServerTypeOK
<1>2. ASSUME NEW s, ShutdownCalled(s) PROVE ServerTypeOK'
  BY Zenon, <1>0, <1>2 DEF ServerTypeOK, ShutdownCalled
<1>3. CASE Signal
  BY Zenon, <1>0, <1>3 DEF ServerTypeOK, Signal
<1>4. ASSUME NEW s \in Server, Runs(s) PROVE ServerTypeOK'
  BY Zenon, <1>0, <1>4 DEF ServerTypeOK, Runs, Serves
<1>5. ASSUME NEW s \in Server, Serve(s) PROVE ServerTypeOK'
  BY Zenon, <1>0, <1>5 DEF ServerTypeOK, Serve, ServerStep, ServerStops, Drains, DrainDelayOver, StopsGracefully,
     ShutdownTimesOut, ServeFails, Request, RequestEnds
<1>6. CASE Message \/ MessageDone
  BY Zenon, <1>1, <1>6 DEF Message, MessageDone
<1>7. CASE ListenBegins \/ ListenAndServe
  BY Zenon, <1>1, <1>2, <1>7 DEF ListenBegins, ListenAndServe, Selected, StopsRunner, RunnerStopped, StopTimesOut,
     Collects, ListenReturns
<1>8. CASE \E k \in Stopper : ShutdownBegins(k) \/ ShutdownTimesOutAt(k) \/ Shutdown(k)
  BY Zenon, <1>1, <1>2, <1>8 DEF ShutdownBegins, ShutdownTimesOutAt, Shutdown, ShutdownStops, ShutdownStopped,
     ShutdownWaits, ShutdownClosed
<1>9. CASE Build
  BY Zenon, <1>1, <1>9, BuildFrame
<1>10. CASE \E p \in Closing : CloseResources(p)
  BY Zenon, <1>1, <1>10, CloseFrame
<1>11. CASE UNCHANGED vars
  BY Zenon, <1>1, <1>11, NothingChanges
<1> QED
  BY Zenon, <1>3, <1>4, <1>5, <1>6, <1>7, <1>8, <1>9, <1>10, <1>11, ServiceSteps

LEMMA RegisterOne ==
    ASSUME NEW q \in Seq(Resource), NEW r \in Resource
    PROVE  /\ q \o <<r>> \in Seq(Resource) /\ Range(q \o <<r>>) = Range(q) \cup {r}
           /\ IsInjective(q) /\ r \notin Range(q) => IsInjective(q \o <<r>>)
<1> DEFINE t == q \o <<r>>
<1>1. /\ t \in Seq(Resource) /\ DOMAIN t = 1 .. (Len(q) + 1) /\ DOMAIN q = 1 .. Len(q) /\ Len(q) \in Nat
      /\ \A i \in 1 .. Len(q) : t[i] = q[i]
      /\ t[Len(q) + 1] = r
  OBVIOUS
<1> HIDE DEF t
<1>2. ASSUME NEW i \in DOMAIN t PROVE (i \in DOMAIN q /\ t[i] = q[i]) \/ (i = Len(q) + 1 /\ t[i] = r)
  BY <1>1
<1>3. \A i \in DOMAIN q : i \in DOMAIN t /\ t[i] = q[i]
  BY <1>1
<1>4. Len(q) + 1 \in DOMAIN t /\ Len(q) + 1 \notin DOMAIN q
  BY <1>1
<1>5. Range(t) = Range(q) \cup {r}
  <2>1. ASSUME NEW x \in Range(t) PROVE x \in Range(q) \cup {r}
    BY Zenon, <1>2, <2>1 DEF Range
  <2>2. ASSUME NEW x \in Range(q) \cup {r} PROVE x \in Range(t)
    BY Zenon, <1>1, <1>3, <1>4, <2>2 DEF Range
  <2> QED
    BY Zenon, <2>1, <2>2
<1>6. ASSUME IsInjective(q), r \notin Range(q) PROVE IsInjective(t)
  <2>1. ASSUME NEW a \in DOMAIN t, NEW b \in DOMAIN t, t[a] = t[b] PROVE a = b
    BY Zenon, <1>2, <1>6, <2>1 DEF IsInjective, Range
  <2> QED
    BY Zenon, <2>1 DEF IsInjective
<1> QED
  BY Zenon, <1>1, <1>5, <1>6 DEF t

\* Start registers what it opens, if that has a closer and is not open yet.
LEMMA StartRegisters ==
    ASSUME TypeOK, BuildRegisters, StartOpens
    PROVE  /\ Opening \in Resource /\ open' = open \cup {Opening} /\ phase = "starting" /\ phase' = phase
           /\ registered' \in Seq(Resource) /\ IsInjective(registered') /\ closers' = registered'
           /\ Range(registered') = Range(registered) \cup (IF HasCloser(Opening) /\ Opening \notin open THEN {Opening} ELSE {})
<1>1. /\ open' = open \cup {Opening} /\ phase = "starting" /\ phase' = phase
      /\ comp <= Len(components) /\ part <= Len(Opens(components[comp]))
  BY Zenon DEF StartOpens
<1>2. Opening \in Resource
  BY Zenon, <1>1, OpeningResource, TypeParts
<1>3. registered \in Seq(Resource) /\ IsInjective(registered)
  BY Zenon, TypeParts DEF TypeResources
<1>4. closers = registered /\ Range(registered) \subseteq open
  BY Zenon, <1>1 DEF BuildRegisters
<1>5. CASE HasCloser(Opening) /\ Opening \notin open
  <2>1. closers' = closers \o <<Opening>> /\ registered' = registered \o <<Opening>>
    BY Zenon, <1>5 DEF StartOpens
  <2>2. Opening \notin Range(registered)
    BY Zenon, <1>4, <1>5
  <2> QED
    BY Zenon, <1>1, <1>2, <1>3, <1>4, <1>5, <2>1, <2>2, RegisterOne
<1>6. CASE ~(HasCloser(Opening) /\ Opening \notin open)
  <2>1. closers' = closers \o <<>> /\ registered' = registered \o <<>>
    BY Zenon, <1>6 DEF StartOpens
  <2>2. registered \o <<>> = registered
    BY <1>3
  <2>3. Range(registered') = Range(registered) \cup {}
    BY Zenon, <2>1, <2>2
  <2> QED
    BY Zenon, <1>1, <1>2, <1>3, <1>4, <1>6, <2>1, <2>2, <2>3
<1> QED
  BY Zenon, <1>5, <1>6

LEMMA TypeResourcesStep ==
    ASSUME TypeOK, BuildRegisters, [Next]_vars
    PROVE  TypeResources'
<1>0. TypeResources
  BY Zenon, TypeParts
<1>1. CASE StartOpens
  <2>1. open' \subseteq Resource
    BY Zenon, <1>0, <1>1, StartRegisters DEF TypeResources
  <2> QED
    BY Zenon, <1>1, <2>1, StartRegisters DEF TypeResources
<1>2. CASE BuildBegins \/ Started \/ Built
  BY Zenon, <1>0, <1>2 DEF TypeResources, BuildBegins, Started, Built, resources
<1>3. CASE StartFails
  <2>1. "redis" \in Resource /\ UNCHANGED <<closers, registered>> /\ (open' = open \/ open' = open \cup {"redis"})
    BY Zenon, <1>3 DEF StartFails, Resource
  <2> QED
    BY Zenon, <1>0, <2>1 DEF TypeResources
<1>4. CASE Undoes
  BY Zenon, <1>0, <1>4 DEF TypeResources, Undoes
<1>5. CASE ~Build /\ UNCHANGED <<open, closers>>
  BY Zenon, <1>0, <1>5, WhoBuilds DEF TypeResources
<1>6. ASSUME NEW p \in Closing, Forgets(p) \/ Closes(p) PROVE TypeResources'
  BY Zenon, <1>0, <1>6 DEF TypeResources, Forgets, Closes
<1> QED
  BY Zenon, <1>1, <1>2, <1>3, <1>4, <1>5, <1>6, WhoOpensAndCloses DEF Build

LEMMA ClosingBuilt ==
    ASSUME Quiet, NEW p \in Closing, closing[p] # "idle"
    PROVE  phase = "built"
BY Zenon DEF Quiet

\* The closers that are taken are those registered.
LEMMA TypeTookStep ==
    ASSUME TypeOK, Quiet, BuildRegisters, [Next]_vars
    PROVE  TypeTook' /\ (~Build => UNCHANGED registered)
<1>0. TypeTook /\ TypeResources
  BY Zenon, TypeParts
<1>1. registered \in Seq(Resource) /\ closers \in {<<>>, registered}
  BY Zenon, <1>0 DEF TypeResources
<1>2. CASE Build
  <2>1. took' = took /\ \A p \in Closing : took[p] = <<>>
    BY Zenon, <1>2, BuildFrame DEF closeVars, Quiet
  <2>2. registered' \in Seq(Resource)
    BY Zenon, TypeResourcesStep DEF TypeResources
  <2>3. Len(<<>>) <= Len(registered') /\ <<>> = SubSeq(registered', 1, Len(<<>>))
    BY <2>2
  <2>4. \A p \in Closing : Len(took'[p]) <= Len(registered') /\ took'[p] = SubSeq(registered', 1, Len(took'[p]))
    BY Zenon, <2>1, <2>3
  <2> QED
    BY Zenon, <1>0, <1>2, <2>1, <2>4 DEF TypeTook
<1>3. CASE ~Build /\ UNCHANGED took
  <2>1. UNCHANGED registered
    BY Zenon, <1>3, WhoBuilds
  <2> QED
    BY Zenon, <1>0, <1>3, <2>1 DEF TypeTook
<1>4. ASSUME NEW p \in Closing, Takes(p) PROVE TypeTook' /\ UNCHANGED registered
  <2>1. took' = [took EXCEPT ![p] = closers] /\ UNCHANGED registered
    BY Zenon, <1>4 DEF Takes, resources
  <2>2. closers \in Seq(Resource) /\ Len(closers) <= Len(registered) /\ closers = SubSeq(registered, 1, Len(closers))
    <3>1. <<>> \in Seq(Resource) /\ Len(<<>>) <= Len(registered) /\ <<>> = SubSeq(registered, 1, Len(<<>>))
      BY <1>1
    <3>2. Len(registered) <= Len(registered) /\ registered = SubSeq(registered, 1, Len(registered))
      BY <1>1
    <3> QED
      BY Zenon, <1>1, <3>1, <3>2
  <2>3. took' \in [Closing -> Seq(Resource)]
    BY Zenon, <1>0, <2>1, <2>2 DEF TypeTook
  <2>4. ASSUME NEW b \in Closing PROVE Len(took'[b]) <= Len(registered') /\ took'[b] = SubSeq(registered', 1, Len(took'[b]))
    <3>1. took'[b] = IF b = p THEN closers ELSE took[b]
      BY Zenon, <1>0, <2>1 DEF TypeTook
    <3> QED
      BY Zenon, <1>0, <2>1, <2>2, <3>1 DEF TypeTook
  <2> QED
    BY Zenon, <2>1, <2>3, <2>4 DEF TypeTook
<1>5. ASSUME NEW p \in Closing, Closes(p) PROVE TypeTook' /\ UNCHANGED registered
  <2>1. took' = [took EXCEPT ![p] = Front(took[p])] /\ UNCHANGED registered /\ took[p] # <<>>
    BY Zenon, <1>5 DEF Closes
  <2>2. took[p] \in Seq(Resource) /\ took[p] = SubSeq(registered, 1, Len(took[p])) /\ took \in [Closing -> Seq(Resource)]
    BY Zenon, <1>0 DEF TypeTook
  <2>3. PICK n \in Nat : n = Len(took[p]) /\ n >= 1 /\ n <= Len(registered)
    <3>1. \A w \in Seq(Resource) : w # <<>> => Len(w) \in Nat /\ Len(w) >= 1
      OBVIOUS
    <3> QED
      BY Zenon, <1>0, <2>1, <2>2, <3>1 DEF TypeTook
  <2>4. PICK f \in Seq(Resource) : f = Front(took[p]) /\ Len(f) <= Len(registered) /\ f = SubSeq(registered, 1, Len(f))
    <3>1. Front(took[p]) = SubSeq(SubSeq(registered, 1, n), 1, n - 1)
      BY Zenon, <2>2, <2>3 DEF Front
    <3>2. /\ SubSeq(SubSeq(registered, 1, n), 1, n - 1) = SubSeq(registered, 1, n - 1)
          /\ SubSeq(registered, 1, n - 1) \in Seq(Resource) /\ Len(SubSeq(registered, 1, n - 1)) = n - 1
          /\ n - 1 <= Len(registered)
      BY <1>1, <2>3
    <3> QED
      BY Zenon, <3>1, <3>2
  <2>5. took' \in [Closing -> Seq(Resource)]
    BY Zenon, <2>1, <2>2, <2>4
  <2>6. ASSUME NEW b \in Closing PROVE Len(took'[b]) <= Len(registered') /\ took'[b] = SubSeq(registered', 1, Len(took'[b]))
    <3>1. took'[b] = IF b = p THEN f ELSE took[b]
      BY Zenon, <2>1, <2>2, <2>4
    <3> QED
      BY Zenon, <1>0, <2>1, <2>4, <3>1 DEF TypeTook
  <2> QED
    BY Zenon, <2>1, <2>5, <2>6 DEF TypeTook
<1>6. Selected \/ Collects \/ (\E k \in Stopper : ShutdownBegins(k)) => UNCHANGED took
  BY Zenon DEF Selected, Collects, ShutdownBegins
<1>7. \A p \in Closing : Forgets(p) \/ ClosedAll(p) => UNCHANGED took
  BY Zenon DEF Forgets, ClosedAll
<1> QED
  BY Zenon, <1>2, <1>3, <1>4, <1>5, <1>6, <1>7, WhoCloses, WhoBuilds DEF CloseResources, closeVars

LEMMA TypeStep ==
    ASSUME TypeOK, Quiet, BuildRegisters, ListenStops, ShutdownsClose, [Next]_vars
    PROVE  TypeOK'
BY Zenon, TypeParts, ServerTypeStep, TypeBuildStep, TypeResourcesStep, TypeListenStep, TypeStopStep,
   TypeClosingStep, TypeTookStep

-----------------------------------------------------------------------------
(* The other conjuncts.                                                    *)

LEMMA StaysBuilt ==
    ASSUME [Next]_vars, phase = "built"
    PROVE  ~Build /\ phase' = "built" /\ UNCHANGED buildVars /\ UNCHANGED <<registered, checks>>
BY Zenon, BuildFrame, WhoBuilds DEF buildVars

LEMMA QuietStep ==
    ASSUME Quiet, [Next]_vars
    PROVE  Quiet'
<1>1. CASE phase = "built"
  BY Zenon, <1>1, StaysBuilt DEF Quiet
<1>2. CASE phase # "built"
  <2>1. /\ listen = "idle" /\ ~isRunning /\ ~handling
        /\ \A k \in Stopper : stopper[k] = "idle"
        /\ \A p \in Closing : closing[p] = "idle" /\ took[p] = <<>>
    BY Zenon, <1>2 DEF Quiet
  <2>2. ~ListenBegins /\ ~ListenAndServe /\ ~Signal /\ ~Message /\ ~MessageDone
    BY Zenon, <1>2, <2>1 DEF ListenBegins, ListenAndServe, Selected, StopsRunner, RunnerStopped, StopTimesOut, Collects,
       ListenReturns, Signal, Message, MessageDone
  <2>3. \A k \in Stopper : ~(ShutdownBegins(k) \/ ShutdownTimesOutAt(k) \/ Shutdown(k))
    BY Zenon, <1>2, <2>1 DEF ShutdownBegins, ShutdownTimesOutAt, Shutdown, ShutdownStops, ShutdownStopped, ShutdownWaits,
       ShutdownClosed
  <2>4. \A p \in Closing : ~CloseResources(p)
    BY Zenon, <2>1, CloseFrame
  <2>5. UNCHANGED listenVars /\ UNCHANGED handling /\ UNCHANGED stopVars
    BY Zenon, <2>2, <2>3, WhoListens, WhoHandles, WhoShutsDown
  <2>6. UNCHANGED closeVars
    <3>1. ~Selected /\ ~Collects
      BY Zenon, <2>2 DEF ListenAndServe
    <3> QED
      BY Zenon, <2>3, <2>4, <3>1, WhoCloses
  <2> QED
    BY Zenon, <2>1, <2>5, <2>6 DEF Quiet, listenVars, stopVars, closeVars
<1> QED
  BY Zenon, <1>1, <1>2

\* A server that has returned stays so, and the rest of what it is.
LEMMA ServersServeStep ==
    ASSUME TypeOK, Quiet, ServersServe, ListenStops, [Next]_vars
    PROVE  ServersServe' /\ \A s \in Server : Returned(s) => Returned(s)'
<1>0. /\ srv \in [Server -> {"idle", "serving", "drain", "shutdown", "returned", "failed"}]
      /\ busy \in [Server -> BOOLEAN] /\ left \in [Server -> BOOLEAN]
  BY Zenon, TypeParts DEF ServerTypeOK
<1>1. \A s : s \in Range(runners) => s \in Range(runners')
  BY Zenon, RunnersGrow
<1>2. isRunning => isRunning'
  <2>1. ListenBegins \/ ListenAndServe \/ Signal => (isRunning => isRunning')
    BY Zenon DEF ListenBegins, ListenAndServe, Selected, StopsRunner, RunnerStopped, StopTimesOut, Collects,
       ListenReturns, Signal, listenVars
  <2>2. (\E k \in Stopper : ShutdownBegins(k)) => UNCHANGED isRunning
    BY Zenon DEF ShutdownBegins
  <2> QED
    BY Zenon, <2>1, <2>2, WhoListens DEF listenVars
<1>3. CASE UNCHANGED <<srv, busy, left>>
  BY Zenon, <1>1, <1>2, <1>3 DEF ServersServe, Returned
<1>4. ASSUME NEW t \in Server, Runs(t) PROVE ServersServe' /\ \A s \in Server : Returned(s) => Returned(s)'
  <2>1. PICK u \in {"serving", "returned"} : srv' = [srv EXCEPT ![t] = u]
    BY Zenon, <1>4 DEF Runs, Serves
  <2>2. srv[t] = "idle" /\ UNCHANGED <<busy, left>> /\ isRunning /\ t \in Range(runners)
    BY Zenon, <1>4 DEF Runs, Serves
  <2>3. \A s \in Server : srv'[s] = IF s = t THEN u ELSE srv[s]
    BY Zenon, <1>0, <2>1
  <2>4. ~busy[t]
    BY Zenon, <2>2 DEF ServersServe
  <2> QED
    BY Zenon, <1>1, <1>2, <2>2, <2>3, <2>4 DEF ServersServe, Returned
<1>5. ASSUME NEW t \in Server, Serve(t) PROVE ServersServe' /\ \A s \in Server : Returned(s) => Returned(s)'
  <2>0. /\ srv[t] # "idle" => isRunning' /\ t \in Range(runners')
        /\ \A s \in Server \ {t} :
             /\ srv[s] = "idle" => ~busy[s]
             /\ srv[s] = "failed" => left[s]
             /\ srv[s] = "returned" /\ busy[s] => left[s]
             /\ srv[s] # "idle" => isRunning' /\ s \in Range(runners')
    BY Zenon, <1>1, <1>2 DEF ServersServe
  <2> DEFINE Same(f, g) == \A s \in Server \ {t} : g[s] = f[s]
  <2>1. Same(srv, srv') /\ Same(busy, busy') /\ Same(left, left')
    BY Zenon, <1>0, <1>5 DEF Serve, ServerStep, ServerStops, Drains, DrainDelayOver, StopsGracefully, ShutdownTimesOut,
       ServeFails, Request, RequestEnds
  <2>2. /\ srv[t] # "idle"
        /\ srv'[t] # "idle"
        /\ srv'[t] = "failed" => left'[t]
        /\ srv'[t] = "returned" /\ busy'[t] => left'[t]
        /\ srv[t] \in {"returned", "failed"} => srv'[t] \in {"returned", "failed"}
    <3>1. CASE Drains(t) \/ DrainDelayOver(t)
      BY Zenon, <1>0, <3>1 DEF Drains, DrainDelayOver
    <3>2. CASE StopsGracefully(t)
      BY Zenon, <1>0, <3>2 DEF StopsGracefully
    <3>3. CASE ShutdownTimesOut(t) \/ ServeFails(t)
      BY Zenon, <1>0, <3>3 DEF ShutdownTimesOut, ServeFails
    <3>4. CASE Request(t)
      BY Zenon, <1>0, <3>4 DEF Request, ServersServe
    <3>5. CASE RequestEnds(t)
      <4>1. busy[t] /\ srv' = srv /\ left' = left /\ busy' = [busy EXCEPT ![t] = FALSE]
        BY Zenon, <3>5 DEF RequestEnds
      <4>2. srv[t] # "idle" /\ ~busy'[t] /\ (srv[t] = "failed" => left[t])
        BY Zenon, <1>0, <4>1 DEF ServersServe
      <4> QED
        BY Zenon, <4>1, <4>2
    <3> QED
      BY Zenon, <1>5, <3>1, <3>2, <3>3, <3>4, <3>5 DEF Serve, ServerStep, ServerStops
  <2>3. ASSUME NEW s \in Server
        PROVE  /\ srv'[s] = "idle" => ~busy'[s]
               /\ srv'[s] = "failed" => left'[s]
               /\ srv'[s] = "returned" /\ busy'[s] => left'[s]
               /\ srv'[s] # "idle" => isRunning' /\ s \in Range(runners')
               /\ srv[s] \in {"returned", "failed"} => srv'[s] \in {"returned", "failed"}
    <3>1. CASE s = t
      BY Zenon, <2>0, <2>2, <3>1
    <3>2. CASE s # t
      BY Zenon, <2>0, <2>1, <3>2
    <3> QED
      BY Zenon, <3>1, <3>2
  <2> QED
    BY Zenon, <2>3 DEF ServersServe, Returned
<1> QED
  BY Zenon, <1>3, <1>4, <1>5, WhoServes

\* What closeResources and the Shutdowns do to where others are.
LEMMA ClosingMoves ==
    ASSUME TypeOK, [Next]_vars
    PROVE  /\ \A p \in Closing :
                \/ closing'[p] = closing[p]
                \/ CloseResources(p) /\ closing'[p] # "idle"
                \/ p = Main /\ (Selected \/ Collects) /\ closing'[p] = "take"
                \/ p # Main /\ ShutdownBegins(p) /\ ~isRunning /\ closing'[p] = "take"
           /\ \A k \in Stopper : k \in Closing /\ k # Main
           /\ Main \in Closing
<1>0. closing \in [Closing -> {"idle", "take", "forget", "close", "done"}]
  BY Zenon, TypeParts DEF TypeClosing
<1>1. Main \in Closing /\ \A k \in Stopper : k \in Closing /\ k # Main
  BY Zenon, ServiceAssumption DEF Closing, Main
<1>2. ASSUME NEW p \in Closing
      PROVE  \/ closing'[p] = closing[p]
             \/ CloseResources(p) /\ closing'[p] # "idle"
             \/ p = Main /\ (Selected \/ Collects) /\ closing'[p] = "take"
             \/ p # Main /\ ShutdownBegins(p) /\ ~isRunning /\ closing'[p] = "take"
  <2>1. CASE UNCHANGED closeVars
    BY Zenon, <2>1 DEF closeVars
  <2>2. CASE Selected
    <3>1. closing' = [closing EXCEPT ![Main] = IF runners = <<>> THEN "take" ELSE closing[Main]]
      BY Zenon, <2>2 DEF Selected
    <3> QED
      BY Zenon, <1>0, <1>1, <2>2, <3>1
  <2>3. CASE Collects
    <3>1. closing' = [closing EXCEPT ![Main] = "take"]
      BY Zenon, <2>3 DEF Collects
    <3> QED
      BY Zenon, <1>0, <1>1, <2>3, <3>1
  <2>4. ASSUME NEW k \in Stopper, ShutdownBegins(k)
        PROVE  closing'[p] = closing[p] \/ (p = k /\ ~isRunning /\ closing'[p] = "take")
    <3>1. closing' = closing \/ (~isRunning /\ closing' = [closing EXCEPT ![k] = "take"])
      BY Zenon, <2>4 DEF ShutdownBegins
    <3> QED
      BY Zenon, <1>0, <1>1, <3>1
  <2>5. ASSUME NEW q \in Closing, CloseResources(q)
        PROVE  closing'[p] = closing[p] \/ (p = q /\ closing'[p] # "idle")
    <3>1. closing' = closing \/ \E u \in {"forget", "close", "done"} : closing' = [closing EXCEPT ![q] = u]
      BY Zenon, <2>5 DEF CloseResources, Takes, Forgets, Closes, ClosedAll
    <3> QED
      BY Zenon, <1>0, <3>1
  <2> QED
    BY Zenon, <1>1, <2>1, <2>2, <2>3, <2>4, <2>5, WhoCloses
<1> QED
  BY Zenon, <1>1, <1>2

LEMMA ListenStopsStep ==
    ASSUME TypeOK, Quiet, ServersServe, ListenStops, [Next]_vars
    PROVE  ListenStops'
<1>0. /\ closing \in [Closing -> {"idle", "take", "forget", "close", "done"}] /\ Main \in Closing
      /\ turn \in Nat /\ runners \in Seq(Server) /\ Len(runners) \in Nat
  <2>1. turn \in Nat
    BY TypeParts DEF TypeListen
  <2> QED
    BY Zenon, <2>1, TypeParts, RunnersGrow, ClosingMoves DEF TypeClosing, TypeBuild
<1>1. \A s \in Range(runners) : Returned(s) => Returned(s)'
  <2>1. \A s \in Range(runners) : s \in Server
    BY <1>0 DEF Range
  <2> QED
    BY Zenon, <2>1, ServersServeStep
<1> DEFINE AllBack == \A s \in Range(runners) : Returned(s)
<1>2. CASE ListenBegins
  <2>1. /\ listen = "idle" /\ listen' \in {"refused", "select"} /\ (listen' = "select" => isRunning')
        /\ (listen' = "refused" => isRunning' = isRunning) /\ turn' = turn /\ closing' = closing
    BY Zenon, <1>2 DEF ListenBegins, closeVars
  <2> QED
    BY Zenon, <2>1 DEF ListenStops
<1>3. CASE Selected
  <2>1. /\ listen = "select" /\ turn' = turn /\ isRunning' = isRunning /\ runners' = runners
        /\ closing' = [closing EXCEPT ![Main] = IF runners = <<>> THEN "take" ELSE closing[Main]]
        /\ listen' = IF runners = <<>> THEN "close" ELSE "stop"
    BY Zenon, <1>3 DEF Selected, buildVars
  <2>2. turn = 1 /\ isRunning /\ closing[Main] = "idle"
    BY Zenon, <2>1 DEF ListenStops
  <2>3. CASE runners = <<>>
    <3>1. closing'[Main] = "take" /\ listen' = "close"
      BY Zenon, <1>0, <2>1, <2>3
    <3>2. \A s : s \notin Range(runners')
      BY <2>1, <2>3 DEF Range
    <3> QED
      BY Zenon, <2>1, <2>2, <3>1, <3>2 DEF ListenStops
  <2>4. CASE runners # <<>>
    <3>1. closing'[Main] = "idle" /\ listen' = "stop"
      BY Zenon, <1>0, <2>1, <2>2, <2>4
    <3>2. turn' <= Len(runners')
      BY <1>0, <2>1, <2>2, <2>4
    <3> QED
      BY Zenon, <2>1, <2>2, <3>1, <3>2 DEF ListenStops
  <2> QED
    BY Zenon, <2>3, <2>4
<1>4. CASE StopsRunner
  <2>1. listen = "stop" /\ listen' = "stopping" /\ UNCHANGED <<turn, isRunning, runners, closing>>
    BY Zenon, <1>4 DEF StopsRunner, buildVars, closeVars
  <2> QED
    BY Zenon, <2>1 DEF ListenStops
<1>5. CASE RunnerStopped
  <2>1. /\ listen = "stopping" /\ turn' = turn + 1 /\ listen' = IF turn < Len(runners) THEN "stop" ELSE "collect"
        /\ UNCHANGED <<isRunning, runners, closing>>
    BY Zenon, <1>5 DEF RunnerStopped, buildVars, closeVars
  <2>2. CASE turn < Len(runners)
    <3>1. turn' <= Len(runners')
      BY <1>0, <2>1, <2>2
    <3> QED
      BY Zenon, <2>1, <2>2, <3>1 DEF ListenStops
  <2>3. CASE ~(turn < Len(runners))
    BY Zenon, <2>1, <2>3 DEF ListenStops
  <2> QED
    BY Zenon, <2>2, <2>3
<1>6. CASE StopTimesOut
  <2>1. UNCHANGED <<listen, turn, isRunning, runners, closing>> /\ stopExpired'
    BY Zenon, <1>6 DEF StopTimesOut, buildVars, closeVars
  <2> QED
    BY Zenon, <2>1 DEF ListenStops
<1>7. CASE Collects
  <2>1. /\ listen = "collect" /\ listen' = "close" /\ (AllBack \/ stopExpired) /\ UNCHANGED <<isRunning, runners, stopExpired>>
        /\ closing' = [closing EXCEPT ![Main] = "take"]
    BY Zenon, <1>7 DEF Collects, buildVars
  <2>2. closing'[Main] = "take"
    BY Zenon, <1>0, <2>1
  <2> QED
    BY Zenon, <1>1, <2>1, <2>2 DEF ListenStops
<1>8. CASE ListenReturns
  <2>1. listen = "close" /\ listen' = "done" /\ closing[Main] = "done" /\ UNCHANGED <<isRunning, runners, closing, turn, stopExpired>>
    BY Zenon, <1>8 DEF ListenReturns, buildVars, closeVars
  <2> QED
    BY Zenon, <1>1, <2>1 DEF ListenStops
<1>9. CASE UNCHANGED <<listen, turn, isRunning, stopExpired>> /\ ~Selected /\ ~Collects
  <2>1. closing'[Main] = closing[Main] \/ (CloseResources(Main) /\ closing'[Main] # "idle")
    BY Zenon, <1>9, ClosingMoves
  <2>2. closing'[Main] # "idle" <=> closing[Main] # "idle"
    BY Zenon, <1>0, <2>1, CloseFrame
  <2>3. closing[Main] = "done" => closing'[Main] = "done"
    BY Zenon, <1>0, <2>1, CloseFrame
  <2>4. runners' = runners \/ listen = "idle"
    BY Zenon, RunnersGrow DEF Started, Quiet
  <2> QED
    BY Zenon, <1>1, <1>9, <2>2, <2>3, <2>4 DEF ListenStops
<1>11. (\E k \in Stopper : ShutdownBegins(k)) => UNCHANGED <<listen, turn, isRunning, stopExpired>>
  BY Zenon, ShutdownFrame
<1>12. Signal => UNCHANGED <<listen, turn, isRunning, stopExpired>>
  BY Zenon DEF Signal
<1>13. CASE Selected \/ Collects
  BY Zenon, <1>3, <1>7, <1>13
<1> QED
  BY Zenon, <1>2, <1>3, <1>4, <1>5, <1>6, <1>7, <1>8, <1>9, <1>11, <1>12, <1>13, WhoListens DEF ListenAndServe, listenVars

LEMMA ShutdownsCloseStep ==
    ASSUME TypeOK, Quiet, ServersServe, ListenStops, ShutdownsClose, [Next]_vars
    PROVE  ShutdownsClose'
<1> SUFFICES ASSUME NEW k \in Stopper
             PROVE  /\ closing'[k] # "idle" => isClosed' /\ ~isRunning'
                    /\ closing'[k] # "idle" <=> stopper'[k] = "close" \/ (stopper'[k] = "nil" /\ ~isRunning')
                    /\ stopper'[k] = "nil" => closing'[k] = "done" \/ listen' = "done"
                    /\ stopper'[k] = "stopping" => stopTurn'[k] <= Len(runners')
  BY Zenon DEF ShutdownsClose
<1>0. /\ closing \in [Closing -> {"idle", "take", "forget", "close", "done"}] /\ k \in Closing /\ k # Main
      /\ stopper \in [Stopper -> {"idle", "stop", "stopping", "close", "nil", "err"}]
      /\ stopTurn \in [Stopper -> 1 .. (Len(runners) + 1)]
  BY Zenon, TypeParts, ClosingMoves DEF TypeClosing, TypeStop
<1>1. /\ closing[k] # "idle" => isClosed /\ ~isRunning
      /\ closing[k] # "idle" <=> stopper[k] = "close" \/ (stopper[k] = "nil" /\ ~isRunning)
      /\ stopper[k] = "nil" => closing[k] = "done" \/ listen = "done"
      /\ stopper[k] = "stopping" => stopTurn[k] <= Len(runners)
  BY Zenon DEF ShutdownsClose
<1>2. isRunning /\ listen = "done" => isRunning' /\ listen' = "done"
  <2>1. ~(ListenBegins \/ ListenAndServe) \/ listen # "done"
    BY Zenon DEF ListenBegins, ListenAndServe, Selected, StopsRunner, RunnerStopped, StopTimesOut, Collects,
       ListenReturns
  <2>2. Signal \/ (\E b \in Stopper : ShutdownBegins(b)) => UNCHANGED <<listen, isRunning>>
    BY Zenon DEF Signal, ShutdownBegins
  <2> QED
    BY Zenon, <2>1, <2>2, WhoListens DEF listenVars
<1>3. listen = "done" <=> isRunning /\ listen = "done"
  BY Zenon DEF ListenStops
<1>4. stopTurn[k] <= Len(runners) => stopTurn[k] <= Len(runners')
  <2>1. stopTurn[k] \in Nat /\ Len(runners) \in Nat /\ Len(runners') \in Nat /\ Len(runners) <= Len(runners')
    BY <1>0, RunnersGrow
  <2> QED
    BY <2>1
<1>5. isClosed => isClosed' /\ isRunning' = isRunning
  <2>1. ListenBegins \/ ListenAndServe \/ Signal => (isClosed => isClosed' /\ isRunning' = isRunning)
    BY Zenon DEF ListenBegins, ListenAndServe, Selected, StopsRunner, RunnerStopped, StopTimesOut, Collects,
       ListenReturns, Signal
  <2>2. \A b \in Stopper : ShutdownBegins(b) => isClosed' /\ isRunning' = isRunning
    BY Zenon DEF ShutdownBegins
  <2> QED
    BY Zenon, <2>1, <2>2, WhoListens DEF listenVars
<1>6. isRunning => isRunning'
  <2>1. ListenBegins \/ ListenAndServe \/ Signal => (isRunning => isRunning')
    BY Zenon DEF ListenBegins, ListenAndServe, Selected, StopsRunner, RunnerStopped, StopTimesOut, Collects,
       ListenReturns, Signal, listenVars
  <2>2. (\E b \in Stopper : ShutdownBegins(b)) => UNCHANGED isRunning
    BY Zenon DEF ShutdownBegins
  <2> QED
    BY Zenon, <2>1, <2>2, WhoListens DEF listenVars
<1>7. CASE ShutdownBegins(k)
  <2>1. stopper[k] = "idle" /\ isClosed' /\ UNCHANGED <<listen, isRunning, runners, stopTurn>>
    BY Zenon, <1>7, ShutdownFrame DEF ShutdownBegins, buildVars
  <2>2. closing[k] = "idle"
    BY Zenon, <1>1, <2>1
  <2>3. CASE isRunning
    <3>1. stopper' = [stopper EXCEPT ![k] = "stop"] /\ closing' = closing
      BY Zenon, <1>7, <2>3 DEF ShutdownBegins
    <3>2. stopper'[k] = "stop"
      BY Zenon, <1>0, <3>1
    <3> QED
      BY Zenon, <2>2, <3>1, <3>2
  <2>4. CASE ~isRunning
    <3>1. stopper' = [stopper EXCEPT ![k] = "close"] /\ closing' = [closing EXCEPT ![k] = "take"]
      BY Zenon, <1>7, <2>4 DEF ShutdownBegins
    <3>2. stopper'[k] = "close" /\ closing'[k] = "take"
      BY Zenon, <1>0, <3>1
    <3> QED
      BY Zenon, <2>1, <2>4, <3>2
  <2> QED
    BY Zenon, <2>3, <2>4
<1>8. CASE ShutdownTimesOutAt(k) \/ Shutdown(k)
  <2>0. /\ UNCHANGED <<listen, isRunning, runners>>
        /\ UNCHANGED <<closing, isClosed>> \/ ShutdownBegins(k)
    BY Zenon, <1>8, ShutdownFrame DEF buildVars
  <2>1. CASE ShutdownStops(k)
    <3>1. stopper[k] = "stop" /\ stopTurn[k] <= Len(runners) /\ stopTurn' = stopTurn
          /\ stopper' = [stopper EXCEPT ![k] = "stopping"]
      BY Zenon, <2>1 DEF ShutdownStops
    <3>2. stopper'[k] = "stopping"
      BY Zenon, <1>0, <3>1
    <3> QED
      BY Zenon, <1>1, <1>7, <2>0, <3>1, <3>2
  <2>2. CASE ShutdownStopped(k) \/ ShutdownTimesOutAt(k)
    <3>1. stopper[k] \in {"stop", "stopping"} /\ \E u \in {"stop", "err"} : stopper' = [stopper EXCEPT ![k] = u]
      BY Zenon, <2>2 DEF ShutdownStopped, ShutdownTimesOutAt
    <3>2. stopper'[k] \in {"stop", "err"}
      BY Zenon, <1>0, <3>1
    <3> QED
      BY Zenon, <1>1, <1>7, <2>0, <3>1, <3>2
  <2>3. CASE ShutdownWaits(k)
    <3>1. stopper[k] = "stop" /\ listen = "done" /\ stopper' = [stopper EXCEPT ![k] = "nil"]
      BY Zenon, <2>3 DEF ShutdownWaits
    <3>2. stopper'[k] = "nil"
      BY Zenon, <1>0, <3>1
    <3> QED
      BY Zenon, <1>1, <1>3, <1>7, <2>0, <3>1, <3>2
  <2>4. CASE ShutdownClosed(k)
    <3>1. stopper[k] = "close" /\ closing[k] = "done" /\ stopper' = [stopper EXCEPT ![k] = "nil"]
      BY Zenon, <2>4 DEF ShutdownClosed
    <3>2. stopper'[k] = "nil"
      BY Zenon, <1>0, <3>1
    <3> QED
      BY Zenon, <1>1, <1>7, <2>0, <3>1, <3>2
  <2> QED
    BY Zenon, <1>8, <2>1, <2>2, <2>3, <2>4 DEF Shutdown
<1>9. CASE ~(ShutdownBegins(k) \/ ShutdownTimesOutAt(k) \/ Shutdown(k))
  <2>1. stopper'[k] = stopper[k] /\ stopTurn'[k] = stopTurn[k]
    <3>1. CASE UNCHANGED stopVars
      BY Zenon, <3>1 DEF stopVars
    <3>2. ASSUME NEW b \in Stopper, ShutdownBegins(b) \/ ShutdownTimesOutAt(b) \/ Shutdown(b)
          PROVE  stopper'[k] = stopper[k] /\ stopTurn'[k] = stopTurn[k]
      <4>1. b # k
        BY Zenon, <1>9, <3>2
      <4>2. \E u : stopper' = [stopper EXCEPT ![b] = u]
        BY Zenon, <3>2 DEF ShutdownBegins, ShutdownTimesOutAt, Shutdown, ShutdownStops, ShutdownStopped, ShutdownWaits,
           ShutdownClosed
      <4>3. stopTurn' = stopTurn \/ \E u : stopTurn' = [stopTurn EXCEPT ![b] = u]
        BY Zenon, <3>2 DEF ShutdownBegins, ShutdownTimesOutAt, Shutdown, ShutdownStops, ShutdownStopped, ShutdownWaits,
           ShutdownClosed
      <4> QED
        BY Zenon, <1>0, <4>1, <4>2, <4>3
    <3> QED
      BY Zenon, <3>1, <3>2, WhoShutsDown
  <2>2. closing'[k] = closing[k] \/ (CloseResources(k) /\ closing'[k] # "idle")
    BY Zenon, <1>0, <1>9, ClosingMoves
  <2>3. (closing'[k] # "idle" <=> closing[k] # "idle") /\ (closing[k] = "done" => closing'[k] = "done")
    BY Zenon, <1>0, <2>2, CloseFrame
  <2>5. closing[k] # "idle" => isClosed' /\ ~isRunning'
    BY Zenon, <1>1, <1>5
  <2>6. stopper[k] = "nil" => closing'[k] = "done" \/ listen' = "done"
    BY Zenon, <1>1, <1>2, <1>3, <2>3
  <2>7. closing[k] # "idle" <=> stopper[k] = "close" \/ (stopper[k] = "nil" /\ ~isRunning')
    <3>1. CASE closing[k] # "idle"
      BY Zenon, <1>1, <2>5, <3>1
    <3>2. CASE closing[k] = "idle"
      BY Zenon, <1>1, <1>6, <3>2
    <3> QED
      BY Zenon, <3>1, <3>2
  <2> QED
    BY Zenon, <1>1, <1>4, <2>1, <2>3, <2>5, <2>6, <2>7
<1> QED
  BY Zenon, <1>7, <1>8, <1>9

LEMMA BuildRegistersStep ==
    ASSUME TypeOK, Quiet, BuildRegisters, [Next]_vars
    PROVE  BuildRegisters'
<1>0. \A x \in Checked : HasCloser(x)
  BY Zenon DEF Checked, HasCloser
<1>1. CASE BuildBegins
  <2>1. phase = "declared" /\ phase' \in {"starting", "failed"} /\ UNCHANGED <<open, closers, registered, checks>>
    BY Zenon, <1>1 DEF BuildBegins, resources
  <2>2. registered = <<>> /\ closers = registered /\ checks = {} /\ open = {}
    BY Zenon, <2>1 DEF BuildRegisters
  <2>3. Range(<<>>) = {}
    BY DEF Range
  <2> QED
    BY Zenon, <2>1, <2>2, <2>3 DEF BuildRegisters, Owned
<1>2. CASE StartOpens
  <2>1. /\ open' = open \cup {Opening} /\ phase = "starting" /\ phase' = phase /\ closers' = registered'
        /\ Range(registered') = Range(registered) \cup (IF HasCloser(Opening) /\ Opening \notin open THEN {Opening} ELSE {})
    BY Zenon, <1>2, StartRegisters
  <2>2. checks' = checks \cup (Checked \cap {Opening})
    BY Zenon, <1>2 DEF StartOpens
  <2>3. /\ Range(registered) \subseteq open /\ Checked \cap open \subseteq Range(registered)
        /\ checks = Checked \cap Range(registered)
    BY Zenon, <2>1 DEF BuildRegisters
  <2> DEFINE R == Range(registered)
             Q == Range(registered')
             x == Opening
  <2>4. Q = R \cup (IF HasCloser(x) /\ x \notin open THEN {x} ELSE {})
    BY Zenon, <2>1
  <2> HIDE DEF Q, R, x
  <2>5. Q \subseteq open'
    BY Zenon, <2>1, <2>3, <2>4 DEF R, x
  <2>6. Checked \cap open' \subseteq Q
    BY Zenon, <1>0, <2>1, <2>3, <2>4 DEF R, x
  <2>7. checks' = Checked \cap Q
    <3>1. CASE HasCloser(x) /\ x \notin open
      BY Zenon, <2>2, <2>3, <2>4, <3>1 DEF R, x
    <3>2. CASE ~(HasCloser(x) /\ x \notin open)
      <4>1. Q = R
        BY Zenon, <2>4, <3>2
      <4>2. x \in Checked => x \in R
        BY Zenon, <1>0, <2>3, <3>2 DEF R
      <4> QED
        BY Zenon, <2>2, <2>3, <4>1, <4>2 DEF R, x
    <3> QED
      BY Zenon, <3>1, <3>2
  <2> QED
    BY Zenon, <2>1, <2>5, <2>6, <2>7 DEF BuildRegisters, Q
<1>3. CASE Started
  <2>1. phase = "starting" /\ phase' = phase /\ UNCHANGED <<open, closers, registered, checks>>
    BY Zenon, <1>3 DEF Started, resources
  <2> QED
    BY Zenon, <2>1 DEF BuildRegisters
<1>4. CASE StartFails
  <2>1. phase = "starting" /\ phase' = "undo" /\ UNCHANGED <<closers, registered>>
    BY Zenon, <1>4 DEF StartFails
  <2> QED
    BY Zenon, <2>1 DEF BuildRegisters
<1>5. CASE Undoes
  <2>1. phase = "undo" /\ phase' = "failed" /\ open' = open \ Range(closers) /\ closers' = <<>> /\ registered' = registered
    BY Zenon, <1>5 DEF Undoes
  <2>2. open' = open \ Range(registered)
    BY Zenon, <2>1 DEF BuildRegisters
  <2>3. Owned' = {}
    BY Zenon, <2>1, <2>2 DEF Owned
  <2> QED
    BY Zenon, <2>1, <2>3 DEF BuildRegisters
<1>6. CASE Built
  <2>1. phase = "starting" /\ phase' = "built" /\ UNCHANGED <<open, closers, registered, checks>>
    BY Zenon, <1>6 DEF Built, resources
  <2> QED
    BY Zenon, <2>1 DEF BuildRegisters
<1>7. CASE ~Build /\ UNCHANGED <<open, closers>>
  <2>1. UNCHANGED <<phase, runners, registered, checks>>
    BY Zenon, <1>7, WhoBuilds DEF buildVars
  <2> QED
    BY Zenon, <1>7, <2>1 DEF BuildRegisters, Owned
<1>8. ASSUME NEW p \in Closing, Forgets(p) \/ Closes(p) PROVE BuildRegisters'
  <2>1. phase = "built"
    BY Zenon, <1>8, ClosingBuilt DEF Forgets, Closes
  <2>2. phase' = "built" /\ UNCHANGED <<registered, checks>>
    BY Zenon, <2>1, StaysBuilt
  <2>3. open' \subseteq open
    BY Zenon, <1>8 DEF Forgets, Closes
  <2>4. Checked \cap open \subseteq Range(registered) /\ checks = Checked \cap Range(registered)
    BY Zenon, <2>1 DEF BuildRegisters
  <2> QED
    BY Zenon, <2>2, <2>3, <2>4 DEF BuildRegisters
<1> QED
  BY Zenon, <1>1, <1>2, <1>3, <1>4, <1>5, <1>6, <1>7, <1>8, WhoOpensAndCloses DEF Build

LEMMA ServersCoverStep ==
    ASSUME TypeOK, Quiet, BuildRegisters, ServersCover, [Next]_vars
    PROVE  ServersCover'
<1>0. TypeBuild
  BY Zenon, TypeParts
<1>1. components \in Seq(Component) /\ comp \in Nat /\ Len(components) \in Nat /\ DOMAIN components = 1 .. Len(components)
  BY <1>0 DEF TypeBuild
<1>2. CASE BuildBegins
  <2>1. phase = "declared" /\ runners' = runners
        /\ (phase' = "failed" \/ (phase' = "starting" /\ components' \in SortedByStage(components)))
    BY Zenon, <1>2 DEF BuildBegins
  <2>2. \A s : s \notin Range(runners')
    <3>1. runners' = <<>>
      BY Zenon, <2>1 DEF BuildRegisters
    <3> QED
      BY <3>1 DEF Range
  <2>3. ASSUME components' \in SortedByStage(components)
        PROVE  \A m, n \in DOMAIN components' : m < n /\ components'[m] \in Server => components'[n] \in Server
    <3>1. PICK q \in Seq(Component) : q = components' /\ q \in SortedByStage(components) /\ Len(q) = Len(components)
      BY Zenon, <1>1, <2>3, SortSorts
    <3>2. DOMAIN q = DOMAIN components
      BY <1>1, <3>1
    <3>3. \A m, n \in DOMAIN components : m < n /\ q[m] \in Server => q[n] \in Server
      BY Zenon, <1>1, <3>1, SortSorts
    <3> QED
      BY Zenon, <3>1, <3>2, <3>3
  <2> QED
    BY Zenon, <2>1, <2>2, <2>3 DEF ServersCover
<1>3. CASE StartOpens
  <2>1. /\ phase = "starting" /\ comp <= Len(components) /\ part <= Len(Opens(components[comp]))
        /\ UNCHANGED <<phase, components, comp, runners>>
    BY Zenon, <1>3 DEF StartOpens
  <2>2. comp \in DOMAIN components /\ components[comp] \notin Server
    <3>1. comp \in DOMAIN components
      BY <1>0, <1>1, <2>1 DEF TypeBuild
    <3> QED
      BY Zenon, <1>0, <2>1, <3>1, OpeningResource
  <2>3. ASSUME NEW s \in Range(runners) PROVE FALSE
    <3>1. PICK m \in DOMAIN components : m < comp /\ components[m] = s
      BY Zenon, <2>1, <2>3 DEF ServersCover
    <3>2. s \in Server
      BY <1>0, <2>3 DEF TypeBuild, Range
    <3> QED
      BY Zenon, <2>1, <2>2, <3>1, <3>2 DEF ServersCover
  <2>4. \A s : s \notin Range(runners')
    BY Zenon, <2>1, <2>3
  <2> QED
    BY Zenon, <2>1, <2>4 DEF ServersCover
<1>4. CASE Started
  <2>1. /\ phase = "starting" /\ comp <= Len(components) /\ comp' = comp + 1 /\ UNCHANGED <<phase, components, checks>>
        /\ covered' = [s \in Server |-> IF s = components[comp] THEN checks ELSE covered[s]]
    BY Zenon, <1>4 DEF Started, resources
  <2>2. comp \in DOMAIN components /\ comp < comp' /\ \A m \in DOMAIN components : m < comp => m < comp'
    BY <1>0, <1>1, <2>1 DEF TypeBuild
  <2>3. ASSUME NEW s \in Range(runners') PROVE s \in Server /\ (s \in Range(runners) \/ s = components[comp])
    <3>1. runners' \in Seq(Server)
      BY Zenon, TypeBuildStep DEF TypeBuild
    <3>2. s \in Server
      BY <3>1, <2>3 DEF Range
    <3>3. CASE runners' = runners
      BY Zenon, <2>3, <3>2, <3>3
    <3>4. CASE runners' = Append(runners, components[comp])
      <4>1. PICK i \in DOMAIN runners' : s = runners'[i]
        BY Zenon, <2>3 DEF Range
      <4>2. runners \in Seq(Server)
        BY Zenon, <1>0 DEF TypeBuild
      <4>3. (i \in DOMAIN runners /\ s = runners[i]) \/ s = components[comp]
        BY <3>4, <4>1, <4>2
      <4> QED
        BY Zenon, <3>2, <4>3 DEF Range
    <3> QED
      BY Zenon, <3>3, <3>4, RunnersGrow
  <2>4. ASSUME NEW s \in Range(runners') PROVE covered'[s] = checks /\ \E m \in DOMAIN components : m < comp' /\ components[m] = s
    <3>1. CASE s = components[comp]
      BY Zenon, <2>1, <2>2, <2>3, <3>1
    <3>2. CASE s # components[comp]
      <4>1. s \in Range(runners) /\ s \in Server
        BY Zenon, <2>3, <3>2
      <4>2. covered[s] = checks
        BY Zenon, <2>1, <4>1 DEF ServersCover
      <4>3. PICK m \in DOMAIN components : m < comp /\ components[m] = s
        BY Zenon, <2>1, <4>1 DEF ServersCover
      <4> QED
        BY Zenon, <2>1, <2>2, <3>2, <4>1, <4>2, <4>3
    <3> QED
      BY Zenon, <3>1, <3>2
  <2> QED
    BY Zenon, <2>1, <2>4 DEF ServersCover
<1>5. CASE StartFails \/ Undoes
  BY Zenon, <1>5 DEF StartFails, Undoes, ServersCover
<1>6. CASE Built
  <2>1. phase = "starting" /\ phase' = "built" /\ UNCHANGED <<runners, covered, checks>>
    BY Zenon, <1>6 DEF Built, resources
  <2> QED
    BY Zenon, <2>1 DEF ServersCover
<1>7. CASE ~Build
  <2>1. UNCHANGED <<phase, components, comp, runners, covered, checks>>
    BY Zenon, <1>7, WhoBuilds DEF buildVars
  <2> QED
    BY Zenon, <2>1 DEF ServersCover
<1> QED
  BY Zenon, <1>2, <1>3, <1>4, <1>5, <1>6, <1>7 DEF Build

\* The closer that runs is the last one taken, by its place in the registration.
LEMMA ClosesOne ==
    ASSUME TypeOK, NEW p \in Closing, Closes(p)
    PROVE  /\ Len(took[p]) \in DOMAIN registered /\ Len(took[p]) \in Nat
           /\ Last(took[p]) = registered[Len(took[p])]
           /\ open' = open \ {registered[Len(took[p])]}
           /\ Len(took'[p]) = Len(took[p]) - 1
           /\ \A b \in Closing \ {p} : took'[b] = took[b]
           /\ UNCHANGED <<closing, closers, registered>>
           /\ closing[p] = "close" /\ took[p] # <<>>
           /\ drainExpired' = (drainExpired \/ (registered[Len(took[p])] = "consumers" /\ handling))
<1>0. registered \in Seq(Resource) /\ took \in [Closing -> Seq(Resource)]
      /\ Len(took[p]) <= Len(registered) /\ took[p] = SubSeq(registered, 1, Len(took[p]))
  BY Zenon, TypeParts DEF TypeResources, TypeTook
<1>1. /\ closing[p] = "close" /\ took[p] # <<>> /\ open' = open \ {Last(took[p])} /\ took' = [took EXCEPT ![p] = Front(took[p])]
      /\ drainExpired' = (drainExpired \/ (Last(took[p]) = "consumers" /\ handling))
      /\ UNCHANGED <<closing, closers, registered>>
  BY Zenon DEF Closes
<1>2. PICK w \in Seq(Resource) : w = took[p] /\ w # <<>> /\ Len(w) <= Len(registered) /\ w = SubSeq(registered, 1, Len(w))
  BY Zenon, <1>0, <1>1
<1>3. Len(w) \in DOMAIN registered /\ Len(w) \in Nat /\ w[Len(w)] = registered[Len(w)]
      /\ Len(SubSeq(w, 1, Len(w) - 1)) = Len(w) - 1
  <2>1. Len(w) \in Nat /\ Len(w) >= 1 /\ Len(registered) \in Nat
    BY <1>0, <1>2
  <2>2. Len(w) \in DOMAIN registered
    BY <1>0, <1>2, <2>1
  <2>3. SubSeq(registered, 1, Len(w))[Len(w)] = registered[Len(w)]
    BY <1>0, <1>2, <2>1
  <2>4. Len(SubSeq(w, 1, Len(w) - 1)) = Len(w) - 1
    <3>1. Len(w) - 1 \in Nat /\ Len(w) - 1 <= Len(w)
      BY <2>1
    <3>2. \A n \in Nat : n <= Len(w) => Len(SubSeq(w, 1, n)) = n
      OBVIOUS
    <3> QED
      BY Zenon, <3>1, <3>2
  <2> QED
    BY Zenon, <1>2, <2>1, <2>2, <2>3, <2>4
<1>4. took'[p] = Front(w) /\ \A b \in Closing \ {p} : took'[b] = took[b]
  BY Zenon, <1>0, <1>1, <1>2
<1> QED
  BY Zenon, <1>1, <1>2, <1>3, <1>4 DEF Last, Front

\* Once built only closers change what is open, and nothing opens again.
LEMMA OnlyCloses ==
    ASSUME TypeOK, [Next]_vars, phase = "built"
    PROVE  /\ registered' = registered /\ open' \subseteq open /\ Owned' \subseteq Owned
           /\ (\A p \in Closing : ~CloseResources(p)) => UNCHANGED <<open, closers>>
<1>1. registered' = registered /\ ~Build
  BY Zenon, StaysBuilt
<1>2. open' \subseteq open
  <2>1. \A p \in Closing : Forgets(p) \/ Closes(p) => open' \subseteq open
    BY Zenon DEF Forgets, Closes
  <2> QED
    BY Zenon, <1>1, <2>1, WhoOpensAndCloses
<1>3. (\A p \in Closing : ~CloseResources(p)) => UNCHANGED <<open, closers>>
  BY Zenon, <1>1, WhoOpensAndCloses DEF CloseResources
<1> QED
  BY Zenon, <1>1, <1>2, <1>3 DEF Owned

\* Who moves in a goroutine's closeResources: that goroutine.
LEMMA OneCloses ==
    ASSUME TypeOK, [Next]_vars, NEW p \in Closing, NEW q \in Closing, p # q, CloseResources(q)
    PROVE  closing'[p] = closing[p] /\ took'[p] = took[p]
<1>0. closing \in [Closing -> {"idle", "take", "forget", "close", "done"}] /\ took \in [Closing -> Seq(Resource)]
  BY Zenon, TypeParts DEF TypeClosing, TypeTook
<1> QED
  BY Zenon, <1>0 DEF CloseResources, Takes, Forgets, Closes, ClosedAll

LEMMA OthersLeaveTook ==
    ASSUME [Next]_vars, \A p \in Closing : ~CloseResources(p)
    PROVE  UNCHANGED took
<1>1. Selected \/ Collects \/ (\E k \in Stopper : ShutdownBegins(k)) => UNCHANGED took
  BY Zenon DEF Selected, Collects, ShutdownBegins
<1> QED
  BY Zenon, <1>1, WhoCloses DEF closeVars

LEMMA TakenInReverseStep ==
    ASSUME TypeOK, Quiet, TakenInReverse, [Next]_vars
    PROVE  TakenInReverse'
<1>1. CASE phase # "built"
  <2>1. \A p \in Closing : closing[p] = "idle"
    BY Zenon, <1>1 DEF Quiet
  <2>2. \A p \in Closing : closing'[p] \notin {"forget", "close"}
    BY Zenon, <2>1, ClosingMoves, CloseFrame
  <2> QED
    BY Zenon, <2>2 DEF TakenInReverse
<1>2. CASE phase = "built"
  <2>0. registered' = registered /\ open' \subseteq open /\ registered \in Seq(Resource)
    BY Zenon, <1>2, OnlyCloses, TypeParts DEF TypeResources
  <2>1. SUFFICES ASSUME NEW p \in Closing
                 PROVE  /\ closing'[p] = "forget" => took'[p] \in {<<>>, registered}
                        /\ closing'[p] \in {"forget", "close"} /\ took'[p] # <<>> =>
                             \A j \in DOMAIN registered : j > Len(took'[p]) => registered[j] \notin open'
    BY Zenon, <2>0, <2>1 DEF TakenInReverse
  <2>a. /\ closing[p] = "forget" => took[p] \in {<<>>, registered}
        /\ closing[p] \in {"forget", "close"} /\ took[p] # <<>> =>
             \A j \in DOMAIN registered : j > Len(took[p]) => registered[j] \notin open
    BY Zenon DEF TakenInReverse
  <2>b. closing \in [Closing -> {"idle", "take", "forget", "close", "done"}] /\ took \in [Closing -> Seq(Resource)]
    BY Zenon, TypeParts DEF TypeClosing, TypeTook
  <2>2. CASE Takes(p)
    <3>1. took' = [took EXCEPT ![p] = closers] /\ closing' = [closing EXCEPT ![p] = "forget"]
      BY Zenon, <2>2 DEF Takes
    <3>2. took'[p] = closers /\ closers \in {<<>>, registered}
      BY Zenon, <2>b, <3>1, TypeParts DEF TypeResources
    <3>3. \A j \in DOMAIN registered : ~(j > Len(registered))
      BY <2>0
    <3> QED
      BY Zenon, <3>2, <3>3
  <2>3. CASE Forgets(p)
    <3>1. took' = took /\ closing[p] = "forget"
      BY Zenon, <2>3 DEF Forgets
    <3>2. closing'[p] = "close"
      BY Zenon, <2>b, <2>3 DEF Forgets
    <3> QED
      BY Zenon, <2>0, <2>a, <3>1, <3>2
  <2>4. CASE Closes(p)
    <3>1. PICK n \in Nat : n = Len(took[p]) /\ n \in DOMAIN registered /\ open' = open \ {registered[n]}
                           /\ Len(took'[p]) = n - 1 /\ closing[p] = "close" /\ took[p] # <<>> /\ closing' = closing
      BY Zenon, <2>4, ClosesOne
    <3>2. ASSUME NEW j \in DOMAIN registered, j > Len(took'[p]) PROVE registered[j] \notin open'
      <4>1. j \in Nat
        BY <2>0
      <4>2. j = n \/ j > n
        BY <3>1, <3>2, <4>1
      <4> QED
        BY Zenon, <2>a, <3>1, <4>2
    <3> QED
      BY Zenon, <3>1, <3>2
  <2>5. CASE ClosedAll(p)
    <3>1. closing'[p] = "done"
      BY Zenon, <2>b, <2>5 DEF ClosedAll
    <3> QED
      BY Zenon, <3>1
  <2>6. CASE ~CloseResources(p)
    <3>1. took'[p] = took[p] /\ (closing'[p] = closing[p] \/ closing'[p] = "take")
      <4>1. CASE \E q \in Closing : CloseResources(q)
        BY Zenon, <2>6, <4>1, OneCloses
      <4>2. CASE \A q \in Closing : ~CloseResources(q)
        BY Zenon, <2>6, <4>2, OthersLeaveTook, ClosingMoves
      <4> QED
        BY Zenon, <4>1, <4>2
    <3> QED
      BY Zenon, <2>0, <2>a, <3>1
  <2> QED
    BY Zenon, <2>2, <2>3, <2>4, <2>5, <2>6 DEF CloseResources
<1> QED
  BY Zenon, <1>1, <1>2

LEMMA BuiltOpens ==
    ASSUME BuildRegisters, [Next]_vars, phase # "built", phase' = "built"
    PROVE  Built /\ UNCHANGED <<open, closers, registered>> /\ closers = registered /\ Range(registered) \subseteq open
<1>1. Build
  BY Zenon, WhoBuilds DEF buildVars
<1>2. Built
  BY Zenon, <1>1 DEF Build, BuildBegins, StartOpens, Started, StartFails, Undoes
<1>3. phase = "starting" /\ UNCHANGED <<open, closers, registered>>
  BY Zenon, <1>2 DEF Built, resources
<1> QED
  BY Zenon, <1>2, <1>3 DEF BuildRegisters

LEMMA ClosedInReverseStep ==
    ASSUME TypeOK, Quiet, BuildRegisters, TakenInReverse, ClosedInReverse, [Next]_vars
    PROVE  ClosedInReverse'
<1>1. CASE phase = "built"
  <2>0. registered' = registered /\ phase' = "built" /\ registered \in Seq(Resource) /\ IsInjective(registered)
    BY Zenon, <1>1, StaysBuilt, TypeParts DEF TypeResources
  <2>1. CASE UNCHANGED open
    BY Zenon, <1>1, <2>0, <2>1 DEF ClosedInReverse
  <2>2. ASSUME NEW p \in Closing, Closes(p) PROVE ClosedInReverse'
    <3>1. PICK n \in Nat : n = Len(took[p]) /\ n \in DOMAIN registered /\ open' = open \ {registered[n]}
                           /\ closing[p] = "close" /\ took[p] # <<>>
      BY Zenon, <2>2, ClosesOne
    <3>2. \A j \in DOMAIN registered : j > n => registered[j] \notin open
      BY Zenon, <3>1 DEF TakenInReverse
    <3>3. ASSUME NEW i \in DOMAIN registered, NEW j \in DOMAIN registered, i < j, registered[j] \in open'
          PROVE  registered[i] \in open'
      <4>1. registered[i] \in open /\ registered[j] \in open
        BY Zenon, <1>1, <3>1, <3>3 DEF ClosedInReverse
      <4>2. i # n
        <5>1. i = n => j > n
          BY <2>0, <3>3
        <5> QED
          BY Zenon, <3>2, <4>1, <5>1
      <4>3. registered[i] # registered[n]
        BY Zenon, <2>0, <3>1, <4>2 DEF IsInjective
      <4> QED
        BY Zenon, <3>1, <4>1, <4>3
    <3> QED
      BY Zenon, <2>0, <3>3 DEF ClosedInReverse
  <2>3. \A p \in Closing : Forgets(p) => UNCHANGED open
    BY Zenon DEF Forgets
  <2> QED
    BY Zenon, <1>1, <2>1, <2>2, <2>3, WhoOpensAndCloses, StaysBuilt
<1>2. CASE phase # "built" /\ phase' = "built"
  <2>1. UNCHANGED <<open, registered>> /\ Range(registered) \subseteq open
    BY Zenon, <1>2, BuiltOpens
  <2> QED
    BY Zenon, <2>1 DEF ClosedInReverse, Range
<1>3. CASE phase' # "built"
  BY Zenon, <1>3 DEF ClosedInReverse
<1> QED
  BY Zenon, <1>1, <1>2, <1>3

LEMMA ActiveAlone ==
    ASSUME TypeOK, ListenStops, ShutdownsClose, ClosesAll, NEW p \in Closing, NEW q \in Closing, Active(p), Active(q),
           p = Main \/ ~overlap
    PROVE  p = q
<1>1. \A b \in Closing : b = Main \/ b \in Stopper
  BY Zenon DEF Closing
<1>2. closing[Main] # "idle" => isRunning
  BY Zenon DEF ListenStops
<1>3. \A k \in Stopper : closing[k] # "idle" => ~isRunning
  BY Zenon DEF ShutdownsClose
<1>4. ~overlap => \A k, l \in Stopper : Active(k) /\ Active(l) => k = l
  BY Zenon DEF ClosesAll
<1>5. closing[p] # "idle" /\ closing[q] # "idle"
  BY Zenon DEF Active
<1> QED
  BY Zenon, <1>1, <1>2, <1>3, <1>4, <1>5

LEMMA ClosersWhole ==
    ASSUME TypeOK, Quiet, BuildRegisters, ClosesAll, [Next]_vars, phase' = "built", \A p \in Closing : closing'[p] = "idle"
    PROVE  closers' = registered' /\ Range(registered') \subseteq open'
<1>1. CASE phase # "built"
  BY Zenon, <1>1, BuiltOpens
<1>2. CASE phase = "built"
  <2>1. \A p \in Closing : closing[p] = "idle"
    BY Zenon, ClosingMoves
  <2>2. \A p \in Closing : ~CloseResources(p)
    BY Zenon, <2>1, CloseFrame
  <2>3. UNCHANGED <<open, closers, registered>>
    BY Zenon, <1>2, <2>2, OnlyCloses
  <2>4. closers = registered /\ Range(registered) \subseteq open
    BY Zenon, <1>2, <2>1 DEF ClosesAll
  <2> QED
    BY Zenon, <2>3, <2>4
<1> QED
  BY Zenon, <1>1, <1>2

LEMMA OneStopperCloses ==
    ASSUME TypeOK, ClosesAll, [Next]_vars, ~overlap'
    PROVE  ~overlap /\ \A k, l \in Stopper : Active(k)' /\ Active(l)' => k = l
<1>0. /\ closing \in [Closing -> {"idle", "take", "forget", "close", "done"}] /\ \A k \in Stopper : k \in Closing /\ k # Main
  BY Zenon, TypeParts, ClosingMoves DEF TypeClosing
<1>1. ~overlap
  <2>1. \A k \in Stopper : ShutdownBegins(k) => ~overlap
    BY Zenon DEF ShutdownBegins
  <2>2. \A p \in Closing : CloseResources(p) => ~overlap
    BY Zenon, CloseFrame
  <2>3. Selected \/ Collects => ~overlap
    BY Zenon DEF Selected, Collects
  <2> QED
    BY Zenon, <2>1, <2>2, <2>3, WhoCloses DEF closeVars
<1>2. \A k, l \in Stopper : Active(k) /\ Active(l) => k = l
  BY Zenon, <1>1 DEF ClosesAll
<1>3. CASE \E b \in Stopper : ShutdownBegins(b) /\ ~isRunning
  <2>1. PICK b \in Stopper : ShutdownBegins(b) /\ ~isRunning
    BY Zenon, <1>3
  <2>2. closing' = [closing EXCEPT ![b] = "take"] /\ overlap' = (overlap \/ DirectCloses # {})
    BY Zenon, <2>1 DEF ShutdownBegins
  <2>3. \A k \in Stopper : closing[k] \in {"idle", "done"}
    BY Zenon, <2>2 DEF DirectCloses
  <2>4. \A k \in Stopper : k = b \/ closing'[k] \in {"idle", "done"}
    BY Zenon, <1>0, <2>2, <2>3
  <2> QED
    BY Zenon, <1>1, <2>4 DEF Active
<1>4. CASE ~\E b \in Stopper : ShutdownBegins(b) /\ ~isRunning
  <2>1. ASSUME NEW k \in Stopper, Active(k)' PROVE Active(k)
    <3>1. closing'[k] = closing[k] \/ CloseResources(k)
      BY Zenon, <1>0, <1>4, ClosingMoves
    <3> QED
      BY Zenon, <1>0, <2>1, <3>1, CloseFrame DEF Active
  <2> QED
    BY Zenon, <1>1, <1>2, <2>1
<1> QED
  BY Zenon, <1>3, <1>4

\* The goroutine's own steps.
LEMMA SoleClosesOwn ==
    ASSUME TypeOK, NEW p \in Closing, SoleCloses(p), CloseResources(p), [Next]_vars, phase = "built"
    PROVE  SoleCloses(p)'
<1>0. /\ closing \in [Closing -> {"idle", "take", "forget", "close", "done"}] /\ took \in [Closing -> Seq(Resource)]
      /\ registered \in Seq(Resource)
  BY Zenon, TypeParts DEF TypeClosing, TypeTook, TypeResources
<1>1. registered' = registered /\ open' \subseteq open /\ Owned' \subseteq Owned
  BY Zenon, OnlyCloses
<1>2. CASE Takes(p)
  <2>1. took'[p] = closers /\ closing'[p] = "forget" /\ closing[p] = "take"
    BY Zenon, <1>0, <1>2 DEF Takes
  <2>2. closers = registered \/ Owned = {}
    BY Zenon, <2>1 DEF SoleCloses
  <2>3. took'[p] = registered' \/ Owned' = {}
    BY Zenon, <1>1, <2>1, <2>2
  <2> QED
    BY Zenon, <2>1, <2>3 DEF SoleCloses
<1>3. CASE Forgets(p)
  <2>1. took' = took /\ closing'[p] = "close" /\ closing[p] = "forget"
    BY Zenon, <1>0, <1>3 DEF Forgets
  <2>2. took[p] = registered \/ Owned = {}
    BY Zenon, <2>1 DEF SoleCloses
  <2>3. \A j \in DOMAIN registered : j <= Len(registered)
    BY <1>0
  <2>4. ASSUME NEW j \in DOMAIN registered, registered[j] \in open PROVE j <= Len(took[p])
    <3>1. registered[j] \in Owned
      BY Zenon, <2>4 DEF Owned, Range
    <3> QED
      BY Zenon, <2>2, <2>3, <3>1
  <2>5. \A j \in DOMAIN registered' : registered'[j] \in open' => j <= Len(took'[p])
    BY Zenon, <1>1, <2>1, <2>4
  <2> QED
    BY Zenon, <2>1, <2>5 DEF SoleCloses
<1>4. CASE Closes(p)
  <2>1. PICK n \in Nat : n = Len(took[p]) /\ open' = open \ {registered[n]} /\ Len(took'[p]) = n - 1
                         /\ closing[p] = "close" /\ closing' = closing
    BY Zenon, <1>4, ClosesOne
  <2>2. ASSUME NEW j \in DOMAIN registered, registered[j] \in open' PROVE j <= n - 1
    <3>1. j # n /\ registered[j] \in open
      BY Zenon, <2>1, <2>2
    <3>2. j <= n
      BY Zenon, <2>1, <3>1 DEF SoleCloses
    <3>3. j \in Nat
      BY <1>0
    <3> QED
      BY <3>1, <3>2, <3>3
  <2>3. \A j \in DOMAIN registered' : registered'[j] \in open' => j <= Len(took'[p])
    BY Zenon, <1>1, <2>1, <2>2
  <2>4. closing'[p] = "close"
    BY Zenon, <2>1
  <2> QED
    BY Zenon, <2>3, <2>4 DEF SoleCloses
<1>5. CASE ClosedAll(p)
  <2>1. took[p] = <<>> /\ closing'[p] = "done" /\ closing[p] = "close"
    BY Zenon, <1>0, <1>5 DEF ClosedAll
  <2>2. \A j \in DOMAIN registered : ~(j <= Len(<<>>))
    BY <1>0
  <2>3. \A j \in DOMAIN registered : registered[j] \in open => j <= Len(<<>>)
    BY Zenon, <2>1 DEF SoleCloses
  <2>4. Owned = {}
    BY Zenon, <2>2, <2>3 DEF Owned, Range
  <2>5. Owned' = {}
    BY Zenon, <1>1, <2>4
  <2> QED
    BY Zenon, <2>1, <2>5 DEF SoleCloses
<1> QED
  BY Zenon, <1>2, <1>3, <1>4, <1>5 DEF CloseResources

LEMMA SoleClosesStep ==
    ASSUME TypeOK, Quiet, BuildRegisters, ServersServe, ListenStops, ShutdownsClose, ClosesAll, [Next]_vars,
           NEW p \in Closing, p = Main \/ ~overlap'
    PROVE  SoleCloses(p)'
<1>1. SoleCloses(p) /\ (p = Main \/ ~overlap)
  BY Zenon, OneStopperCloses DEF ClosesAll
<1>2. /\ closing \in [Closing -> {"idle", "take", "forget", "close", "done"}] /\ Main \in Closing
      /\ \A k \in Stopper : k \in Closing /\ k # Main
  BY Zenon, TypeParts, ClosingMoves DEF TypeClosing
<1>3. CASE phase # "built"
  <2>1. \A q \in Closing : closing[q] = "idle"
    BY Zenon, <1>3 DEF Quiet
  <2>2. ~Selected /\ ~Collects /\ \A k \in Stopper : ~ShutdownBegins(k)
    BY Zenon, <1>3 DEF Selected, Collects, ShutdownBegins, Quiet
  <2>3. closing'[p] = "idle"
    <3>1. p = Main \/ p \in Stopper
      BY Zenon DEF Closing
    <3> QED
      BY Zenon, <2>1, <2>2, <3>1, ClosingMoves, CloseFrame
  <2> QED
    BY Zenon, <2>3 DEF SoleCloses
<1>4. CASE phase = "built"
  <2>0. registered' = registered /\ open' \subseteq open /\ Owned' \subseteq Owned
    BY Zenon, <1>4, OnlyCloses
  <2>1. CASE CloseResources(p)
    BY Zenon, <1>1, <1>4, <2>1, SoleClosesOwn
  <2>2. ASSUME NEW q \in Closing, q # p, CloseResources(q) PROVE SoleCloses(p)'
    <3>1. closing'[p] = closing[p]
      BY Zenon, <2>2, OneCloses
    <3>2. Active(q)
      BY Zenon, <2>2, CloseFrame DEF Active
    <3>3. ~Active(p)
      BY Zenon, <1>1, <2>2, <3>2, ActiveAlone
    <3>4. closing'[p] = "idle" \/ (closing'[p] = "done" /\ Owned = {})
      BY Zenon, <1>1, <1>2, <3>1, <3>3 DEF Active, SoleCloses
    <3>5. closing'[p] = "idle" \/ (closing'[p] = "done" /\ Owned' = {})
      BY Zenon, <2>0, <3>4
    <3> QED
      BY Zenon, <3>5 DEF SoleCloses
  <2>3. CASE \A q \in Closing : ~CloseResources(q)
    <3>0. UNCHANGED <<open, closers, took, registered>> /\ Owned' = Owned
      BY Zenon, <1>4, <2>0, <2>3, OnlyCloses, OthersLeaveTook DEF Owned
    <3>1. CASE closing'[p] = closing[p]
      BY Zenon, <1>1, <3>0, <3>1 DEF SoleCloses
    <3>2. CASE p = Main /\ (Selected \/ Collects) /\ closing'[p] = "take"
      <4>1. listen \in {"select", "collect"}
        BY Zenon, <3>2 DEF Selected, Collects
      <4>2. isRunning /\ closing[Main] = "idle"
        BY Zenon, <4>1 DEF ListenStops
      <4>3. \A q \in Closing : closing[q] = "idle"
        BY Zenon, <4>2 DEF ShutdownsClose, Closing
      <4>4. closers = registered
        BY Zenon, <1>4, <4>3 DEF ClosesAll
      <4>5. closers' = registered'
        BY Zenon, <3>0, <4>4
      <4> QED
        BY Zenon, <3>2, <4>5 DEF SoleCloses
    <3>3. CASE p # Main /\ ShutdownBegins(p) /\ ~isRunning /\ closing'[p] = "take"
      <4>1. overlap' = (overlap \/ DirectCloses # {}) /\ ~overlap'
        BY Zenon, <3>3 DEF ShutdownBegins
      <4>2. ~overlap /\ \A k \in Stopper : closing[k] \in {"idle", "done"}
        BY Zenon, <4>1 DEF DirectCloses
      <4>3. closing[Main] = "idle"
        BY Zenon, <3>3 DEF ListenStops
      <4>4. CASE \E k \in Stopper : closing[k] = "done"
        <5>1. Owned = {}
          BY Zenon, <1>2, <4>2, <4>4 DEF ClosesAll, SoleCloses
        <5>2. Owned' = {}
          BY Zenon, <3>0, <5>1
        <5> QED
          BY Zenon, <3>3, <5>2 DEF SoleCloses
      <4>5. CASE \A k \in Stopper : closing[k] # "done"
        <5>1. \A q \in Closing : closing[q] = "idle"
          BY Zenon, <4>2, <4>3, <4>5 DEF Closing
        <5>2. closers' = registered'
          BY Zenon, <1>4, <3>0, <5>1 DEF ClosesAll
        <5> QED
          BY Zenon, <3>3, <5>2 DEF SoleCloses
      <4> QED
        BY Zenon, <4>4, <4>5
    <3> QED
      BY Zenon, <2>3, <3>1, <3>2, <3>3, ClosingMoves
  <2> QED
    BY Zenon, <2>1, <2>2, <2>3
<1> QED
  BY Zenon, <1>3, <1>4

LEMMA HandlersDrainedStep ==
    ASSUME TypeOK, Quiet, HandlersDrained, [Next]_vars
    PROVE  HandlersDrained'
<1>1. CASE phase # "built"
  <2>1. ~handling /\ ~Message
    BY Zenon, <1>1 DEF Quiet, Message
  <2>2. ~handling'
    BY Zenon, <2>1, WhoHandles DEF MessageDone
  <2> QED
    BY Zenon, <2>2 DEF HandlersDrained
<1>2. CASE phase = "built"
  <2>1. handling' => handling \/ ("consumers" \in open /\ UNCHANGED open)
    BY Zenon, WhoHandles DEF Message, MessageDone, resources
  <2>2. CASE \E p \in Closing : Closes(p)
    <3>1. PICK p \in Closing : Closes(p)
      BY Zenon, <2>2
    <3>2. /\ drainExpired' = (drainExpired \/ (Last(took[p]) = "consumers" /\ handling)) /\ handling' = handling
          /\ open' = open \ {Last(took[p])}
      BY Zenon, <3>1 DEF Closes
    <3> QED
      BY Zenon, <3>2 DEF HandlersDrained
  <2>3. CASE ~\E p \in Closing : Closes(p)
    <3>1. UNCHANGED open
      <4>1. \A p \in Closing : Forgets(p) => UNCHANGED open
        BY Zenon DEF Forgets
      <4> QED
        BY Zenon, <1>2, <2>3, <4>1, WhoOpensAndCloses, StaysBuilt
    <3>2. UNCHANGED drainExpired
      <4>1. Selected \/ Collects \/ (\E k \in Stopper : ShutdownBegins(k)) => UNCHANGED drainExpired
        BY Zenon DEF Selected, Collects, ShutdownBegins
      <4>2. \A p \in Closing : CloseResources(p) => UNCHANGED drainExpired
        BY Zenon, <2>3 DEF CloseResources, Takes, Forgets, ClosedAll
      <4> QED
        BY Zenon, <4>1, <4>2, WhoCloses DEF closeVars
    <3> QED
      BY Zenon, <2>1, <3>1, <3>2 DEF HandlersDrained
  <2> QED
    BY Zenon, <2>2, <2>3
<1> QED
  BY Zenon, <1>1, <1>2

-----------------------------------------------------------------------------
(* The theorem.                                                            *)

LEMMA ServiceInit ==
    ASSUME Init
    PROVE  ServiceInv
<1>0. /\ ServerInit
      /\ runners = <<>> /\ phase = "declared" /\ comp = 1 /\ part = 1 /\ covered = [s \in Server |-> {}]
      /\ open = {} /\ closers = <<>> /\ registered = <<>> /\ checks = {}
      /\ listen = "idle" /\ turn = 1 /\ serviceCtx = FALSE /\ isRunning = FALSE /\ isClosed = FALSE
      /\ stopExpired = FALSE
      /\ stopper = [k \in Stopper |-> "idle"] /\ stopTurn = [k \in Stopper |-> 1]
      /\ closing = [p \in Closing |-> "idle"] /\ took = [p \in Closing |-> <<>>]
      /\ drainExpired = FALSE /\ overlap = FALSE /\ handling = FALSE
  BY Zenon DEF Init
<1>1. \A s : s \notin Range(<<>>)
  BY DEF Range
<1>2. TypeOK
  <2>1. ServerTypeOK
    BY Zenon, <1>0 DEF ServerInit, ServerTypeOK
  <2>2. TypeBuild
    <3>1. stoppers \subseteq Stopper /\ patient \subseteq stoppers /\ components \in Seq(Component)
      BY Zenon, ServiceAssumption DEF Init
    <3>2. comp \in 1 .. (Len(components) + 1) /\ part \in 1 .. 3 /\ runners \in Seq(Server)
      BY <1>0, <3>1
    <3> QED
      BY Zenon, <1>0, <3>1, <3>2 DEF TypeBuild
  <2>3. TypeResources
    <3>1. <<>> \in Seq(Resource) /\ IsInjective(<<>>)
      BY DEF IsInjective
    <3> QED
      BY Zenon, <1>0, <3>1 DEF TypeResources
  <2>4. 1 \in 1 .. (Len(runners) + 1)
    BY <1>0
  <2>5. TypeListen
    BY Zenon, <1>0, <2>4 DEF TypeListen
  <2>6. TypeStop
    BY Zenon, <1>0, <2>4 DEF TypeStop
  <2>7. TypeClosing
    BY Zenon, <1>0 DEF TypeClosing
  <2>8. TypeTook
    <3>1. <<>> \in Seq(Resource) /\ Len(<<>>) <= Len(<<>>) /\ <<>> = SubSeq(<<>>, 1, Len(<<>>))
      OBVIOUS
    <3> QED
      BY Zenon, <1>0, <3>1 DEF TypeTook
  <2> QED
    BY Zenon, <2>1, <2>2, <2>3, <2>5, <2>6, <2>7, <2>8, TypeParts
<1>3. Quiet /\ HandlersDrained
  BY Zenon, <1>0 DEF Quiet, HandlersDrained
<1>4. BuildRegisters
  BY Zenon, <1>0, <1>1 DEF BuildRegisters
<1>5. ServersCover /\ ClosedInReverse
  BY Zenon, <1>0 DEF ServersCover, ClosedInReverse
<1>6. ServersServe
  BY Zenon, <1>0 DEF ServersServe, ServerInit
<1>7. Main \in Closing /\ \A k \in Stopper : k \in Closing
  BY Zenon DEF Closing
<1>8. ListenStops
  BY Zenon, <1>0, <1>7 DEF ListenStops
<1>9. ShutdownsClose
  BY Zenon, <1>0, <1>7 DEF ShutdownsClose
<1>10. TakenInReverse
  BY Zenon, <1>0 DEF TakenInReverse
<1>11. ClosesAll
  BY Zenon, <1>0, <1>7 DEF ClosesAll, SoleCloses, Active
<1> QED
  BY Zenon, <1>2, <1>3, <1>4, <1>5, <1>6, <1>8, <1>9, <1>10, <1>11 DEF ServiceInv

LEMMA ServiceStep ==
    ASSUME ServiceInv, [Next]_vars
    PROVE  ServiceInv'
<1> USE DEF ServiceInv
<1>1. TypeOK'
  BY Zenon, TypeStep
<1>2. Quiet' /\ HandlersDrained'
  BY Zenon, QuietStep, HandlersDrainedStep
<1>3. BuildRegisters' /\ ServersCover'
  BY Zenon, BuildRegistersStep, ServersCoverStep
<1>4. ServersServe' /\ ListenStops' /\ ShutdownsClose'
  BY Zenon, ServersServeStep, ListenStopsStep, ShutdownsCloseStep
<1>5. TakenInReverse' /\ ClosedInReverse'
  BY Zenon, TakenInReverseStep, ClosedInReverseStep
<1>6. ClosesAll'
  BY Zenon, ClosersWhole, OneStopperCloses, SoleClosesStep DEF ClosesAll
<1> QED
  BY Zenon, <1>1, <1>2, <1>3, <1>4, <1>5, <1>6

LEMMA ServiceOrderly ==
    ASSUME ServiceInv
    PROVE  OrderlyLifecycle
<1> USE DEF ServiceInv
<1>0. Main \in Closing /\ \A k \in Stopper : k \in Closing
  BY Zenon DEF Closing
<1>1. ASSUME phase = "built", Owned # Range(registered)
      PROVE  /\ \A s \in Server : /\ ShutdownReturns(s) \/ stopExpired
                                  /\ busy[s] => left[s] \/ stopExpired
             /\ handling => "consumers" \in open \/ drainExpired
  <2>1. ~\A p \in Closing : closing[p] = "idle"
    <3>1. ~(Range(registered) \subseteq open)
      BY Zenon, <1>1 DEF Owned
    <3> QED
      BY Zenon, <1>1, <3>1 DEF ClosesAll
  <2>2. ~isRunning \/ listen \in {"close", "done"}
    BY Zenon, <2>1 DEF Closing, ListenStops, ShutdownsClose
  <2>3. ASSUME NEW s \in Server PROVE (ShutdownReturns(s) /\ (busy[s] => left[s])) \/ stopExpired
    <3>1. srv[s] = "idle" \/ Returned(s) \/ stopExpired
      BY Zenon, <2>2 DEF ServersServe, ListenStops
    <3> QED
      BY Zenon, <3>1 DEF ServersServe, ShutdownReturns, Returned
  <2> QED
    BY Zenon, <2>3 DEF HandlersDrained
<1>2. NotUsedClosed
  BY Zenon, <1>1 DEF NotUsedClosed
<1>3. NilMeansClosed
  <2>1. ASSUME NEW k \in Stopper, stopper[k] = "nil", ~overlap PROVE Owned = {}
    <3>1. closing[k] = "done" \/ closing[Main] = "done"
      BY Zenon, <2>1 DEF ShutdownsClose, ListenStops
    <3>2. SoleCloses(k) /\ SoleCloses(Main)
      BY Zenon, <1>0, <2>1 DEF ClosesAll
    <3> QED
      BY Zenon, <3>1, <3>2 DEF SoleCloses
  <2> QED
    BY Zenon, <2>1 DEF NilMeansClosed
<1>4. FailedBuildCloses
  BY Zenon DEF FailedBuildCloses, BuildRegisters
<1>5. ReadinessCovers
  <2>1. ASSUME phase = "built", NEW s \in Range(runners) PROVE covered[s] = Checked \cap (Range(registered) \cup open)
    <3>1. covered[s] = checks /\ checks = Checked \cap Range(registered) /\ Checked \cap open \subseteq Range(registered)
      BY Zenon, <2>1 DEF ServersCover, BuildRegisters
    <3>2. Checked \cap Range(registered) = Checked \cap (Range(registered) \cup open)
      BY Zenon, <3>1
    <3> QED
      BY Zenon, <3>1, <3>2
  <2> QED
    BY Zenon, <2>1 DEF ReadinessCovers
<1> QED
  BY Zenon, <1>2, <1>3, <1>4, <1>5 DEF OrderlyLifecycle

\* The resources are closed in reverse order and not used once closed, Shutdown
\* and a Build that fails leave none open, and the readiness of the servers covers
\* all, for every program and any number of goroutines that call Shutdown
\* (gofi/service.go, builder.go, runtime.go).
THEOREM LifecycleIsOrderly == Spec => []OrderlyLifecycle
<1>1. Init => ServiceInv
  BY Zenon, ServiceInit
<1>2. ServiceInv /\ [Next]_vars => ServiceInv'
  BY Zenon, ServiceStep
<1>3. ServiceInv => OrderlyLifecycle
  BY Zenon, ServiceOrderly
<1> QED
  BY <1>1, <1>2, <1>3, PTL DEF Spec
==============================================================================
