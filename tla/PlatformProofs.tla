--------------------------- MODULE PlatformProofs ---------------------------
(***************************************************************************)
(* Proofs about what a request passes on its way to a handler: the HTTP    *)
(* server of netx (HttpServer) and the guards of iam with the tokens they  *)
(* read (Tokens).                                                          *)
(***************************************************************************)
EXTENDS HttpServer, Tokens, FiniteSetTheorems, TLAPS

-----------------------------------------------------------------------------
(* HttpServer.                                                             *)

Policies == {GlobalPolicy} \cup {s.cors : s \in Routes}
CorsHeaders == {NoCors} \cup {Apply(p, r.origin) : p \in Policies, r \in HttpReqs}
ReqRecord == [pc : {"idle", "limit", "screen", "buffer", "slot", "route", "handler", "done"},
              r : {Nil} \cup HttpReqs, acao : CorsHeaders, passed : BOOLEAN, badBody : BOOLEAN,
              ran : BOOLEAN, cut : BOOLEAN, status : Nat]

\* The answers of a handler that parsed its body.
Succeeded(status) == status \in {200, 204}

\* What the layers outside the handler have let through, and what the route's own
\* layers add to it.
Screened(x, o) ==
    /\ RouteOf(x.r.method, x.r.path) # {}
    /\ o.limiter = "closed" => x.passed
    /\ x.r.size > MaxBody => x.r.chunked
Admits(r, o) ==
    /\ \E s \in RouteOf(r.method, r.path) : s.private /\ s \in o.authed => r.token
    /\ o.csrf /\ CrossSite(r, PolicyFor(r.method, r.path).origins) => PolicyFor(r.method, r.path).any

\* A request by where it is in the chain: every layer before that place has let
\* it through, and none behind it has touched it; o is how the server was built.
ReqOK(x, o) ==
    /\ x \in ReqRecord
    /\ x.pc # "idle" => x.r \in HttpReqs
    /\ x.pc \in {"idle", "limit"} => ~x.passed
    /\ x.pc = "screen" /\ o.limiter = "closed" => x.passed
    /\ (x.pc \in {"buffer", "slot", "route", "handler"} \/ x.ran) => Screened(x, o)
    /\ (x.pc \in {"slot", "route", "handler"} \/ x.ran) /\ x.r.size > MaxBody => x.badBody
    /\ x.pc \in {"idle", "limit", "screen", "buffer", "slot", "route"} => ~x.ran
    /\ x.ran => Admits(x.r, o)
    /\ x.pc # "done" => ~x.cut /\ x.status = 0
    /\ x.cut => \E s \in RouteOf(x.r.method, x.r.path) : s.request = 0 \/ s.write > 0
    /\ x.ran /\ x.r.size > MaxBody => ~Succeeded(x.status)

\* The requests that hold a slot of a pool, and those a bucket let through.
Holding(x, p) == x.pc \in {"route", "handler"} /\ PoolOf(x.r) = p
Counted(x, b) == x.passed /\ Bucket(x.r) = b
Holders(p) == {c \in Conn : Holding(http[c], p)}
Takers(b) == {c \in Conn : Counted(http[c], b)}

SlotsOK ==
    /\ sem \in [DOMAIN PoolSize -> Nat]
    /\ \A p \in DOMAIN PoolSize : sem[p] = Cardinality(Holders(p)) /\ sem[p] <= PoolSize[p]
LimiterOK ==
    /\ used \in [ReqBuckets -> Nat]
    /\ \A b \in ReqBuckets : used[b] = Cardinality(Takers(b)) /\ used[b] <= Burst

HttpInv ==
    /\ http \in [Conn -> ReqRecord]
    /\ \A c \in Conn : ReqOK(http[c], options)
    /\ SlotsOK /\ LimiterOK
LEMMA InnerOf ==
    Wrappers[1] = "buffer" /\ Inner("buffer") = "slot" /\ Inner("slot") = "route" /\ Inner("route") = "handler"
<1>1. /\ DOMAIN Wrappers = 1 .. 4
      /\ Wrappers[1] = "buffer" /\ Wrappers[2] = "slot" /\ Wrappers[3] = "route" /\ Wrappers[4] = "handler"
  BY DEF Wrappers
<1>2. \A i \in 1 .. 4 : i = 1 \/ i = 2 \/ i = 3 \/ i = 4
  OBVIOUS
<1>3. ASSUME NEW w, NEW k \in 1 .. 4, Wrappers[k] = w, \A i \in 1 .. 4 : Wrappers[i] = w => i = k
      PROVE  Inner(w) = Wrappers[1 + k]
  <2>1. PICK j : j = CHOOSE i \in DOMAIN Wrappers : Wrappers[i] = w
    BY Zenon
  <2>2. j \in 1 .. 4 /\ Wrappers[j] = w
    BY Zenon, <1>1, <1>3, <2>1
  <2>3. j = k
    BY Zenon, <1>3, <2>2
  <2> QED
    BY Zenon, <2>1, <2>3 DEF Inner
<1>4. Inner("buffer") = Wrappers[1 + 1]
  BY <1>1, <1>2, <1>3
<1>5. Inner("slot") = Wrappers[1 + 2]
  BY <1>1, <1>2, <1>3
<1>6. Inner("route") = Wrappers[1 + 3]
  BY <1>1, <1>2, <1>3
<1> QED
  BY <1>1, <1>4, <1>5, <1>6

\* The route that serves a request is unique: of two patterns that fit, the one
\* with the first static segment wins.
LEMMA OneRoute ==
    ASSUME NEW r \in HttpReqs, NEW s \in RouteOf(r.method, r.path), NEW t \in RouteOf(r.method, r.path)
    PROVE  s = t
<1> DEFINE served == {q \in Routes : q.method = r.method}
           P == {q.pattern : q \in served}
<1>1. /\ s \in Routes /\ t \in Routes /\ s.method = t.method
      /\ s.pattern \in Find(P, r.path) /\ t.pattern \in Find(P, r.path)
  BY Zenon DEF RouteOf
<1>2. /\ s.pattern = t.pattern \/ Wins(s.pattern, t.pattern, r.path)
      /\ s.pattern = t.pattern \/ Wins(t.pattern, s.pattern, r.path)
  BY Zenon, <1>1 DEF Find
<1>3. ASSUME NEW p, NEW q, Wins(p, q, r.path), Wins(q, p, r.path)
      PROVE  FALSE
  <2>1. PICK i \in DOMAIN r.path : p[i] = r.path[i] /\ q[i] # r.path[i] /\ \A k \in 1 .. i - 1 : p[k] = q[k]
    BY Zenon, <1>3 DEF Wins
  <2>2. PICK j \in DOMAIN r.path : q[j] = r.path[j] /\ p[j] # r.path[j] /\ \A k \in 1 .. j - 1 : q[k] = p[k]
    BY Zenon, <1>3 DEF Wins
  <2>3. i \in Nat \ {0} /\ j \in Nat \ {0}
    BY HttpServerAssumption
  <2>4. i = j \/ i \in 1 .. j - 1 \/ j \in 1 .. i - 1
    BY <2>3
  <2> QED
    BY Zenon, <2>1, <2>2, <2>4
<1>4. s.pattern = t.pattern
  BY Zenon, <1>2, <1>3
<1> QED
  BY Zenon, <1>1, <1>4, HttpServerAssumption

\* So the policy crossOrigin applies is the one of the route.
LEMMA PolicyOfServed ==
    ASSUME NEW r \in HttpReqs, NEW route \in RouteOf(r.method, r.path)
    PROVE  /\ (CHOOSE s \in RouteOf(r.method, r.path) : TRUE) = route
           /\ PolicyFor(r.method, r.path) = IF route.cors # NoPolicy THEN route.cors ELSE GlobalPolicy
           /\ route \in Routes
<1>1. (CHOOSE s \in RouteOf(r.method, r.path) : TRUE) \in RouteOf(r.method, r.path)
  BY Zenon
<1>2. PICK own : own = {s \in RouteOf(r.method, r.path) : s.cors # NoPolicy}
  BY Zenon
<1>3. PolicyFor(r.method, r.path) = IF own = {} THEN GlobalPolicy ELSE (CHOOSE s \in own : TRUE).cors
  BY <1>2 DEF PolicyFor
<1>4. CASE own = {}
  <2>1. route.cors = NoPolicy
    BY Zenon, <1>2, <1>4
  <2> QED
    BY Zenon, <1>1, <1>3, <1>4, <2>1, OneRoute DEF RouteOf
<1>5. CASE own # {}
  <2>1. PICK s : s = CHOOSE o \in own : TRUE
    BY Zenon
  <2>2. s \in own
    BY Zenon, <1>5, <2>1
  <2>3. s = route /\ route.cors # NoPolicy
    BY Zenon, <1>2, <2>2, OneRoute
  <2> QED
    BY Zenon, <1>1, <1>3, <1>5, <2>1, <2>3, OneRoute DEF RouteOf
<1> QED
  BY Zenon, <1>4, <1>5

\* A handler that used its whole RequestTimeout can still answer, unless the route
\* sets a write timeout, or no request timeout.
LEMMA DeadlineAfterTimeout ==
    ASSUME NEW route \in Routes, WriteDeadline(route) <= RequestTimeout(route)
    PROVE  route.request = 0 \/ route.write > 0
<1>1. route.request \in Nat /\ route.write \in Nat /\ WSTimeouts.request \in Nat /\ WSTimeouts.write \in Nat
  <2>1. WSTimeouts \in [request : Nat, write : Nat]
    BY Zenon, HttpServerAssumption
  <2> QED
    BY Zenon, <2>1, HttpServerAssumption
<1>2. SUFFICES ASSUME route.request > 0, route.write = 0 PROVE FALSE
  BY <1>1
<1>3. RequestTimeout(route) = route.request
  BY <1>1, <1>2 DEF RequestTimeout, OrDefault
<1>4. PICK serverWrite \in Nat : serverWrite = OrDefault(WSTimeouts.write, DefaultWriteTimeout)
  BY <1>1 DEF OrDefault, DefaultWriteTimeout
<1>5. WriteDeadline(route) \in Nat /\ WriteDeadline(route) > route.request
  BY <1>1, <1>2, <1>4 DEF WriteDeadline, RouteWriteTimeout, OrDefault, DefaultWriteTimeout, DefaultRequestTimeout
<1> QED
  BY <1>1, <1>2, <1>3, <1>5


\* One request moves on.
LEMMA OneRequest ==
    ASSUME HttpInv, UNCHANGED options, NEW c \in Conn, NEW x, ReqOK(x, options), http' = [http EXCEPT ![c] = x],
           SlotsOK', LimiterOK'
    PROVE  HttpInv'
<1>1. x \in ReqRecord
  BY Zenon DEF ReqOK
<1>2. http' \in [Conn -> ReqRecord] /\ http'[c] = x /\ \A d \in Conn : d # c => http'[d] = http[d]
  BY Zenon, <1>1 DEF HttpInv
<1>3. \A d \in Conn : ReqOK(http'[d], options)
  BY Zenon, <1>2 DEF HttpInv
<1> QED
  BY Zenon, <1>2, <1>3 DEF HttpInv

LEMMA ConnFinite == \A S \in SUBSET Conn : IsFiniteSet(S) /\ Cardinality(S) \in Nat
  BY HttpServerAssumption, FS_Subset, FS_CardinalityType

\* The slots, when the request neither takes nor releases one, takes one, and
\* releases one.
LEMMA SlotsSame ==
    ASSUME HttpInv, NEW c \in Conn, NEW x, http' = [http EXCEPT ![c] = x], UNCHANGED sem,
           \A p : Holding(x, p) <=> Holding(http[c], p)
    PROVE  SlotsOK'
<1>1. http'[c] = x /\ \A d \in Conn : d # c => http'[d] = http[d]
  BY Zenon DEF HttpInv
<1>2. \A p : Holders(p)' = Holders(p)
  <2>1. SUFFICES ASSUME NEW p, NEW d \in Conn PROVE Holding(http'[d], p) <=> Holding(http[d], p)
    BY Zenon DEF Holders
  <2> QED
    BY Zenon, <1>1
<1> QED
  BY Zenon, <1>2 DEF HttpInv, SlotsOK

LEMMA SlotTaken ==
    ASSUME HttpInv, NEW c \in Conn, NEW x, http' = [http EXCEPT ![c] = x],
           http[c].pc = "slot", x.pc = "route", x.r = http[c].r, NEW p \in DOMAIN PoolSize, p = PoolOf(x.r),
           sem[p] < PoolSize[p], sem' = [sem EXCEPT ![p] = @ + 1]
    PROVE  SlotsOK'
<1>1. http'[c] = x /\ \A d \in Conn : d # c => http'[d] = http[d]
  BY Zenon DEF HttpInv
<1>2. sem \in [DOMAIN PoolSize -> Nat] /\ \A o \in DOMAIN PoolSize : sem[o] = Cardinality(Holders(o)) /\ sem[o] <= PoolSize[o]
  BY Zenon DEF HttpInv, SlotsOK
<1>3. Holders(p)' = Holders(p) \cup {c} /\ c \notin Holders(p)
  <2>1. Holding(x, p) /\ ~Holding(http[c], p)
    BY Zenon DEF Holding
  <2>2. c \notin Holders(p)
    BY Zenon, <2>1 DEF Holders
  <2>3. \A d \in Conn : Holding(http'[d], p) <=> Holding(http[d], p) \/ d = c
    BY Zenon, <1>1, <2>1
  <2> QED
    BY Zenon, <2>2, <2>3 DEF Holders
<1>4. \A o : o # p => Holders(o)' = Holders(o)
  <2>1. SUFFICES ASSUME NEW o, o # p, NEW d \in Conn PROVE Holding(http'[d], o) <=> Holding(http[d], o)
    BY Zenon DEF Holders
  <2>2. ~Holding(x, o) /\ ~Holding(http[c], o)
    BY Zenon, <2>1 DEF Holding
  <2> QED
    BY Zenon, <1>1, <2>2
<1>5. Cardinality(Holders(p) \cup {c}) = Cardinality(Holders(p)) + 1
  <2>1. IsFiniteSet(Holders(p))
    BY Zenon, ConnFinite DEF Holders
  <2> QED
    BY <1>3, <2>1, FS_AddElement
<1>6. PICK n \in Nat : n = sem[p] + 1 /\ n <= PoolSize[p]
  BY <1>2, HttpServerAssumption
<1>7. sem' = [sem EXCEPT ![p] = n]
  BY Zenon, <1>6
<1>8. sem' \in [DOMAIN PoolSize -> Nat] /\ sem'[p] = n /\ \A o \in DOMAIN PoolSize : o # p => sem'[o] = sem[o]
  BY Zenon, <1>2, <1>7
<1>9. n = Cardinality(Holders(p)')
  BY Zenon, <1>2, <1>3, <1>5, <1>6
<1> QED
  BY Zenon, <1>2, <1>4, <1>6, <1>8, <1>9 DEF SlotsOK

LEMMA SlotReleased ==
    ASSUME HttpInv, NEW c \in Conn, NEW x, http' = [http EXCEPT ![c] = x],
           http[c].pc \in {"route", "handler"}, x.pc = "done", NEW p \in DOMAIN PoolSize, p = PoolOf(http[c].r),
           sem' = [sem EXCEPT ![p] = @ - 1]
    PROVE  SlotsOK'
<1>1. http'[c] = x /\ \A d \in Conn : d # c => http'[d] = http[d]
  BY Zenon DEF HttpInv
<1>2. sem \in [DOMAIN PoolSize -> Nat] /\ \A o \in DOMAIN PoolSize : sem[o] = Cardinality(Holders(o)) /\ sem[o] <= PoolSize[o]
  BY Zenon DEF HttpInv, SlotsOK
<1>3. Holders(p)' = Holders(p) \ {c} /\ c \in Holders(p)
  <2>1. ~Holding(x, p) /\ Holding(http[c], p)
    BY Zenon DEF Holding
  <2>2. c \in Holders(p)
    BY Zenon, <2>1 DEF Holders
  <2>3. \A d \in Conn : Holding(http'[d], p) <=> Holding(http[d], p) /\ d # c
    BY Zenon, <1>1, <2>1
  <2> QED
    BY Zenon, <2>2, <2>3 DEF Holders
<1>4. \A o : o # p => Holders(o)' = Holders(o)
  <2>1. SUFFICES ASSUME NEW o, o # p, NEW d \in Conn PROVE Holding(http'[d], o) <=> Holding(http[d], o)
    BY Zenon DEF Holders
  <2>2. ~Holding(x, o) /\ ~Holding(http[c], o)
    BY Zenon, <2>1 DEF Holding
  <2> QED
    BY Zenon, <1>1, <2>2
<1>5. Cardinality(Holders(p) \ {c}) = Cardinality(Holders(p)) - 1 /\ Cardinality(Holders(p) \ {c}) \in Nat
  <2>1. IsFiniteSet(Holders(p)) /\ Cardinality(Holders(p) \ {c}) \in Nat
    <3>1. Holders(p) \in SUBSET Conn /\ Holders(p) \ {c} \in SUBSET Conn
      BY Zenon DEF Holders
    <3> QED
      BY Zenon, <3>1, ConnFinite
  <2> QED
    BY <1>3, <2>1, FS_RemoveElement
<1>6. PICK n \in Nat : n = sem[p] - 1 /\ n <= PoolSize[p]
  BY <1>2, <1>5, HttpServerAssumption
<1>7. sem' = [sem EXCEPT ![p] = n]
  BY Zenon, <1>6
<1>8. sem' \in [DOMAIN PoolSize -> Nat] /\ sem'[p] = n /\ \A o \in DOMAIN PoolSize : o # p => sem'[o] = sem[o]
  BY Zenon, <1>2, <1>7
<1>9. n = Cardinality(Holders(p)')
  BY Zenon, <1>2, <1>3, <1>5, <1>6
<1> QED
  BY Zenon, <1>2, <1>4, <1>6, <1>8, <1>9 DEF SlotsOK

\* The buckets, when the limiter does not count the request, and when it does.
LEMMA LimiterSame ==
    ASSUME HttpInv, NEW c \in Conn, NEW x, http' = [http EXCEPT ![c] = x], UNCHANGED used,
           \A b : Counted(x, b) <=> Counted(http[c], b)
    PROVE  LimiterOK'
<1>1. http'[c] = x /\ \A d \in Conn : d # c => http'[d] = http[d]
  BY Zenon DEF HttpInv
<1>2. \A b : Takers(b)' = Takers(b)
  <2>1. SUFFICES ASSUME NEW b, NEW d \in Conn PROVE Counted(http'[d], b) <=> Counted(http[d], b)
    BY Zenon DEF Takers
  <2> QED
    BY Zenon, <1>1
<1> QED
  BY Zenon, <1>2 DEF HttpInv, LimiterOK

LEMMA LimiterCounts ==
    ASSUME HttpInv, NEW c \in Conn, NEW x, http' = [http EXCEPT ![c] = x],
           ~http[c].passed, x.passed, NEW b \in ReqBuckets, b = Bucket(x.r),
           used[b] < Burst, used' = [used EXCEPT ![b] = @ + 1]
    PROVE  LimiterOK'
<1>1. http'[c] = x /\ \A d \in Conn : d # c => http'[d] = http[d]
  BY Zenon DEF HttpInv
<1>2. used \in [ReqBuckets -> Nat] /\ \A o \in ReqBuckets : used[o] = Cardinality(Takers(o)) /\ used[o] <= Burst
  BY Zenon DEF HttpInv, LimiterOK
<1>3. Takers(b)' = Takers(b) \cup {c} /\ c \notin Takers(b)
  <2>1. Counted(x, b) /\ ~Counted(http[c], b)
    BY Zenon DEF Counted
  <2>2. c \notin Takers(b)
    BY Zenon, <2>1 DEF Takers
  <2>3. \A d \in Conn : Counted(http'[d], b) <=> Counted(http[d], b) \/ d = c
    BY Zenon, <1>1, <2>1
  <2> QED
    BY Zenon, <2>2, <2>3 DEF Takers
<1>4. \A o : o # b => Takers(o)' = Takers(o)
  <2>1. SUFFICES ASSUME NEW o, o # b, NEW d \in Conn PROVE Counted(http'[d], o) <=> Counted(http[d], o)
    BY Zenon DEF Takers
  <2>2. ~Counted(x, o) /\ ~Counted(http[c], o)
    BY Zenon, <2>1 DEF Counted
  <2> QED
    BY Zenon, <1>1, <2>2
<1>5. Cardinality(Takers(b) \cup {c}) = Cardinality(Takers(b)) + 1
  <2>1. IsFiniteSet(Takers(b))
    BY Zenon, ConnFinite DEF Takers
  <2> QED
    BY <1>3, <2>1, FS_AddElement
<1>6. PICK n \in Nat : n = used[b] + 1 /\ n <= Burst
  BY <1>2, HttpServerAssumption
<1>7. used' = [used EXCEPT ![b] = n]
  BY Zenon, <1>6
<1>8. used' \in [ReqBuckets -> Nat] /\ used'[b] = n /\ \A o \in ReqBuckets : o # b => used'[o] = used[o]
  BY Zenon, <1>2, <1>7
<1>9. n = Cardinality(Takers(b)')
  BY Zenon, <1>2, <1>3, <1>5, <1>6
<1> QED
  BY Zenon, <1>2, <1>4, <1>6, <1>8, <1>9 DEF LimiterOK


LEMMA CorsTypes ==
    /\ NoCors \in CorsHeaders
    /\ \A r \in HttpReqs : /\ Apply(GlobalPolicy, r.origin) \in CorsHeaders
                           /\ \A s \in Routes : Apply(s.cors, r.origin) \in CorsHeaders
                           /\ Preflight(Lookup(r), r).acao \in CorsHeaders
                           /\ Preflight(Lookup(r), r).status \in Nat
<1>1. NoCors \in CorsHeaders /\ \A p \in Policies, r \in HttpReqs : Apply(p, r.origin) \in CorsHeaders
  BY DEF CorsHeaders
<1>2. GlobalPolicy \in Policies /\ \A s \in Routes : s.cors \in Policies
  BY Zenon DEF Policies
<1>3. ASSUME NEW r \in HttpReqs
      PROVE  Preflight(Lookup(r), r).acao \in CorsHeaders /\ Preflight(Lookup(r), r).status \in Nat
  <2>1. PICK own \in SUBSET Routes : Lookup(r) = IF own # {} THEN (CHOOSE s \in own : TRUE).cors ELSE GlobalPolicy
    <3> DEFINE with    == {s \in Routes : s.cors # NoPolicy}
               found   == {s \in with : s.pattern \in Find({o.pattern : o \in with}, r.path)}
               methods == {s \in found : s.method = r.acrm}
    <3>1. methods \in SUBSET Routes
      BY Zenon
    <3>2. Lookup(r) = IF methods # {} THEN (CHOOSE s \in methods : TRUE).cors ELSE GlobalPolicy
      BY Zenon DEF Lookup
    <3> QED
      BY Zenon, <3>1, <3>2
  <2>2. own # {} => (CHOOSE s \in own : TRUE) \in own
    BY Zenon
  <2>3. PICK p \in Policies : p = Lookup(r)
    BY Zenon, <1>2, <2>1, <2>2
  <2>4. PICK a \in CorsHeaders : a = Apply(p, r.origin)
    BY Zenon, <1>1, <2>3
  <2>5. \/ Preflight(p, r) = [status |-> 204, acao |-> a]
        \/ Preflight(p, r) = [status |-> 403, acao |-> NoCors]
    BY Zenon, <2>4 DEF Preflight
  <2> QED
    BY <1>1, <2>3, <2>4, <2>5
<1> QED
  BY Zenon, <1>1, <1>2, <1>3

LEMMA AcceptStep ==
    ASSUME HttpInv, UNCHANGED options, NEW c \in Conn, Accept(c)
    PROVE  HttpInv'
<1>1. http[c].pc = "idle" /\ UNCHANGED <<sem, used>>
  BY Zenon DEF Accept
<1>2. ReqOK(http[c], options)
  BY Zenon DEF HttpInv
<1>3. PICK x : /\ http' = [http EXCEPT ![c] = x]
               /\ x \in ReqRecord /\ x.r \in HttpReqs /\ x.pc \in {"limit", "done"}
               /\ ~x.passed /\ ~x.ran /\ ~x.cut /\ (x.pc # "done" => x.status = 0)
  <2>1. PICK r \in HttpReqs :
         http' = [http EXCEPT ![c] =
            IF r.method = "GET" /\ r.path = <<"livez">>
            THEN [NoReq EXCEPT !.r = r, !.pc = "done", !.status = 200]
            ELSE IF IsPreflight(r)
            THEN [NoReq EXCEPT !.r = r, !.pc = "done", !.status = Preflight(Lookup(r), r).status,
                               !.acao = Preflight(Lookup(r), r).acao]
            ELSE [NoReq EXCEPT !.r = r, !.pc = "limit", !.acao = Apply(GlobalPolicy, r.origin)]]
    BY Zenon DEF Accept
  <2>2. PICK a \in CorsHeaders, n \in Nat : a = Preflight(Lookup(r), r).acao /\ n = Preflight(Lookup(r), r).status
    BY Zenon, CorsTypes
  <2>3. PICK g \in CorsHeaders : g = Apply(GlobalPolicy, r.origin)
    BY Zenon, CorsTypes
  <2>4. PICK q \in ReqRecord : q = NoReq /\ ~q.passed /\ ~q.ran /\ ~q.cut /\ q.status = 0
    <3>1. PICK o \in CorsHeaders : o = NoCors
      BY Zenon, CorsTypes
    <3>2. NoReq = [pc |-> "idle", r |-> Nil, acao |-> o, passed |-> FALSE, badBody |-> FALSE,
                   ran |-> FALSE, cut |-> FALSE, status |-> 0]
      BY Zenon, <3>1 DEF NoReq
    <3>3. 0 \in Nat
      OBVIOUS
    <3>4. NoReq \in ReqRecord
      BY Zenon, <3>2, <3>3 DEF ReqRecord
    <3>5. ~NoReq.passed /\ ~NoReq.ran /\ ~NoReq.cut /\ NoReq.status = 0
      BY Zenon, <3>2
    <3> QED
      BY Zenon, <3>4, <3>5
  <2>5. PICK m \in Nat : m = 200
    OBVIOUS
  <2>6. PICK livez : livez = [q EXCEPT !.r = r, !.pc = "done", !.status = m]
    BY Zenon
  <2>7. PICK pre : pre = [q EXCEPT !.r = r, !.pc = "done", !.status = n, !.acao = a]
    BY Zenon
  <2>8. PICK on : on = [q EXCEPT !.r = r, !.pc = "limit", !.acao = g]
    BY Zenon
  <2>9. PICK x \in {livez, pre, on} : http' = [http EXCEPT ![c] = x]
    <3>1. CASE r.method = "GET" /\ r.path = <<"livez">>
      <4>1. http' = [http EXCEPT ![c] = livez]
        BY <2>1, <2>4, <2>6, <2>5, <3>1
      <4> QED
        BY Zenon, <4>1
    <3>2. CASE ~(r.method = "GET" /\ r.path = <<"livez">>) /\ IsPreflight(r)
      <4>1. http' = [http EXCEPT ![c] = pre]
        BY <2>1, <2>2, <2>4, <2>7, <3>2
      <4> QED
        BY Zenon, <4>1
    <3>3. CASE ~(r.method = "GET" /\ r.path = <<"livez">>) /\ ~IsPreflight(r)
      <4>1. http' = [http EXCEPT ![c] = on]
        BY <2>1, <2>3, <2>4, <2>8, <3>3
      <4> QED
        BY Zenon, <4>1
    <3> QED
      BY Zenon, <3>1, <3>2, <3>3
  <2>10. livez \in ReqRecord /\ livez.r = r /\ livez.pc = "done" /\ ~livez.passed /\ ~livez.ran /\ ~livez.cut
    BY Zenon, <2>4, <2>6 DEF ReqRecord
  <2>11. pre \in ReqRecord /\ pre.r = r /\ pre.pc = "done" /\ ~pre.passed /\ ~pre.ran /\ ~pre.cut
    BY Zenon, <2>4, <2>7 DEF ReqRecord
  <2>12. on \in ReqRecord /\ on.r = r /\ on.pc = "limit" /\ ~on.passed /\ ~on.ran /\ ~on.cut /\ on.status = 0
    BY Zenon, <2>4, <2>8 DEF ReqRecord
  <2> QED
    BY Zenon, <2>9, <2>10, <2>11, <2>12
<1>4. ReqOK(x, options)
  BY Zenon, <1>3 DEF ReqOK
<1>5. \A p : Holding(x, p) <=> Holding(http[c], p)
  BY Zenon, <1>1, <1>3 DEF Holding
<1>6. \A b : Counted(x, b) <=> Counted(http[c], b)
  BY Zenon, <1>1, <1>2, <1>3 DEF Counted, ReqOK
<1>7. SlotsOK'
  BY Zenon, <1>1, <1>3, <1>5, SlotsSame
<1>8. LimiterOK'
  BY Zenon, <1>1, <1>3, <1>6, LimiterSame
<1> QED
  BY Zenon, <1>3, <1>4, <1>7, <1>8, OneRequest

\* The changes of a request's record: its place, its answer.
LEMMA Stepped ==
    ASSUME HttpInv, NEW c \in Conn, NEW pc \in {"screen", "buffer", "route"}, Step(c, pc)
    PROVE  \E x \in ReqRecord :
              /\ http' = [http EXCEPT ![c] = x]
              /\ x.pc = pc /\ x.r = http[c].r /\ x.passed = http[c].passed /\ x.badBody = http[c].badBody
              /\ x.ran = http[c].ran /\ x.cut = http[c].cut /\ x.status = http[c].status
<1>1. PICK q \in ReqRecord : q = http[c]
  BY Zenon DEF HttpInv
<1>2. PICK x : x = [q EXCEPT !.pc = pc]
  BY Zenon
<1>3. /\ x \in ReqRecord /\ x.pc = pc /\ x.r = q.r /\ x.passed = q.passed /\ x.badBody = q.badBody
      /\ x.ran = q.ran /\ x.cut = q.cut /\ x.status = q.status
  BY Zenon, <1>2 DEF ReqRecord
<1>4. http' = [http EXCEPT ![c] = x]
  BY Zenon, <1>1, <1>2 DEF Step, HttpInv
<1> QED
  BY Zenon, <1>1, <1>2, <1>3, <1>4

LEMMA AnsweredWith ==
    ASSUME HttpInv, NEW c \in Conn, NEW n \in Nat, Answer(c, n)
    PROVE  \E x \in ReqRecord :
              /\ http' = [http EXCEPT ![c] = x]
              /\ x.pc = "done" /\ x.r = http[c].r /\ x.passed = http[c].passed /\ x.badBody = http[c].badBody
              /\ x.ran = http[c].ran /\ x.cut = http[c].cut /\ x.status = n
<1>1. PICK q \in ReqRecord : q = http[c]
  BY Zenon DEF HttpInv
<1>2. PICK x : x = [q EXCEPT !.pc = "done", !.status = n]
  BY Zenon
<1>3. /\ x \in ReqRecord /\ x.pc = "done" /\ x.r = q.r /\ x.passed = q.passed /\ x.badBody = q.badBody
      /\ x.ran = q.ran /\ x.cut = q.cut /\ x.status = n
  BY Zenon, <1>2 DEF ReqRecord
<1>4. http' = [http EXCEPT ![c] = x]
  BY Zenon, <1>1, <1>2 DEF Answer, HttpInv
<1> QED
  BY Zenon, <1>1, <1>2, <1>3, <1>4

\* An answer before the route, with no slot held.
LEMMA TurnedAway ==
    ASSUME HttpInv, UNCHANGED <<sem, used, options>>, NEW c \in Conn, NEW n \in Nat, Answer(c, n),
           http[c].pc \in {"limit", "screen", "slot"}
    PROVE  HttpInv'
<1>1. PICK x \in ReqRecord :
              /\ http' = [http EXCEPT ![c] = x]
              /\ x.pc = "done" /\ x.r = http[c].r /\ x.passed = http[c].passed /\ x.badBody = http[c].badBody
              /\ x.ran = http[c].ran /\ x.cut = http[c].cut /\ x.status = n
  BY Zenon, AnsweredWith
<1>2. PICK q : q = http[c] /\ ReqOK(q, options)
  BY Zenon DEF HttpInv
<1>3. ReqOK(x, options)
  BY Zenon, <1>1, <1>2 DEF ReqOK
<1>4. \A p : Holding(x, p) <=> Holding(http[c], p)
  BY Zenon, <1>1 DEF Holding
<1>5. \A b : Counted(x, b) <=> Counted(http[c], b)
  BY Zenon, <1>1 DEF Counted
<1>6. SlotsOK'
  BY Zenon, <1>1, <1>4, SlotsSame
<1>7. LimiterOK'
  BY Zenon, <1>1, <1>5, LimiterSame
<1> QED
  BY Zenon, <1>1, <1>3, <1>6, <1>7, OneRequest


LEMMA RateLimitStep ==
    ASSUME HttpInv, UNCHANGED options, NEW c \in Conn, RateLimit(c)
    PROVE  HttpInv'
<1>1. http[c].pc = "limit" /\ UNCHANGED sem
  BY Zenon DEF RateLimit
<1>2. PICK q \in ReqRecord : q = http[c] /\ ReqOK(q, options)
  BY Zenon DEF HttpInv
<1>3. PICK b : b = Bucket(http[c].r)
  BY Zenon
<1>4. \/ /\ used[b] < Burst
         /\ used' = [used EXCEPT ![b] = @ + 1]
         /\ http' = [http EXCEPT ![c].pc = "screen", ![c].passed = TRUE]
      \/ Answer(c, 429) /\ UNCHANGED used
      \/ (IF options.limiter = "closed" THEN Answer(c, 503) ELSE Step(c, "screen")) /\ UNCHANGED used
  BY Zenon, <1>3 DEF RateLimit
<1>5. CASE /\ used[b] < Burst
           /\ used' = [used EXCEPT ![b] = @ + 1]
           /\ http' = [http EXCEPT ![c].pc = "screen", ![c].passed = TRUE]
  <2>1. PICK x : x = [q EXCEPT !.pc = "screen", !.passed = TRUE]
    BY Zenon
  <2>2. /\ x \in ReqRecord /\ x.pc = "screen" /\ x.r = q.r /\ x.passed /\ x.badBody = q.badBody
        /\ x.ran = q.ran /\ x.cut = q.cut /\ x.status = q.status
    BY Zenon, <2>1 DEF ReqRecord
  <2>3. http' = [http EXCEPT ![c] = x]
    BY Zenon, <1>2, <1>5, <2>1 DEF HttpInv
  <2>4. ReqOK(x, options)
    BY Zenon, <1>1, <1>2, <2>2 DEF ReqOK
  <2>5. \A p : Holding(x, p) <=> Holding(http[c], p)
    BY Zenon, <1>1, <2>2 DEF Holding
  <2>6. SlotsOK'
    BY Zenon, <1>1, <2>3, <2>5, SlotsSame
  <2>7. b \in ReqBuckets /\ b = Bucket(x.r) /\ ~http[c].passed
    BY Zenon, <1>1, <1>2, <1>3, <2>2 DEF ReqOK, ReqBuckets
  <2>8. LimiterOK'
    BY Zenon, <1>5, <2>2, <2>3, <2>7, LimiterCounts
  <2> QED
    BY Zenon, <2>3, <2>4, <2>6, <2>8, OneRequest
<1>6. CASE (Answer(c, 429) \/ Answer(c, 503)) /\ UNCHANGED used
  <2>1. PICK n \in Nat : Answer(c, n)
    BY <1>6
  <2> QED
    BY Zenon, <1>1, <1>6, <2>1, TurnedAway
<1>7. CASE options.limiter # "closed" /\ Step(c, "screen") /\ UNCHANGED used
  <2>1. PICK x \in ReqRecord :
              /\ http' = [http EXCEPT ![c] = x]
              /\ x.pc = "screen" /\ x.r = http[c].r /\ x.passed = http[c].passed /\ x.badBody = http[c].badBody
              /\ x.ran = http[c].ran /\ x.cut = http[c].cut /\ x.status = http[c].status
    <3>1. PICK pc \in {"screen", "buffer", "route"} : pc = "screen" /\ Step(c, pc)
      BY Zenon, <1>7
    <3> QED
      BY Zenon, <3>1, Stepped
  <2>2. ReqOK(x, options)
    BY Zenon, <1>1, <1>2, <1>7, <2>1 DEF ReqOK
  <2>3. \A p : Holding(x, p) <=> Holding(http[c], p)
    BY Zenon, <1>1, <2>1 DEF Holding
  <2>4. \A o : Counted(x, o) <=> Counted(http[c], o)
    BY Zenon, <2>1 DEF Counted
  <2>5. SlotsOK'
    BY Zenon, <1>1, <2>1, <2>3, SlotsSame
  <2>6. LimiterOK'
    BY Zenon, <1>7, <2>1, <2>4, LimiterSame
  <2> QED
    BY Zenon, <2>1, <2>2, <2>5, <2>6, OneRequest
<1> QED
  BY Zenon, <1>4, <1>5, <1>6, <1>7

LEMMA ScreenStep ==
    ASSUME HttpInv, UNCHANGED options, NEW c \in Conn, Screen(c)
    PROVE  HttpInv'
<1>1. http[c].pc = "screen" /\ UNCHANGED <<sem, used>>
  BY Zenon DEF Screen
<1>2. PICK q \in ReqRecord : q = http[c] /\ ReqOK(q, options)
  BY Zenon DEF HttpInv
<1>3. \/ Answer(c, 405) \/ Answer(c, 413) \/ Answer(c, 404)
      \/ /\ q.r.chunked \/ q.r.size <= MaxBody
         /\ RouteOf(q.r.method, q.r.path) # {} /\ Step(c, "buffer")
  BY Zenon, <1>2, InnerOf DEF Screen
<1>4. CASE Answer(c, 405) \/ Answer(c, 413) \/ Answer(c, 404)
  <2>1. PICK n \in Nat : Answer(c, n)
    BY <1>4
  <2> QED
    BY Zenon, <1>1, <2>1, TurnedAway
<1>5. CASE /\ q.r.chunked \/ q.r.size <= MaxBody
           /\ RouteOf(q.r.method, q.r.path) # {} /\ Step(c, "buffer")
  <2>1. PICK x \in ReqRecord :
              /\ http' = [http EXCEPT ![c] = x]
              /\ x.pc = "buffer" /\ x.r = http[c].r /\ x.passed = http[c].passed /\ x.badBody = http[c].badBody
              /\ x.ran = http[c].ran /\ x.cut = http[c].cut /\ x.status = http[c].status
    <3>1. PICK pc \in {"screen", "buffer", "route"} : pc = "buffer" /\ Step(c, pc)
      BY Zenon, <1>5
    <3> QED
      BY Zenon, <3>1, Stepped
  <2>2. q.r.size > MaxBody => q.r.chunked
    <3>1. q.r.size \in Nat /\ MaxBody \in Nat
      BY Zenon, <1>1, <1>2, HttpServerAssumption DEF ReqOK
    <3> QED
      BY <1>5, <3>1
  <2>3. Screened(x, options)
    BY Zenon, <1>1, <1>2, <1>5, <2>1, <2>2 DEF Screened, ReqOK
  <2>4. ReqOK(x, options)
    BY Zenon, <1>1, <1>2, <2>1, <2>3 DEF ReqOK
  <2>5. \A p : Holding(x, p) <=> Holding(http[c], p)
    BY Zenon, <1>1, <2>1 DEF Holding
  <2>6. \A o : Counted(x, o) <=> Counted(http[c], o)
    BY Zenon, <2>1 DEF Counted
  <2>7. SlotsOK'
    BY Zenon, <1>1, <2>1, <2>5, SlotsSame
  <2>8. LimiterOK'
    BY Zenon, <1>1, <2>1, <2>6, LimiterSame
  <2> QED
    BY Zenon, <2>1, <2>4, <2>7, <2>8, OneRequest
<1> QED
  BY <1>3, <1>4, <1>5

LEMMA BufferBodyStep ==
    ASSUME HttpInv, UNCHANGED options, NEW c \in Conn, BufferBody(c)
    PROVE  HttpInv'
<1>1. http[c].pc = "buffer" /\ UNCHANGED <<sem, used>>
  BY Zenon DEF BufferBody
<1>2. PICK q \in ReqRecord : q = http[c] /\ ReqOK(q, options)
  BY Zenon DEF HttpInv
<1>3. PICK broken \in BOOLEAN : /\ q.r.size > MaxBody => broken
                                /\ http' = [http EXCEPT ![c].pc = Inner(@), ![c].badBody = broken]
  BY Zenon, <1>2 DEF BufferBody
<1>4. PICK x : x = [q EXCEPT !.pc = "slot", !.badBody = broken]
  BY Zenon
<1>5. /\ x \in ReqRecord /\ x.pc = "slot" /\ x.r = q.r /\ x.passed = q.passed /\ x.badBody = broken
      /\ x.ran = q.ran /\ x.cut = q.cut /\ x.status = q.status
  BY Zenon, <1>4 DEF ReqRecord
<1>6. http' = [http EXCEPT ![c] = x]
  BY Zenon, <1>1, <1>2, <1>3, <1>4, InnerOf DEF HttpInv
<1>7. Screened(x, options)
  BY Zenon, <1>1, <1>2, <1>5 DEF Screened, ReqOK
<1>8. ReqOK(x, options)
  BY Zenon, <1>1, <1>2, <1>3, <1>5, <1>7 DEF ReqOK
<1>9. \A p : Holding(x, p) <=> Holding(http[c], p)
  BY Zenon, <1>1, <1>5 DEF Holding
<1>10. \A o : Counted(x, o) <=> Counted(http[c], o)
  BY Zenon, <1>2, <1>5 DEF Counted
<1>11. SlotsOK'
  BY Zenon, <1>1, <1>6, <1>9, SlotsSame
<1>12. LimiterOK'
  BY Zenon, <1>1, <1>6, <1>10, LimiterSame
<1> QED
  BY Zenon, <1>6, <1>8, <1>11, <1>12, OneRequest

LEMMA PoolKnown == \A r : PoolOf(r) \in DOMAIN PoolSize
  BY Zenon, HttpServerAssumption DEF PoolOf

LEMMA TakeSlotStep ==
    ASSUME HttpInv, UNCHANGED options, NEW c \in Conn, TakeSlot(c)
    PROVE  HttpInv'
<1>1. http[c].pc = "slot" /\ UNCHANGED used
  BY Zenon DEF TakeSlot
<1>2. PICK q \in ReqRecord : q = http[c] /\ ReqOK(q, options)
  BY Zenon DEF HttpInv
<1>3. PICK p \in DOMAIN PoolSize : p = PoolOf(q.r)
  BY Zenon, PoolKnown
<1>4. CASE Answer(c, 503) /\ UNCHANGED sem
  <2>1. PICK n \in Nat : Answer(c, n)
    BY <1>4
  <2> QED
    BY Zenon, <1>1, <1>4, <2>1, TurnedAway
<1>5. CASE sem[p] < PoolSize[p] /\ sem' = [sem EXCEPT ![p] = @ + 1] /\ Step(c, "route")
  <2>1. PICK x \in ReqRecord :
              /\ http' = [http EXCEPT ![c] = x]
              /\ x.pc = "route" /\ x.r = http[c].r /\ x.passed = http[c].passed /\ x.badBody = http[c].badBody
              /\ x.ran = http[c].ran /\ x.cut = http[c].cut /\ x.status = http[c].status
    <3>1. PICK pc \in {"screen", "buffer", "route"} : pc = "route" /\ Step(c, pc)
      BY Zenon, <1>5
    <3> QED
      BY Zenon, <3>1, Stepped
  <2>2. Screened(x, options)
    BY Zenon, <1>1, <1>2, <2>1 DEF Screened, ReqOK
  <2>3. ReqOK(x, options)
    BY Zenon, <1>1, <1>2, <2>1, <2>2 DEF ReqOK
  <2>4. \A o : Counted(x, o) <=> Counted(http[c], o)
    BY Zenon, <2>1 DEF Counted
  <2>5. p = PoolOf(x.r)
    BY Zenon, <1>2, <1>3, <2>1
  <2>6. SlotsOK'
    BY Zenon, <1>1, <1>5, <2>1, <2>5, SlotTaken
  <2>7. LimiterOK'
    BY Zenon, <1>1, <2>1, <2>4, LimiterSame
  <2> QED
    BY Zenon, <2>1, <2>3, <2>6, <2>7, OneRequest
<1> QED
  BY Zenon, <1>2, <1>3, <1>4, <1>5, InnerOf DEF TakeSlot


LEMMA CrossOriginStep ==
    ASSUME HttpInv, UNCHANGED options, NEW c \in Conn, CrossOrigin(c)
    PROVE  HttpInv'
<1>1. http[c].pc = "route" /\ UNCHANGED used
  BY Zenon DEF CrossOrigin
<1>2. PICK q \in ReqRecord : q = http[c] /\ ReqOK(q, options)
  BY Zenon DEF HttpInv
<1>3. PICK r \in HttpReqs : r = q.r
  BY Zenon, <1>1, <1>2 DEF ReqOK
<1>4. PICK route \in RouteOf(r.method, r.path) : TRUE
  BY Zenon, <1>1, <1>2, <1>3 DEF ReqOK, Screened
<1>5. /\ (CHOOSE s \in RouteOf(r.method, r.path) : TRUE) = route
      /\ PolicyFor(r.method, r.path) = IF route.cors # NoPolicy THEN route.cors ELSE GlobalPolicy
      /\ route \in Routes
  BY Zenon, <1>4, PolicyOfServed
<1> DEFINE taken == CHOOSE s \in RouteOf(http[c].r.method, http[c].r.path) : TRUE
           own   == taken.cors # NoPolicy
           p     == IF own THEN taken.cors ELSE GlobalPolicy
           acao0 == IF own THEN Apply(p, http[c].r.origin) ELSE http[c].acao
           barred == options.csrf /\ CrossSite(http[c].r, p.origins) /\ ~(own /\ p.any)
           unknown == taken.private /\ taken \in options.authed /\ ~http[c].r.token
           ends0 == IF barred THEN 403 ELSE IF unknown THEN 401 ELSE 0
<1>6. IF ends0 = 0
      THEN http' = [http EXCEPT ![c].pc = Inner(@), ![c].acao = acao0, ![c].ran = TRUE] /\ UNCHANGED sem
      ELSE /\ http' = [http EXCEPT ![c].pc = "done", ![c].acao = acao0, ![c].status = ends0]
           /\ Release(c)
  BY Zenon DEF CrossOrigin
<1>7. taken = route
  BY Zenon, <1>2, <1>3, <1>5
<1> HIDE DEF taken
<1>8. PICK acao \in CorsHeaders : acao = acao0
  <2>1. q.acao \in CorsHeaders
    BY Zenon DEF ReqRecord
  <2> QED
    BY Zenon, <1>2, <1>3, <1>5, <1>7, <2>1, CorsTypes
<1>9. ends0 \in Nat /\ (ends0 = 0 => Admits(r, options))
  <2>1. ends0 \in Nat /\ (ends0 = 0 => ~barred /\ ~unknown)
    <3> HIDE DEF barred, unknown
    <3> QED
      OBVIOUS
  <2> HIDE DEF ends0
  <2>2. ASSUME ~barred, ~unknown PROVE Admits(r, options)
    <3>1. PolicyFor(r.method, r.path) = p
      BY Zenon, <1>5, <1>7
    <3> HIDE DEF p, own
    <3>2. options.csrf /\ CrossSite(r, p.origins) => p.any
      BY Zenon, <1>2, <1>3, <2>2
    <3>3. route.private /\ route \in options.authed => r.token
      BY Zenon, <1>2, <1>3, <1>7, <2>2
    <3> QED
      BY Zenon, <1>4, <3>1, <3>2, <3>3 DEF Admits
  <2> QED
    BY Zenon, <2>1, <2>2
<1> HIDE DEF acao0, ends0
<1>10. PICK ends \in Nat : ends = ends0
  BY Zenon, <1>9
<1>11. IF ends = 0
       THEN http' = [http EXCEPT ![c].pc = Inner(@), ![c].acao = acao, ![c].ran = TRUE] /\ UNCHANGED sem
       ELSE /\ http' = [http EXCEPT ![c].pc = "done", ![c].acao = acao, ![c].status = ends]
            /\ Release(c)
  BY Zenon, <1>6, <1>8, <1>10
<1>12. CASE ends = 0
  <2>1. Admits(r, options)
    BY Zenon, <1>9, <1>10, <1>12
  <2>2. PICK x : x = [q EXCEPT !.pc = "handler", !.acao = acao, !.ran = TRUE]
    BY Zenon
  <2>3. /\ x \in ReqRecord /\ x.pc = "handler" /\ x.r = q.r /\ x.passed = q.passed /\ x.badBody = q.badBody
        /\ x.ran /\ x.cut = q.cut /\ x.status = q.status
    BY Zenon, <2>2 DEF ReqRecord
  <2>4. http' = [http EXCEPT ![c] = x] /\ UNCHANGED sem
    <3>1. http' = [http EXCEPT ![c].pc = Inner(@), ![c].acao = acao, ![c].ran = TRUE] /\ UNCHANGED sem
      BY Zenon, <1>11, <1>12
    <3> QED
      BY Zenon, <1>1, <1>2, <2>2, <3>1, InnerOf DEF HttpInv
  <2>5. Screened(x, options)
    BY Zenon, <1>1, <1>2, <2>3 DEF Screened, ReqOK
  <2>6. ~Succeeded(x.status)
    <3>1. x.status = 0
      BY Zenon, <1>1, <1>2, <2>3 DEF ReqOK
    <3> QED
      BY <3>1 DEF Succeeded
  <2>7. ReqOK(x, options)
    BY Zenon, <1>1, <1>2, <1>3, <2>1, <2>3, <2>5, <2>6 DEF ReqOK
  <2>8. \A o : Holding(x, o) <=> Holding(http[c], o)
    BY Zenon, <1>1, <1>2, <2>3 DEF Holding
  <2>9. \A o : Counted(x, o) <=> Counted(http[c], o)
    BY Zenon, <1>2, <2>3 DEF Counted
  <2>10. SlotsOK'
    BY Zenon, <2>4, <2>8, SlotsSame
  <2>11. LimiterOK'
    BY Zenon, <1>1, <2>4, <2>9, LimiterSame
  <2> QED
    BY Zenon, <2>4, <2>7, <2>10, <2>11, OneRequest
<1>13. CASE ends # 0
  <2>1. PICK x : x = [q EXCEPT !.pc = "done", !.acao = acao, !.status = ends]
    BY Zenon
  <2>2. /\ x \in ReqRecord /\ x.pc = "done" /\ x.r = q.r /\ x.passed = q.passed /\ x.badBody = q.badBody
        /\ x.ran = q.ran /\ x.cut = q.cut /\ x.status = ends
    BY Zenon, <2>1 DEF ReqRecord
  <2>3. http' = [http EXCEPT ![c] = x] /\ Release(c)
    <3>1. http' = [http EXCEPT ![c].pc = "done", ![c].acao = acao, ![c].status = ends] /\ Release(c)
      BY Zenon, <1>11, <1>13
    <3> QED
      BY Zenon, <1>2, <2>1, <3>1 DEF HttpInv
  <2>4. ReqOK(x, options)
    BY Zenon, <1>1, <1>2, <2>2 DEF ReqOK
  <2>5. \A o : Counted(x, o) <=> Counted(http[c], o)
    BY Zenon, <1>2, <2>2 DEF Counted
  <2>6. LimiterOK'
    BY Zenon, <1>1, <2>3, <2>5, LimiterSame
  <2>7. PICK o \in DOMAIN PoolSize : o = PoolOf(http[c].r)
    BY Zenon, PoolKnown
  <2>8. sem' = [sem EXCEPT ![o] = @ - 1] /\ http[c].pc \in {"route", "handler"}
    BY Zenon, <1>1, <2>3, <2>7 DEF Release
  <2>9. SlotsOK'
    BY Zenon, <2>2, <2>3, <2>7, <2>8, SlotReleased
  <2> QED
    BY Zenon, <2>3, <2>4, <2>6, <2>9, OneRequest
<1> QED
  BY Zenon, <1>12, <1>13

LEMMA TimeoutTypes ==
    ASSUME NEW route \in Routes
    PROVE  WriteDeadline(route) \in Nat /\ RequestTimeout(route) \in Nat
<1>1. route.request \in Nat /\ route.write \in Nat /\ WSTimeouts.request \in Nat /\ WSTimeouts.write \in Nat
  <2>1. WSTimeouts \in [request : Nat, write : Nat]
    BY Zenon, HttpServerAssumption
  <2> QED
    BY Zenon, <2>1, HttpServerAssumption
<1> QED
  BY <1>1 DEF WriteDeadline, RequestTimeout, RouteWriteTimeout, OrDefault, DefaultRequestTimeout, DefaultWriteTimeout

\* A body over the cap is never parsed.
LEMMA OversizeRefused ==
    ASSUME NEW r, NEW bad \in BOOLEAN
    PROVE  /\ ParseRequestBody(r, bad) \in Nat
           /\ bad /\ r.size > MaxBody => ~Succeeded(ParseRequestBody(r, bad))
  BY DEF ParseRequestBody, Succeeded

LEMMA HandleStep ==
    ASSUME HttpInv, UNCHANGED options, NEW c \in Conn, Handle(c)
    PROVE  HttpInv'
<1>1. http[c].pc = "handler" /\ UNCHANGED used /\ Release(c)
  BY Zenon DEF Handle
<1>2. PICK q \in ReqRecord : q = http[c] /\ ReqOK(q, options)
  BY Zenon DEF HttpInv
<1>3. PICK r \in HttpReqs : r = q.r
  BY Zenon, <1>1, <1>2 DEF ReqOK
<1>4. PICK route \in RouteOf(r.method, r.path) : TRUE
  BY Zenon, <1>1, <1>2, <1>3 DEF ReqOK, Screened
<1>5. (CHOOSE s \in RouteOf(r.method, r.path) : TRUE) = route /\ route \in Routes
  BY Zenon, <1>4, PolicyOfServed
<1>6. PICK x : /\ http' = [http EXCEPT ![c] = x]
               /\ x \in ReqRecord /\ x.pc = "done" /\ x.r = q.r /\ x.passed = q.passed /\ x.badBody = q.badBody
               /\ x.ran = q.ran /\ (x.cut => WriteDeadline(route) <= RequestTimeout(route))
               /\ q.badBody /\ q.r.size > MaxBody => ~Succeeded(x.status)
  <2> DEFINE taken == CHOOSE s \in RouteOf(http[c].r.method, http[c].r.path) : TRUE
             tardy == WriteDeadline(taken) <= RequestTimeout(taken)
             code  == IF tardy THEN 0 ELSE 504
             parsed == ParseRequestBody(http[c].r, http[c].badBody)
             codes == {parsed, 500, 0}
             over  == http[c].badBody /\ http[c].r.size > MaxBody
  <2>1. \/ \E status \in codes : Answer(c, status)
        \/ http' = [http EXCEPT ![c].pc = "done", ![c].status = code, ![c].cut = tardy]
    BY Zenon DEF Handle
  <2>2. CASE \E status \in codes : Answer(c, status)
    <3>1. http[c].badBody \in BOOLEAN
      BY Zenon, <1>2 DEF ReqRecord
    <3>2. parsed \in Nat /\ (over => ~Succeeded(parsed))
      BY Zenon, <3>1, OversizeRefused
    <3>3. /\ \A n \in codes : n \in Nat
          /\ over => \A n \in codes : ~Succeeded(n)
      <4> HIDE DEF parsed, over
      <4> QED
        BY <3>2 DEF Succeeded
    <3> HIDE DEF codes
    <3>4. PICK n \in codes : Answer(c, n)
      BY Zenon, <2>2
    <3>5. n \in Nat
      BY Zenon, <3>3
    <3>6. q.badBody /\ q.r.size > MaxBody => ~Succeeded(n)
      BY Zenon, <1>2, <3>3
    <3>7. PICK x \in ReqRecord :
              /\ http' = [http EXCEPT ![c] = x]
              /\ x.pc = "done" /\ x.r = http[c].r /\ x.passed = http[c].passed /\ x.badBody = http[c].badBody
              /\ x.ran = http[c].ran /\ x.cut = http[c].cut /\ x.status = n
      <4>1. Answer(c, n)
        BY Zenon, <3>4
      <4> QED
        BY Zenon, <3>5, <4>1, AnsweredWith
    <3>8. ~q.cut
      BY Zenon, <1>1, <1>2 DEF ReqOK
    <3> QED
      BY Zenon, <1>2, <3>6, <3>7, <3>8
  <2>3. CASE http' = [http EXCEPT ![c].pc = "done", ![c].status = code, ![c].cut = tardy]
    <3>1. taken = route
      BY Zenon, <1>2, <1>3, <1>5
    <3>2. WriteDeadline(route) \in Nat /\ RequestTimeout(route) \in Nat
      BY Zenon, <1>5, TimeoutTypes
    <3>3. PICK cut \in BOOLEAN : cut = tardy
      <4>1. PICK w \in Nat, t \in Nat : w = WriteDeadline(taken) /\ t = RequestTimeout(taken)
        BY Zenon, <3>1, <3>2
      <4>2. (w <= t) \in BOOLEAN
        OBVIOUS
      <4> QED
        BY Zenon, <4>1, <4>2
    <3>4. cut => WriteDeadline(route) <= RequestTimeout(route)
      BY Zenon, <3>1, <3>3
    <3> HIDE DEF tardy
    <3>5. code \in Nat /\ ~Succeeded(code)
      BY DEF Succeeded
    <3> HIDE DEF code
    <3>6. PICK n \in Nat : n = code
      BY Zenon, <3>5
    <3>7. http' = [http EXCEPT ![c].pc = "done", ![c].status = n, ![c].cut = cut]
      BY Zenon, <2>3, <3>3, <3>6
    <3>8. PICK x : x = [q EXCEPT !.pc = "done", !.status = n, !.cut = cut]
      BY Zenon
    <3>9. /\ x \in ReqRecord /\ x.pc = "done" /\ x.r = q.r /\ x.passed = q.passed /\ x.badBody = q.badBody
          /\ x.ran = q.ran /\ x.cut = cut /\ x.status = n
      BY Zenon, <3>8 DEF ReqRecord
    <3>10. http' = [http EXCEPT ![c] = x]
      BY Zenon, <1>2, <3>7, <3>8 DEF HttpInv
    <3>11. ~Succeeded(x.status) /\ (x.cut => WriteDeadline(route) <= RequestTimeout(route))
      <4>1. x.status = code /\ x.cut = cut
        BY Zenon, <3>6, <3>9
      <4> QED
        BY Zenon, <3>4, <3>5, <4>1
    <3> QED
      BY Zenon, <3>9, <3>10, <3>11
  <2> QED
    BY Zenon, <2>1, <2>2, <2>3
<1>7. x.cut => \E s \in RouteOf(x.r.method, x.r.path) : s.request = 0 \/ s.write > 0
  BY Zenon, <1>3, <1>4, <1>5, <1>6, DeadlineAfterTimeout
<1>8. Screened(x, options) /\ (x.r.size > MaxBody => x.badBody)
  BY Zenon, <1>1, <1>2, <1>6 DEF Screened, ReqOK
<1>9. ReqOK(x, options)
  BY Zenon, <1>1, <1>2, <1>3, <1>6, <1>7, <1>8 DEF ReqOK
<1>10. \A o : Counted(x, o) <=> Counted(http[c], o)
  BY Zenon, <1>2, <1>6 DEF Counted
<1>11. LimiterOK'
  BY Zenon, <1>1, <1>6, <1>10, LimiterSame
<1>12. PICK o \in DOMAIN PoolSize : o = PoolOf(http[c].r)
  BY Zenon, PoolKnown
<1>13. sem' = [sem EXCEPT ![o] = @ - 1] /\ http[c].pc \in {"route", "handler"}
  BY Zenon, <1>1, <1>12 DEF Release
<1>14. SlotsOK'
  BY Zenon, <1>6, <1>12, <1>13, SlotReleased
<1> QED
  BY Zenon, <1>6, <1>9, <1>11, <1>14, OneRequest

LEMMA HttpStarts ==
    ASSUME HttpServerInit
    PROVE  HttpInv
<1>1. NoReq \in ReqRecord /\ NoReq.pc = "idle" /\ ~NoReq.passed /\ ~NoReq.ran /\ ~NoReq.cut /\ NoReq.status = 0
  <2>1. PICK o \in CorsHeaders, n \in Nat : o = NoCors /\ n = 0
    BY CorsTypes
  <2>2. NoReq = [pc |-> "idle", r |-> Nil, acao |-> o, passed |-> FALSE, badBody |-> FALSE,
                 ran |-> FALSE, cut |-> FALSE, status |-> n]
    BY Zenon, <2>1 DEF NoReq
  <2>3. NoReq \in ReqRecord
    BY Zenon, <2>2 DEF ReqRecord
  <2> QED
    BY Zenon, <2>1, <2>2, <2>3
<1>2. \A c \in Conn : http[c] = NoReq
  BY Zenon DEF HttpServerInit
<1>3. ReqOK(NoReq, options)
  BY Zenon, <1>1 DEF ReqOK
<1>4. \A p : Holders(p) = {}
  BY Zenon, <1>1, <1>2 DEF Holders, Holding
<1>5. \A b : Takers(b) = {}
  BY Zenon, <1>1, <1>2 DEF Takers, Counted
<1>6. Cardinality({}) = 0
  BY FS_EmptySet
<1>7. \A p \in DOMAIN PoolSize : 0 <= PoolSize[p]
  BY HttpServerAssumption
<1>8. 0 <= Burst /\ 0 \in Nat
  BY HttpServerAssumption
<1>9. SlotsOK
  BY Zenon, <1>4, <1>6, <1>7, <1>8 DEF HttpServerInit, SlotsOK
<1>10. LimiterOK
  BY Zenon, <1>5, <1>6, <1>8 DEF HttpServerInit, LimiterOK
<1> QED
  BY Zenon, <1>1, <1>2, <1>3, <1>9, <1>10 DEF HttpServerInit, HttpInv

LEMMA HttpStep ==
    ASSUME HttpInv, [HttpServerNext]_httpVars
    PROVE  HttpInv'
<1>1. CASE UNCHANGED httpVars
  BY Zenon, <1>1 DEF httpVars, HttpInv, SlotsOK, LimiterOK, Holders, Takers
<1>2. CASE HttpServerNext
  <2>1. UNCHANGED options
    BY Zenon, <1>2 DEF HttpServerNext
  <2>2. PICK c \in Conn : \/ Accept(c) \/ RateLimit(c) \/ Screen(c) \/ BufferBody(c)
                          \/ TakeSlot(c) \/ CrossOrigin(c) \/ Handle(c)
    BY Zenon, <1>2 DEF HttpServerNext
  <2> QED
    BY Zenon, <2>1, <2>2, AcceptStep, RateLimitStep, ScreenStep, BufferBodyStep, TakeSlotStep, CrossOriginStep,
       HandleStep
<1> QED
  BY Zenon, <1>1, <1>2

LEMMA HttpImplies ==
    ASSUME HttpInv
    PROVE  HandlerGuarded
<1>1. ASSUME NEW c \in Conn, http[c].ran
      PROVE  LET r == http[c].r
                 p == PolicyFor(r.method, r.path)
             IN  /\ options.limiter = "closed" => http[c].passed
                 /\ \E s \in RouteOf(r.method, r.path) : s.private /\ s \in options.authed => r.token
                 /\ options.csrf /\ CrossSite(r, p.origins) => p.any
                 /\ http[c].cut => \E s \in RouteOf(r.method, r.path) : s.request = 0 \/ s.write > 0
                 /\ r.size > MaxBody => r.chunked /\ http[c].status \notin {200, 204}
  <2>1. PICK x : x = http[c] /\ ReqOK(x, options) /\ x.ran
    BY Zenon, <1>1 DEF HttpInv
  <2>2. Screened(x, options) /\ Admits(x.r, options)
    BY Zenon, <2>1 DEF ReqOK
  <2>3. /\ x.cut => \E s \in RouteOf(x.r.method, x.r.path) : s.request = 0 \/ s.write > 0
        /\ x.r.size > MaxBody => ~Succeeded(x.status)
    BY Zenon, <2>1 DEF ReqOK
  <2>4. ASSUME http[c].r.size > MaxBody
        PROVE  http[c].r.chunked /\ http[c].status \notin {200, 204}
    <3>1. x.r.chunked /\ ~Succeeded(x.status)
      BY Zenon, <2>1, <2>2, <2>3, <2>4 DEF Screened
    <3>2. http[c].r.chunked /\ ~Succeeded(http[c].status)
      BY Zenon, <2>1, <3>1
    <3> QED
      BY Zenon, <3>2 DEF Succeeded
  <2>5. /\ options.limiter = "closed" => http[c].passed
        /\ \E s \in RouteOf(http[c].r.method, http[c].r.path) :
             s.private /\ s \in options.authed => http[c].r.token
        /\ options.csrf /\ CrossSite(http[c].r, PolicyFor(http[c].r.method, http[c].r.path).origins)
             => PolicyFor(http[c].r.method, http[c].r.path).any
    BY Zenon, <2>1, <2>2 DEF Screened, Admits
  <2>6. http[c].cut => \E s \in RouteOf(http[c].r.method, http[c].r.path) : s.request = 0 \/ s.write > 0
    BY Zenon, <2>1, <2>3
  <2> QED
    BY Zenon, <2>4, <2>5, <2>6
<1>2. ASSUME NEW p \in DOMAIN PoolSize
      PROVE  /\ sem[p] = Cardinality({c \in Conn : http[c].pc \in {"route", "handler"} /\ PoolOf(http[c].r) = p})
             /\ sem[p] <= PoolSize[p]
  BY Zenon DEF HttpInv, SlotsOK, Holders, Holding
<1>3. ASSUME NEW a \in {ResolveClientIP(r) : r \in HttpReqs}
      PROVE  Cardinality({c \in Conn : /\ http[c].ran /\ http[c].passed
                                       /\ http[c].r.key \notin KnownKeys
                                       /\ ResolveClientIP(http[c].r) = a}) <= Burst
  <2> DEFINE S == {c \in Conn : /\ http[c].ran /\ http[c].passed
                                /\ http[c].r.key \notin KnownKeys
                                /\ ResolveClientIP(http[c].r) = a}
  <2>1. CASE S = {}
    <3>1. Cardinality({}) = 0 /\ 0 <= Burst
      BY FS_EmptySet, HttpServerAssumption
    <3> QED
      BY Zenon, <2>1, <3>1
  <2>2. CASE S # {}
    <3>1. PICK b : b = <<"ip", a>>
      BY Zenon
    <3>2. \A c \in S : Counted(http[c], b) /\ Bucket(http[c].r) = b
      BY Zenon, <3>1 DEF Counted, Bucket
    <3>3. S \subseteq Takers(b)
      BY Zenon, <3>2 DEF Takers
    <3>4. PICK c \in Conn : c \in S /\ http[c].r \in HttpReqs
      <4>1. PICK c \in Conn : c \in S
        BY Zenon, <2>2
      <4>2. ReqOK(http[c], options) /\ http[c].ran
        BY Zenon, <4>1 DEF HttpInv
      <4> QED
        BY Zenon, <4>1, <4>2 DEF ReqOK
    <3>5. b \in ReqBuckets
      BY Zenon, <3>2, <3>4 DEF ReqBuckets
    <3>6. used[b] = Cardinality(Takers(b)) /\ used[b] <= Burst
      BY Zenon, <3>5 DEF HttpInv, LimiterOK
    <3>7. Takers(b) \in SUBSET Conn
      BY Zenon DEF Takers
    <3>8. IsFiniteSet(Takers(b)) /\ Cardinality(Takers(b)) \in Nat
      BY Zenon, <3>7, ConnFinite
    <3>9. PICK T : T = Takers(b)
      BY Zenon
    <3>10. PICK U : U = S
      BY Zenon
    <3>11. U \subseteq T /\ IsFiniteSet(T)
      BY Zenon, <3>3, <3>8, <3>9, <3>10
    <3>12. Cardinality(U) <= Cardinality(T) /\ Cardinality(U) \in Nat
      BY <3>11, FS_Subset, FS_CardinalityType
    <3>13. PICK m \in Nat, n \in Nat : m = Cardinality(U) /\ n = Cardinality(T)
      BY Zenon, <3>8, <3>9, <3>12
    <3>14. m <= n /\ n <= Burst
      BY Zenon, <3>6, <3>9, <3>12, <3>13
    <3>15. m <= Burst
      BY <3>14, HttpServerAssumption
    <3> QED
      BY Zenon, <3>10, <3>13, <3>15
  <2> QED
    BY Zenon, <2>1, <2>2
<1> QED
  BY Zenon, <1>1, <1>2, <1>3 DEF HandlerGuarded

\* Whatever else is served at the same time, a route's handler runs only for a
\* request that those of the limiter, the body cap, CrossOriginProtection with that
\* route's policy and auth that the server was built with let through (NewServer,
\* registerRoute); the slots taken are those of the requests inside, within the
\* pool; and the limiter lets at most Burst requests of one address through.
THEOREM HandlersAreGuarded == HttpServerSpec => []HandlerGuarded
<1>1. HttpServerInit => HttpInv
  BY Zenon, HttpStarts
<1>2. HttpInv /\ [HttpServerNext]_httpVars => HttpInv'
  BY Zenon, HttpStep
<1>3. HttpInv => HandlerGuarded
  BY Zenon, HttpImplies
<1> QED
  BY <1>1, <1>2, <1>3, PTL DEF HttpServerSpec

-----------------------------------------------------------------------------
(* Tokens: what the configuration of a release makes of its provider.      *)

Served == {g \in DOMAIN Releases : New(Releases[g])}

\* What the defaults leave of the security settings.
LEMMA Defaults ==
    ASSUME NEW g \in DOMAIN Releases
    PROVE  LET sec == ApplyDefaults(Releases[g].sec) IN
           /\ sec.ttl \in Nat /\ sec.ttl # 0 /\ "ticket" \in DOMAIN sec /\ "ttl" \in DOMAIN sec
           /\ sec.skew \in Nat /\ sec.skew = Releases[g].sec.skew
           /\ sec.audience = Releases[g].sec.audience
  <1>1. DefaultTTL \in Nat /\ DefaultTTL # 0
    BY Zenon, TokensAssumption
  <1>2. PICK sec : sec = Releases[g].sec
    BY Zenon
  <1>3. /\ sec.ttl \in Nat /\ sec.skew \in Nat
        /\ {"ttl", "refresh", "lifetime", "issuer", "verify", "audience", "skew", "ticket"} \subseteq DOMAIN sec
    BY Zenon, <1>2, ReleasesAssumption
  <1>4. /\ ApplyDefaults(sec).ttl = IF sec.ttl = 0 THEN DefaultTTL ELSE sec.ttl
        /\ ApplyDefaults(sec).skew = sec.skew /\ ApplyDefaults(sec).audience = sec.audience
        /\ DOMAIN ApplyDefaults(sec) = DOMAIN sec
    BY <1>3 DEF ApplyDefaults
  <1> QED BY Zenon, <1>1, <1>2, <1>3, <1>4

LEMMA SecurityTypes ==
    ASSUME NEW g \in DOMAIN Releases
    PROVE  Security(Releases[g]).ttl \in Nat /\ Security(Releases[g]).ttl # 0
  <1>1. PICK sec : sec = ApplyDefaults(Releases[g].sec)
    BY Zenon
  <1>2. sec.ttl \in Nat /\ sec.ttl # 0 /\ "ticket" \in DOMAIN sec /\ "ttl" \in DOMAIN sec
    BY Zenon, <1>1, Defaults
  <1>3. WithTicketSecret(sec, Releases[g].default.secret).ttl = sec.ttl
    BY Zenon, <1>2 DEF WithTicketSecret
  <1> QED BY Zenon, <1>1, <1>2, <1>3 DEF Security

\* The provider of a release is its configuration, with an algorithm.
LEMMA ProviderOfDefault ==
    ASSUME NEW g \in DOMAIN Releases, Releases[g].default.use
    PROVE  LET c == Provider(Releases[g])
               d == Releases[g].default
           IN  /\ c.alg = "HS256" /\ c.secret = d.secret /\ c.kid = d.kid /\ c.keys = PreviousKeys(d)
               /\ c.issuer = ApplyDefaults(Releases[g].sec).issuer
               /\ c.audience = Releases[g].sec.audience /\ c.leeway = Releases[g].sec.skew
  BY Defaults, ReleasesAssumption DEF Provider, WithAlgorithm, JwtConfig

\* A provider verifies what it signs.
LEMMA Signs ==
    ASSUME NEW g \in Served
    PROVE  LET c == Provider(Releases[g]) IN
           /\ SigningMethod(c) = c.alg /\ CanSign(SigningMethod(c), SigningKey(c))
           /\ SigningKey(c).id = VerificationKey(c).id
  <1>1. g \in DOMAIN Releases /\ ValidateKeys(WithAlgorithm(JwtConfig(Releases[g])))
    BY Zenon DEF Served, New, NewProvider
  <1>2. PICK c : c = JwtConfig(Releases[g])
    BY Zenon
  <1>3. {"alg", "secret", "priv", "pub", "ttl"} \subseteq DOMAIN c
    BY <1>1, <1>2, ReleasesAssumption DEF JwtConfig
  <1>4. PICK w : w = WithAlgorithm(c)
    BY Zenon
  <1>5. {"alg", "secret", "priv", "pub", "ttl"} \subseteq DOMAIN w
    BY <1>3, <1>4 DEF WithAlgorithm
  <1>6. PICK v : v = Provider(Releases[g])
    BY Zenon
  <1>7. v.alg = w.alg /\ v.secret = w.secret /\ v.priv = w.priv /\ v.pub = w.pub
    BY <1>2, <1>4, <1>5, <1>6 DEF Provider
  <1>8. ValidateKeys(w)
    BY Zenon, <1>1, <1>2, <1>4
  <1> QED BY <1>6, <1>7, <1>8
       DEF ValidateKeys, CheckSecret, CheckRSAPrivate, CheckP256Private, SigningMethod, SigningKey, VerificationKey, CanSign

LEMMA Leeway ==
    ASSUME NEW g \in DOMAIN Releases
    PROVE  Provider(Releases[g]).leeway \in Nat
  <1>1. PICK c : c = JwtConfig(Releases[g])
    BY Zenon
  <1>2. {"alg", "ttl", "leeway"} \subseteq DOMAIN c /\ c.leeway \in Nat
    <2>1. ApplyDefaults(Releases[g].sec).skew \in Nat
      BY Zenon, Defaults
    <2>2. CASE Releases[g].default.use
      BY <1>1, <2>1, <2>2 DEF JwtConfig
    <2>3. CASE ~Releases[g].default.use
      BY Zenon, <1>1, <2>3, ReleasesAssumption DEF JwtConfig
    <2> QED BY Zenon, <2>2, <2>3
  <1>3. PICK w : w = WithAlgorithm(c)
    BY Zenon
  <1>4. {"alg", "ttl", "leeway"} \subseteq DOMAIN w /\ w.leeway \in Nat
    BY <1>2, <1>3 DEF WithAlgorithm
  <1> QED BY <1>1, <1>3, <1>4 DEF Provider
-----------------------------------------------------------------------------
(* A token is valid at its own release and at the one rotated from it.     *)

\* The token of session s, issued at release g for tenant t until e.
TokenOf(g, t, s, e) ==
    LET c == Provider(Releases[g]) IN
    [alg |-> SigningMethod(c), kid |-> c.kid, key |-> SigningKey(c).id, iss |-> c.issuer, aud |-> Audience(c),
     exp |-> e, claims |-> ClaimsOf(s, t)]

\* A token the provider's keys and options accept.
Accepted(c, t) ==
    /\ t.alg = c.alg /\ t.key \in {k.id : k \in KeyFor(c, t.kid)}
    /\ ParserOptions(c, t)

LEMMA OwnToken ==
    ASSUME NEW g \in Served, NEW t, NEW s, NEW e
    PROVE  Accepted(Provider(Releases[g]), TokenOf(g, t, s, e))
  <1>1. PICK c : c = Provider(Releases[g])
    BY Zenon
  <1>2. PICK x : x = TokenOf(g, t, s, e)
    BY Zenon
  <1>3. /\ x.alg = SigningMethod(c) /\ x.kid = c.kid /\ x.key = SigningKey(c).id /\ x.iss = c.issuer
        /\ x.aud = Audience(c)
    BY <1>1, <1>2 DEF TokenOf
  <1>4. x.alg = c.alg /\ x.key = VerificationKey(c).id
    BY Zenon, <1>1, <1>3, Signs
  <1>5. VerificationKey(c) \in KeyFor(c, x.kid)
    BY Zenon, <1>3 DEF KeyFor
  <1>6. ParserOptions(c, x)
    BY Zenon, <1>3 DEF ParserOptions, Audience
  <1> QED BY Zenon, <1>1, <1>2, <1>4, <1>5, <1>6 DEF Accepted

LEMMA RotatedToken ==
    ASSUME NEW g \in Served, NEW h \in Served, Rotates(g, h), NEW t, NEW s, NEW e
    PROVE  Accepted(Provider(Releases[g]), TokenOf(h, t, s, e))
  <1>1. PICK c : c = Provider(Releases[g])
    BY Zenon
  <1>2. PICK b : b = Provider(Releases[h])
    BY Zenon
  <1>3. PICK x : x = TokenOf(h, t, s, e)
    BY Zenon
  <1>4. PICK new, old : new = Releases[g].default /\ old = Releases[h].default
    BY Zenon
  <1>5. /\ new.use /\ old.use /\ new.prevSecret = old.secret /\ new.prevKid = old.kid
        /\ new.kid # old.kid \/ old.kid = ""
        /\ ApplyDefaults(Releases[g].sec).issuer = ApplyDefaults(Releases[h].sec).issuer
        /\ Releases[g].sec.audience \in {"", Releases[h].sec.audience}
    BY Zenon, <1>4 DEF Rotates
  <1>6. /\ c.alg = "HS256" /\ c.kid = new.kid /\ c.keys = PreviousKeys(new)
        /\ c.issuer = b.issuer /\ c.audience \in {"", b.audience}
        /\ b.alg = "HS256" /\ b.secret = old.secret /\ b.kid = old.kid
    BY Zenon, <1>1, <1>2, <1>4, <1>5, ProviderOfDefault DEF Served
  <1>7. /\ x.alg = "HS256" /\ x.kid = old.kid /\ x.key = old.secret.id /\ x.iss = c.issuer
        /\ x.aud = Audience(b)
    BY <1>2, <1>3, <1>6 DEF TokenOf, SigningMethod, SigningKey
  <1>8. old.secret # NoKey
    <2>1. ValidateKeys(WithAlgorithm(JwtConfig(Releases[h])))
      BY Zenon DEF Served, New, NewProvider
    <2>2. CheckSecret(old.secret)
      BY <1>4, <1>5, <2>1 DEF ValidateKeys, WithAlgorithm, JwtConfig
    <2>3. old.secret.type = "bytes"
      BY Zenon, <2>2 DEF CheckSecret
    <2>4. NoKey.type = "nil"
      BY DEF NoKey, Key
    <2> QED BY <2>3, <2>4
  <1>9. c.keys = [k \in {old.kid} |-> old.secret]
    BY Zenon, <1>5, <1>6, <1>8 DEF PreviousKeys
  <1>10. DOMAIN c.keys = {old.kid} /\ c.keys[old.kid] = old.secret /\ old.secret \in Range(c.keys)
    BY Zenon, <1>9 DEF Range
  <1>11. old.secret \in KeyFor(c, x.kid)
    BY Zenon, <1>5, <1>6, <1>7, <1>10 DEF KeyFor
  <1>12. ParserOptions(c, x)
    BY Zenon, <1>6, <1>7 DEF ParserOptions, Audience
  <1> QED BY Zenon, <1>1, <1>3, <1>6, <1>7, <1>11, <1>12 DEF Accepted

\* ... until it expires.
LEMMA AcceptedIsValid ==
    ASSUME NEW c, NEW t, moment \in Nat, t.exp \in Nat, c.leeway \in Nat
    PROVE  /\ Accepted(c, t) /\ moment < t.exp => ParseToken(c, t) = "valid"
           /\ ParseToken(c, t) = "valid" => /\ t.key \in {k.id : k \in KeyFor(c, t.kid)}
                                           /\ moment < t.exp + c.leeway
  <1>1. moment < t.exp => ~(moment >= t.exp + c.leeway)
    OBVIOUS
  <1>2. ~(moment >= t.exp + c.leeway) => moment < t.exp + c.leeway
    OBVIOUS
  <1> QED BY Zenon, <1>1, <1>2 DEF Accepted, ParseToken

LEMMA KeysKnown ==
    ASSUME NEW g \in DOMAIN Releases, NEW kid
    PROVE  {k.id : k \in KeyFor(Provider(Releases[g]), kid)} \subseteq KeysGiven(g)
  BY Zenon DEF KeyFor, KeysGiven, Range

\* The roles of the claims grant what they list.
LEMMA Granted ==
    ASSUME NEW claims, NEW req
    PROVE  Enforce(claims, req.resource, req.action) <=> Listed(claims, req)
  <1>1. ASSUME Enforce(claims, req.resource, req.action) PROVE Listed(claims, req)
    <2>1. PICK i \in DOMAIN claims.roles :
             /\ claims.roles[i] \in DOMAIN Perms /\ req.resource \in DOMAIN Perms[claims.roles[i]]
             /\ \E a \in Range(Perms[claims.roles[i]][req.resource]) : a = req.action \/ a = "*"
      BY Zenon, <1>1 DEF Enforce
    <2>2. PICK role : role = claims.roles[i]
      BY Zenon
    <2>3. PICK a \in Range(Perms[role][req.resource]) : a = req.action \/ a = "*"
      BY Zenon, <2>1, <2>2
    <2>4. role \in Range(claims.roles) \cap DOMAIN Perms /\ req.resource \in DOMAIN Perms[role]
      BY Zenon, <2>1, <2>2 DEF Range
    <2>5. req.resource \in DOMAIN Permissions(claims)
      BY Zenon, <2>4 DEF Permissions
    <2>6. a \in Permissions(claims)[req.resource]
      BY Zenon, <2>3, <2>4, <2>5 DEF Permissions
    <2> QED BY Zenon, <2>3, <2>5, <2>6 DEF Listed
  <1>2. ASSUME Listed(claims, req) PROVE Enforce(claims, req.resource, req.action)
    <2>1. PICK a \in Permissions(claims)[req.resource] : a = req.action \/ a = "*"
      BY Zenon, <1>2 DEF Listed
    <2>2. req.resource \in DOMAIN Permissions(claims)
      BY Zenon, <1>2 DEF Listed
    <2>3. PICK role \in Range(claims.roles) \cap DOMAIN Perms :
             req.resource \in DOMAIN Perms[role] /\ a \in Range(Perms[role][req.resource])
      BY Zenon, <2>1, <2>2 DEF Permissions
    <2>4. PICK i \in DOMAIN claims.roles : claims.roles[i] = role
      BY Zenon, <2>3 DEF Range
    <2> QED BY Zenon, <2>1, <2>3, <2>4 DEF Enforce
  <1> QED BY Zenon, <1>1, <1>2

-----------------------------------------------------------------------------
(* The invariant.                                                          *)

Minted ==
    {[token |-> TokenOf(x[1], x[2], x[3], x[4]), by |-> x[1]] : x \in Served \X (DOMAIN RoleOf) \X (Nat \ {0}) \X Nat}

Auths == {"auth", "unary", "stream"}
Chain(req) == IF req.via = "http" THEN req.guards ELSE <<req.via>>

Starts == [moment : Nat, ticket : {NoTicket}, live : SUBSET Nat, access : SUBSET (DOMAIN RoleOf)]

\* The requests under way or answered: what is fixed on arrival.
RequestCall ==
    [pc : {"guards", "session", "done"}, req : Requests, by : Served, sid : DOMAIN issued,
     left : Seq(Guards \cup Auths), claims : {NoClaims} \cup {issued[i].token.claims : i \in DOMAIN issued},
     answer : {"none", "unauthorized", "forbidden", "handled"}, start : Starts]

\* What the token showed when it was parsed, and what a guard that the request
\* has passed saw.
TokenSeen ==
    /\ issued[call.sid].token.key \in KeysGiven(call.by)
    /\ call.start.moment < issued[call.sid].token.exp + Provider(Releases[call.by]).leeway
Bearer ==
    /\ call.claims = issued[call.sid].token.claims
    /\ TokenSeen /\ call.sid \in call.start.live
Past(guard) ==
    /\ guard \in Auths => IsPublic(call.req) \/ Bearer
    /\ guard = "rbac" => Listed(issued[call.sid].token.claims, call.req)
    /\ guard = "tenant" => issued[call.sid].token.claims.tenant \in call.start.access

UnderWay ==
    /\ Range(call.left) \subseteq Range(Chain(call.req))
    /\ \A guard \in Range(Chain(call.req)) \ Range(call.left) : Past(guard)
    /\ call.left = Chain(call.req) \/ Past(Head(Chain(call.req)))
    /\ call.pc = "session" =>
          call.left # <<>> /\ Head(call.left) \in Auths /\ ~IsPublic(call.req) /\ TokenSeen

RequestOK ==
    /\ call \in RequestCall
    /\ call.claims \in {NoClaims, issued[call.sid].token.claims}
    /\ call.start.moment <= moment /\ live \subseteq call.start.live /\ access \subseteq call.start.access
    /\ call.pc # "done" => UnderWay
    /\ call.pc = "done" => TokensHonoured

SelectOK == call.pc = "done" /\ call.req.via = "select" /\ TicketHonoured

TokensTypes ==
    /\ moment \in Nat /\ fleet \subseteq Served /\ live \in SUBSET Nat /\ access \in SUBSET (DOMAIN RoleOf)
    /\ {"key", "exp", "used"} \subseteq DOMAIN ticket /\ ticket.exp \in Nat /\ (ticket.key = NoKey => ticket.used)
    /\ issued \in Seq(Minted)

TokensInv == TokensTypes /\ (call = NoneCalled \/ SelectOK \/ RequestOK)

\* What is known of a token issued.
LEMMA TokenFacts ==
    ASSUME TokensTypes, NEW i \in DOMAIN issued
    PROVE  \E g \in Served, t \in DOMAIN RoleOf, s \in Nat \ {0}, e \in Nat :
             issued[i].token = TokenOf(g, t, s, e) /\ issued[i].by = g
  <1>1. issued[i] \in Minted
    BY DEF TokensTypes
  <1>2. PICK x \in Served \X (DOMAIN RoleOf) \X (Nat \ {0}) \X Nat :
           issued[i] = [token |-> TokenOf(x[1], x[2], x[3], x[4]), by |-> x[1]]
    BY Zenon, <1>1 DEF Minted
  <1>3. x[1] \in Served /\ x[2] \in DOMAIN RoleOf /\ x[3] \in Nat \ {0} /\ x[4] \in Nat
    BY Zenon
  <1>4. issued[i].token = TokenOf(x[1], x[2], x[3], x[4]) /\ issued[i].by = x[1]
    BY <1>2
  <1> QED BY Zenon, <1>3, <1>4

LEMMA TokenTypes ==
    ASSUME TokensTypes, NEW i \in DOMAIN issued
    PROVE  issued[i].token.exp \in Nat /\ issued[i].token.claims # NoClaims
  <1>1. PICK g \in Served, t \in DOMAIN RoleOf, s \in Nat \ {0}, e \in Nat : issued[i].token = TokenOf(g, t, s, e)
    BY Zenon, TokenFacts
  <1>2. issued[i].token.exp = e /\ issued[i].token.claims = ClaimsOf(s, t)
    BY <1>1 DEF TokenOf
  <1>3. ClaimsOf(s, t).sid = s /\ NoClaims.sid = 0
    BY DEF ClaimsOf, NoClaims
  <1> QED BY <1>2, <1>3

\* Parsing at the release the request reached.
LEMMA ParsedFacts ==
    ASSUME TokensTypes, RequestOK
    PROVE  /\ Parsed = "valid" => TokenSeen
           /\ Rightful => Parsed = "valid"
  <1>1. PICK i \in DOMAIN issued : i = call.sid
    BY Zenon DEF RequestOK, RequestCall
  <1>2. PICK b \in Served : b = call.by
    BY Zenon DEF RequestOK, RequestCall
  <1>3. PICK c : c = Provider(Releases[b])
    BY Zenon
  <1>4. PICK x : x = issued[i].token
    BY Zenon
  <1>5. c.leeway \in Nat /\ x.exp \in Nat /\ moment \in Nat /\ Parsed = ParseToken(c, x) /\ b \in DOMAIN Releases
    BY Zenon, <1>1, <1>2, <1>3, <1>4, Leeway, TokenTypes DEF Served, TokensTypes, Parsed
  <1>6. Accepted(c, x) /\ moment < x.exp => ParseToken(c, x) = "valid"
    BY Zenon, <1>5, AcceptedIsValid
  <1>7. ParseToken(c, x) = "valid" => x.key \in {k.id : k \in KeyFor(c, x.kid)} /\ moment < x.exp + c.leeway
    BY Zenon, <1>5, AcceptedIsValid
  <1>8. Parsed = "valid" => TokenSeen
    <2> SUFFICES ASSUME Parsed = "valid" PROVE TokenSeen
      BY Zenon
    <2>1. x.key \in KeysGiven(b)
      BY Zenon, <1>3, <1>5, <1>7, KeysKnown
    <2>2. call.start.moment \in Nat /\ call.start.moment <= moment
      BY Zenon DEF RequestOK, RequestCall, Starts
    <2>3. PICK m \in Nat : m = call.start.moment
      BY Zenon, <2>2
    <2>4. m < x.exp + c.leeway
      BY <1>5, <1>7, <2>2, <2>3
    <2> QED BY Zenon, <1>1, <1>2, <1>3, <1>4, <2>1, <2>3, <2>4 DEF TokenSeen
  <1>9. ASSUME Rightful PROVE Parsed = "valid"
    <2>1. PICK g \in Served, t \in DOMAIN RoleOf, s \in Nat \ {0}, e \in Nat :
             x = TokenOf(g, t, s, e) /\ issued[i].by = g
      BY Zenon, <1>4, TokenFacts
    <2>2. b = g \/ Rotates(b, g)
      BY Zenon, <1>1, <1>2, <1>9, <2>1 DEF Rightful
    <2>3. Accepted(c, x)
      BY Zenon, <1>3, <2>1, <2>2, OwnToken, RotatedToken
    <2>4. moment < x.exp
      BY Zenon, <1>1, <1>4, <1>9 DEF Rightful
    <2> QED BY Zenon, <1>5, <1>6, <2>3, <2>4
  <1> QED BY Zenon, <1>8, <1>9

\* A guard taken off the chain.
LEMMA Taken ==
    ASSUME NEW S, NEW s \in Seq(S), s # <<>>
    PROVE  /\ Head(s) \in S /\ Tail(s) \in Seq(S)
           /\ Range(s) = {Head(s)} \cup Range(Tail(s))
  <1>1. Len(s) \in Nat /\ Len(s) > 0 /\ DOMAIN s = 1 .. Len(s) /\ Head(s) = s[1] /\ Tail(s) \in Seq(S)
        /\ Len(Tail(s)) = Len(s) - 1 /\ DOMAIN Tail(s) = 1 .. Len(s) - 1
        /\ \A i \in 1 .. Len(s) - 1 : Tail(s)[i] = s[i + 1]
    OBVIOUS
  <1>2. \A i \in DOMAIN s : i = 1 \/ (i - 1 \in DOMAIN Tail(s) /\ Tail(s)[i - 1] = s[i])
    BY <1>1
  <1>3. \A i \in DOMAIN Tail(s) : i + 1 \in DOMAIN s /\ Tail(s)[i] = s[i + 1]
    BY <1>1
  <1>4. 1 \in DOMAIN s /\ s[1] \in S
    BY <1>1
  <1>5. \A v : v \in Range(s) <=> \E i \in DOMAIN s : s[i] = v
    BY Zenon DEF Range
  <1>6. \A v : v \in Range(Tail(s)) <=> \E i \in DOMAIN Tail(s) : Tail(s)[i] = v
    BY Zenon DEF Range
  <1> QED BY Zenon, <1>1, <1>2, <1>3, <1>4, <1>5, <1>6

-----------------------------------------------------------------------------
(* Steps of a request.                                                     *)

SameRequest == call'.req = call.req /\ call'.by = call.by /\ call'.sid = call.sid /\ call'.start = call.start

LEMMA TypesStay == TokensTypes /\ Keeps => TokensTypes'
  BY Zenon DEF TokensTypes, Keeps, Minted

LEMMA SameCalls == issued' = issued => RequestCall' = RequestCall
  BY Zenon DEF RequestCall

\* What was seen stays seen.
LEMMA PastStays ==
    ASSUME issued' = issued, SameRequest,
           call'.claims \in {call.claims, issued[call.sid].token.claims}
    PROVE  /\ TokenSeen => TokenSeen'
           /\ \A guard : Past(guard) => Past(guard)'
  <1>1. TokenSeen => TokenSeen'
    BY Zenon DEF TokenSeen, SameRequest
  <1>2. Bearer => Bearer'
    BY Zenon, <1>1 DEF Bearer, SameRequest
  <1> QED BY Zenon, <1>1, <1>2 DEF Past, SameRequest

LEMMA CallFields ==
    ASSUME NEW k \in RequestCall
    PROVE  /\ k.req \in Requests /\ k.by \in Served /\ k.sid \in DOMAIN issued /\ k.left \in Seq(Guards \cup Auths)
           /\ k.claims \in {NoClaims} \cup {issued[i].token.claims : i \in DOMAIN issued}
           /\ k.answer \in {"none", "unauthorized", "forbidden", "handled"}
           /\ k.start.moment \in Nat
  BY Zenon DEF RequestCall, Starts

\* The records a request goes through.
OfCall(r, k) == r \in RequestCall /\ r.req = k.req /\ r.by = k.by /\ r.sid = k.sid /\ r.start = k.start

LEMMA AnsweredCall ==
    ASSUME call \in RequestCall, NEW a \in {"unauthorized", "forbidden", "handled"}
    PROVE  /\ OfCall(Answered(a), call)
           /\ Answered(a).pc = "done" /\ Answered(a).answer = a /\ Answered(a).claims = call.claims
  <1>1. PICK k \in RequestCall : k = call
    BY Zenon
  <1>2. <<>> \in Seq(Guards \cup Auths)
    OBVIOUS
  <1> DEFINE r == [k EXCEPT !.pc = "done", !.left = <<>>, !.answer = a]
  <1>3. OfCall(r, k) /\ r.pc = "done" /\ r.answer = a /\ r.claims = k.claims
    BY Zenon, <1>2 DEF RequestCall, OfCall
  <1>4. Answered(a) = r
    BY Zenon, <1>1 DEF Answered
  <1> QED BY Zenon, <1>1, <1>3, <1>4

LEMMA SessionCall ==
    ASSUME call \in RequestCall
    PROVE  LET r == [call EXCEPT !.pc = "session"] IN
           OfCall(r, call) /\ r.pc = "session" /\ r.left = call.left /\ r.claims = call.claims
  <1>1. PICK k \in RequestCall : k = call
    BY Zenon
  <1> DEFINE r == [k EXCEPT !.pc = "session"]
  <1>2. OfCall(r, k) /\ r.pc = "session" /\ r.left = k.left /\ r.claims = k.claims
    BY Zenon DEF RequestCall, OfCall
  <1> QED BY Zenon, <1>1, <1>2

LEMMA PassedCall ==
    ASSUME call \in RequestCall, call.left # <<>>
    PROVE  OfCall(Passed, call) /\ Passed.pc = "guards" /\ Passed.left = Tail(call.left) /\ Passed.claims = call.claims
  <1>1. PICK k \in RequestCall : k = call
    BY Zenon
  <1>2. k.left \in Seq(Guards \cup Auths)
    BY Zenon DEF RequestCall
  <1>3. PICK l \in Seq(Guards \cup Auths) : l = Tail(k.left)
    BY Zenon, <1>1, <1>2, Taken
  <1> DEFINE r == [k EXCEPT !.pc = "guards", !.left = l]
  <1>4. OfCall(r, k) /\ r.pc = "guards" /\ r.left = l /\ r.claims = k.claims
    BY Zenon DEF RequestCall, OfCall
  <1>5. Passed = r
    BY Zenon, <1>1, <1>3 DEF Passed
  <1> QED BY Zenon, <1>1, <1>3, <1>4, <1>5

LEMMA BearerCall ==
    ASSUME call \in RequestCall, call.left # <<>>
    PROVE  LET r == [Passed EXCEPT !.claims = issued[call.sid].token.claims] IN
           OfCall(r, call) /\ r.pc = "guards" /\ r.left = Tail(call.left) /\ r.claims = issued[call.sid].token.claims
  <1>1. PICK k \in RequestCall : k = Passed
    BY Zenon, PassedCall DEF OfCall
  <1>2. PICK m \in {issued[i].token.claims : i \in DOMAIN issued} : m = issued[call.sid].token.claims
    BY Zenon DEF RequestCall
  <1> DEFINE r == [k EXCEPT !.claims = m]
  <1>3. OfCall(r, k) /\ r.pc = k.pc /\ r.left = k.left /\ r.claims = m
    BY Zenon DEF RequestCall, OfCall
  <1>4. r = [Passed EXCEPT !.claims = issued[call.sid].token.claims]
    BY Zenon, <1>1, <1>2
  <1> HIDE DEF r
  <1>5. OfCall(r, call) /\ r.pc = "guards" /\ r.left = Tail(call.left) /\ r.claims = m
    BY Zenon, <1>1, <1>3, PassedCall DEF OfCall
  <1> QED BY Zenon, <1>2, <1>4, <1>5

\* The handler runs when every guard of the chain has been passed.
LEMMA AllPast ==
    ASSUME RequestOK, UnderWay, call.left = <<>>, ~IsPublic(call.req)
    PROVE  HandlerGuards
  <1>1. call.req \in Requests
    BY Zenon DEF RequestOK, RequestCall
  <1>2. Range(call.left) = {}
    BY DEF Range
  <1>3. \A guard \in Range(Chain(call.req)) : Past(guard)
    BY Zenon, <1>2 DEF UnderWay
  <1>4. PICK req \in Requests : req = call.req
    BY Zenon, <1>1
  <1>5. {req.via} \cup Range(req.guards) \subseteq Range(Chain(req)) \cup {"http"}
    <2>1. CASE req.via = "http"
      BY Zenon, <2>1 DEF Chain
    <2>2. CASE req.via # "http"
      <3>1. req.guards = <<>> /\ Chain(req) = <<req.via>>
        BY Zenon, <2>2, RequestsAssumption DEF Chain
      <3>2. Range(req.guards) = {} /\ req.via \in Range(<<req.via>>)
        BY <3>1 DEF Range
      <3> QED BY Zenon, <3>1, <3>2
    <2> QED BY Zenon, <2>1, <2>2
  <1>6. \A guard \in {req.via} \cup Range(req.guards) : guard # "http" => Past(guard)
    BY Zenon, <1>3, <1>4, <1>5
  <1>7. ({req.via} \cup Range(req.guards)) \cap {"auth", "unary", "stream"} # {} => Bearer
    BY Zenon, <1>6 DEF Past, Auths
  <1>8. "rbac" \in ({req.via} \cup Range(req.guards)) => Listed(issued[call.sid].token.claims, call.req)
    BY Zenon, <1>6 DEF Past
  <1>9. "tenant" \in ({req.via} \cup Range(req.guards)) => issued[call.sid].token.claims.tenant \in call.start.access
    BY Zenon, <1>6 DEF Past
  <1> QED BY Zenon, <1>4, <1>7, <1>8, <1>9 DEF HandlerGuards, Bearer, TokenSeen

\* A request is answered.
LEMMA RequestAnswered ==
    ASSUME TokensTypes, RequestOK, call.pc # "done", Keeps,
           NEW a \in {"unauthorized", "forbidden", "handled"}, call' = Answered(a),
           a # "handled" => ~IsPublic(call.req),
           a = "unauthorized" => ~Rightful,
           a = "forbidden" /\ Rightful =>
              LET claims == issued[call.sid].token.claims IN ~Listed(claims, call.req) \/ claims.tenant \notin access,
           a = "handled" => call.left = <<>>
    PROVE  TokensInv'
  <1>1. call \in RequestCall
    BY Zenon DEF RequestOK
  <1>2. /\ call' \in RequestCall /\ SameRequest /\ call'.pc = "done" /\ call'.answer = a /\ call'.claims = call.claims
    BY Zenon, <1>1, AnsweredCall DEF OfCall, SameRequest
  <1>3. call'.req.via # "select"
    BY Zenon, <1>1, <1>2, RequestsAssumption DEF RequestCall, SameRequest
  <1>4. IsPublic(call'.req) <=> IsPublic(call.req)
    BY Zenon, <1>2 DEF SameRequest
  <1>5. Rightful' => Rightful
    BY Zenon, <1>2 DEF Rightful, Keeps, SameRequest
  <1>6. ~IsPublic(call.req) => BearerHonoured'
    BY Zenon, <1>2, <1>5 DEF BearerHonoured, Keeps, SameRequest
  <1>7. ~IsPublic(call.req) /\ a = "handled" => HandlerGuards'
    <2>1. ~IsPublic(call.req) /\ a = "handled" => HandlerGuards
      BY Zenon, AllPast DEF RequestOK
    <2> QED BY Zenon, <1>2, <2>1 DEF HandlerGuards, Keeps, SameRequest
  <1>8. TokensHonoured'
    BY Zenon, <1>2, <1>3, <1>4, <1>6, <1>7 DEF TokensHonoured
  <1>9. RequestOK'
    <2>1. call' \in RequestCall'
      BY Zenon, <1>2, SameCalls DEF Keeps
    <2> QED BY Zenon, <1>2, <1>8, <2>1 DEF RequestOK, Keeps, SameRequest
  <1> QED BY Zenon, <1>9, TypesStay DEF TokensInv

\* A request passes a guard.
LEMMA PassKeeps ==
    ASSUME TokensTypes, RequestOK, call.pc # "done", call.left # <<>>, Keeps,
           OfCall(call', call), call'.pc = "guards", call'.left = Tail(call.left),
           call'.claims \in {call.claims, issued[call.sid].token.claims},
           NEW passed, passed = Head(call.left), Past(passed)'
    PROVE  TokensInv'
  <1>1. SameRequest /\ issued' = issued
    BY Zenon DEF OfCall, SameRequest, Keeps
  <1>2. \A guard : Past(guard) => Past(guard)'
    BY Zenon, <1>1, PastStays
  <1>3. PICK l \in Seq(Guards \cup Auths) : l = call.left
    BY Zenon DEF RequestOK, RequestCall
  <1>4. Range(l) = {Head(l)} \cup Range(Tail(l))
    BY Zenon, <1>3, Taken
  <1>5. UnderWay'
    <2>1. UnderWay
      BY Zenon DEF RequestOK
    <2>2. Range(call'.left) \subseteq Range(Chain(call'.req))
      BY Zenon, <1>1, <1>3, <1>4, <2>1 DEF UnderWay, SameRequest
    <2>3. ASSUME NEW guard \in Range(Chain(call'.req)) \ Range(call'.left) PROVE Past(guard)'
      <3>1. guard = passed \/ guard \in Range(Chain(call.req)) \ Range(call.left)
        BY Zenon, <1>1, <1>3, <1>4 DEF SameRequest
      <3> QED BY Zenon, <1>2, <1>3, <2>1, <3>1 DEF UnderWay
    <2>4. PICK first : first = Head(Chain(call.req))
      BY Zenon
    <2>5. Past(first)'
      BY Zenon, <1>2, <2>1, <2>4 DEF UnderWay
    <2> QED BY Zenon, <1>1, <2>2, <2>3, <2>4, <2>5 DEF UnderWay, SameRequest
  <1>6. RequestOK'
    <2>1. call' \in RequestCall'
      BY Zenon, SameCalls DEF Keeps, OfCall
    <2>2. call'.claims \in {NoClaims, issued'[call'.sid].token.claims}
      BY Zenon, <1>1 DEF RequestOK, SameRequest
    <2> QED BY Zenon, <1>1, <1>5, <2>1, <2>2 DEF RequestOK, Keeps, SameRequest
  <1> QED BY Zenon, <1>6, TypesStay DEF TokensInv

\* The token is valid, the session is asked next.
LEMMA ValidKeeps ==
    ASSUME TokensTypes, RequestOK, call.pc = "guards", Keeps, Parsed = "valid", call' = [call EXCEPT !.pc = "session"],
           call.left # <<>>, Head(call.left) \in Auths, ~IsPublic(call.req)
    PROVE  TokensInv'
  <1>1. OfCall(call', call) /\ call'.pc = "session" /\ call'.left = call.left /\ call'.claims = call.claims
    BY Zenon, SessionCall DEF RequestOK
  <1>2. SameRequest /\ issued' = issued
    BY Zenon, <1>1 DEF OfCall, SameRequest, Keeps
  <1>3. TokenSeen' /\ \A guard : Past(guard) => Past(guard)'
    BY Zenon, <1>1, <1>2, ParsedFacts, PastStays
  <1>4. UnderWay'
    <2>1. UnderWay
      BY Zenon DEF RequestOK
    <2>2. PICK first : first = Head(Chain(call.req))
      BY Zenon
    <2>3. call.left = Chain(call.req) \/ Past(first)'
      BY Zenon, <1>3, <2>1, <2>2 DEF UnderWay
    <2> QED BY Zenon, <1>1, <1>2, <1>3, <2>1, <2>2, <2>3 DEF UnderWay, SameRequest
  <1>5. RequestOK'
    <2>1. call' \in RequestCall'
      BY Zenon, <1>1, <1>2, SameCalls DEF OfCall
    <2> QED BY Zenon, <1>1, <1>2, <1>4, <2>1 DEF RequestOK, Keeps, SameRequest
  <1> QED BY Zenon, <1>5, TypesStay DEF TokensInv

LEMMA NotRightful ==
    ASSUME TokensTypes, RequestOK, Parsed # "valid" \/ ~ExtractBearerToken(call.req)
    PROVE  ~Rightful
  BY Zenon, ParsedFacts DEF Rightful, ExtractBearerToken

LEMMA AuthenticatedKeeps ==
    ASSUME TokensTypes, RequestOK, call.pc = "guards", Keeps,
           call' = Authenticated \/ (call' = Answered("unauthorized") /\ ~Rightful),
           call.left # <<>>, Head(call.left) \in Auths, ~IsPublic(call.req)
    PROVE  TokensInv'
  <1>1. CASE call' = Answered("unauthorized") /\ ~Rightful
    BY Zenon, <1>1, RequestAnswered
  <1>2. CASE Parsed = "valid" /\ call' = [call EXCEPT !.pc = "session"]
    BY Zenon, <1>2, ValidKeeps
  <1> QED BY Zenon, <1>1, <1>2, NotRightful DEF Authenticated

\* The guards of the chain.
LEMMA HttpVia ==
    ASSUME RequestOK, UnderWay, NEW guard \in Guards, At(guard)
    PROVE  call.req.via = "http" /\ ~IsPublic(call.req)
  <1>1. call.left # <<>> /\ call.left \in Seq(Guards \cup Auths) /\ guard = Head(call.left)
    BY Zenon DEF At, RequestOK, RequestCall
  <1>2. guard \in Range(call.left)
    BY Zenon, <1>1, Taken
  <1>3. guard \in Range(Chain(call.req))
    BY Zenon, <1>2 DEF UnderWay
  <1>4. call.req.via \in {"http", "unary", "stream"}
    BY Zenon, RequestsAssumption DEF RequestOK, RequestCall
  <1>5. call.req.via = "http"
    <2>1. SUFFICES ASSUME call.req.via # "http" PROVE FALSE
      BY Zenon
    <2>2. Range(<<call.req.via>>) = {call.req.via}
      BY DEF Range
    <2> QED BY Zenon, <1>3, <1>4, <2>1, <2>2 DEF Chain, Guards
  <1> QED BY Zenon, <1>5 DEF IsPublic

LEMMA InterceptorKeeps ==
    ASSUME TokensTypes, RequestOK, NEW via \in {"unary", "stream"}, At(via), Keeps,
           call' = IF IsPublic(call.req) THEN Passed ELSE AuthenticateGRPC
    PROVE  TokensInv'
  <1>1. call.pc = "guards" /\ call.left # <<>> /\ via = Head(call.left) /\ via \in Auths /\ call \in RequestCall
    BY Zenon DEF At, Auths, RequestOK
  <1>2. CASE IsPublic(call.req)
    <2>1. OfCall(call', call) /\ call'.pc = "guards" /\ call'.left = Tail(call.left) /\ call'.claims = call.claims
      BY Zenon, <1>1, <1>2, PassedCall
    <2>2. Past(via)'
      BY Zenon, <1>2, <2>1 DEF Past, OfCall, Auths
    <2> QED BY Zenon, <1>1, <2>1, <2>2, PassKeeps
  <1>3. CASE ~IsPublic(call.req)
    <2>1. call' = Authenticated \/ (call' = Answered("unauthorized") /\ ~Rightful)
      <3>1. call.req.header = "no metadata" => ~Rightful
        BY DEF Rightful
      <3> QED BY Zenon, <1>3, <3>1 DEF AuthenticateGRPC
    <2> QED BY Zenon, <1>1, <1>3, <2>1, AuthenticatedKeeps
  <1> QED BY Zenon, <1>2, <1>3

LEMMA SessionKeeps ==
    ASSUME TokensTypes, RequestOK, SessionChecked
    PROVE  TokensInv'
  <1>1. call.pc = "session" /\ Keeps /\ call \in RequestCall /\ UnderWay
    BY Zenon DEF SessionChecked, RequestOK
  <1>2. call.left # <<>> /\ Head(call.left) \in Auths /\ ~IsPublic(call.req) /\ TokenSeen
    BY Zenon, <1>1 DEF UnderWay
  <1>3. CASE call.sid \in live
    <2>1. /\ OfCall(call', call) /\ call'.pc = "guards" /\ call'.left = Tail(call.left)
          /\ call'.claims = issued[call.sid].token.claims
      BY Zenon, <1>1, <1>2, <1>3, BearerCall DEF SessionChecked
    <2>2. call.sid \in call.start.live
      BY Zenon, <1>3 DEF RequestOK
    <2>3. TokenSeen'
      BY Zenon, <1>1, <1>2, <2>1, PastStays DEF OfCall, SameRequest, Keeps
    <2>4. Bearer'
      BY Zenon, <1>1, <2>1, <2>2, <2>3 DEF Bearer, OfCall, Keeps
    <2>5. PICK passed : passed = Head(call.left)
      BY Zenon
    <2>6. Past(passed)'
      BY Zenon, <1>2, <2>4, <2>5 DEF Past, Auths
    <2> QED BY Zenon, <1>1, <1>2, <2>1, <2>5, <2>6, PassKeeps
  <1>4. CASE call.sid \notin live
    <2>1. ~Rightful /\ call' = Answered("unauthorized")
      BY Zenon, <1>4 DEF Rightful, SessionChecked
    <2> QED BY Zenon, <1>1, <1>2, <2>1, RequestAnswered
  <1> QED BY Zenon, <1>3, <1>4

\* RBAC and tenant: claims in the context are the token's, and a rightful
\* request has them after its first guard.
LEMMA ClaimsThere ==
    ASSUME RequestOK, UnderWay, NEW guard \in {"rbac", "tenant"}, At(guard), Rightful
    PROVE  call.claims = issued[call.sid].token.claims
  <1>1. call.req.via = "http" /\ ~IsPublic(call.req)
    BY Zenon, HttpVia DEF Guards
  <1>2. Head(Chain(call.req)) = "auth"
    BY Zenon, <1>1 DEF Rightful, Chain
  <1>3. Head(call.left) = guard
    BY Zenon DEF At
  <1>4. Past("auth")
    BY Zenon, <1>2, <1>3 DEF UnderWay
  <1> QED BY Zenon, <1>1, <1>4 DEF Past, Auths, Bearer

LEMMA GuardKeeps ==
    ASSUME TokensTypes, RequestOK, RBACMiddleware \/ TenantMiddleware
    PROVE  TokensInv'
  <1>1. PICK guard \in {"rbac", "tenant"} :
           /\ At(guard) /\ (guard = "rbac" => RBACMiddleware) /\ (guard = "tenant" => TenantMiddleware)
    BY Zenon DEF RBACMiddleware, TenantMiddleware
  <1>2. call.pc = "guards" /\ Keeps /\ call \in RequestCall /\ UnderWay /\ call.left # <<>> /\ guard = Head(call.left)
    BY Zenon, <1>1 DEF RBACMiddleware, TenantMiddleware, RequestOK, At
  <1>3. ~IsPublic(call.req)
    BY Zenon, <1>1, <1>2, HttpVia DEF Guards
  <1>4. PICK claims : claims = issued[call.sid].token.claims
    BY Zenon
  <1>5. call.claims \in {NoClaims, claims} /\ claims # NoClaims
    BY Zenon, <1>2, <1>4, TokenTypes DEF RequestOK, RequestCall
  <1>6. Rightful => call.claims = claims
    BY Zenon, <1>1, <1>2, <1>4, ClaimsThere
  <1>7. CASE call.claims = NoClaims
    <2>1. call' = Answered("unauthorized")
      BY Zenon, <1>1, <1>7 DEF RBACMiddleware, TenantMiddleware, ClaimsFromContext
    <2> QED BY Zenon, <1>2, <1>3, <1>5, <1>6, <1>7, <2>1, RequestAnswered
  <1>8. CASE call.claims = claims /\ call' = Answered("forbidden")
    <2>1. ~Listed(claims, call.req) \/ claims.tenant \notin access
      <3>1. CASE guard = "rbac"
        <4>1. call' = Passed \/ ~Enforce(claims, call.req.resource, call.req.action)
          BY Zenon, <1>1, <1>5, <1>8, <3>1 DEF RBACMiddleware, ClaimsFromContext
        <4>2. Passed.pc = "guards" /\ Answered("forbidden").pc = "done"
          BY Zenon, <1>2, PassedCall, AnsweredCall
        <4> QED BY Zenon, <1>8, <4>1, <4>2, Granted
      <3>2. CASE guard = "tenant"
        <4>1. call' = Passed \/ claims.tenant \notin access
          BY Zenon, <1>1, <1>5, <1>8, <3>2 DEF TenantMiddleware, ClaimsFromContext
        <4>2. Passed.pc = "guards" /\ Answered("forbidden").pc = "done"
          BY Zenon, <1>2, PassedCall, AnsweredCall
        <4> QED BY Zenon, <1>8, <4>1, <4>2
      <3> QED BY Zenon, <3>1, <3>2
    <2> QED BY Zenon, <1>2, <1>3, <1>4, <1>8, <2>1, RequestAnswered
  <1>9. CASE call.claims = claims /\ call' = Passed
    <2>1. /\ OfCall(call', call) /\ call'.pc = "guards" /\ call'.left = Tail(call.left)
          /\ call'.claims = call.claims
      BY Zenon, <1>2, <1>9, PassedCall
    <2>2. Answered("forbidden").pc = "done"
      BY Zenon, <1>2, AnsweredCall
    <2>3. guard = "rbac" => Listed(claims, call.req)
      <3>1. guard = "rbac" => call' = Answered("forbidden") \/ Enforce(claims, call.req.resource, call.req.action)
        BY Zenon, <1>1, <1>5, <1>9 DEF RBACMiddleware, ClaimsFromContext
      <3> QED BY Zenon, <2>1, <2>2, <3>1, Granted
    <2>4. guard = "tenant" => claims.tenant \in call.start.access
      <3>1. guard = "tenant" => call' = Answered("forbidden") \/ claims.tenant \in access
        BY Zenon, <1>1, <1>5, <1>9 DEF TenantMiddleware, ClaimsFromContext
      <3> QED BY Zenon, <2>1, <2>2, <3>1 DEF RequestOK
    <2>5. Past(guard)'
      BY Zenon, <1>2, <1>4, <2>1, <2>3, <2>4 DEF Past, OfCall, Keeps, Auths
    <2> QED BY Zenon, <1>2, <2>1, <2>5, PassKeeps
  <1>10. call.claims = claims => call' = Answered("forbidden") \/ call' = Passed
    BY Zenon, <1>1, <1>5 DEF RBACMiddleware, TenantMiddleware, ClaimsFromContext
  <1> QED BY Zenon, <1>5, <1>7, <1>8, <1>9, <1>10

-----------------------------------------------------------------------------
(* Steps between requests, and the theorem.                                *)

LEMMA NoneFields ==
    /\ NoneCalled.pc = "none" /\ NoneCalled.req = EmptyRequest /\ NoneCalled.by = 0 /\ NoneCalled.sid = 0
    /\ NoneCalled.left = <<>> /\ NoneCalled.claims = NoClaims /\ NoneCalled.answer = "none"
  BY DEF NoneCalled

LEMMA CallNone ==
    ASSUME TokensInv, call.pc = "none"
    PROVE  call = NoneCalled
  BY Zenon DEF TokensInv, SelectOK, RequestOK, RequestCall

LEMMA StillNone ==
    ASSUME call = NoneCalled, call' = call, TokensTypes'
    PROVE  TokensInv'
  BY Zenon DEF TokensInv, NoneCalled

LEMMA RolloutKeeps ==
    ASSUME TokensInv, NEW g \in DOMAIN Releases, RollOut(g) \/ RolledOut(g)
    PROVE  TokensInv'
  <1>1. call.pc = "none" /\ UNCHANGED <<moment, ticket, issued, live, access, call>>
    BY Zenon DEF RollOut, RolledOut
  <1>2. fleet' \subseteq Served
    BY Zenon DEF RollOut, RolledOut, Served, TokensInv, TokensTypes
  <1>3. TokensTypes'
    BY Zenon, <1>1, <1>2 DEF TokensInv, TokensTypes
  <1> QED BY Zenon, <1>1, <1>3, CallNone, StillNone

LEMMA LogInKeeps ==
    ASSUME TokensInv, NEW g \in fleet, LogIn(g)
    PROVE  TokensInv'
  <1>1. call.pc = "none" /\ UNCHANGED <<fleet, moment, issued, live, access, call>>
    BY Zenon DEF LogIn
  <1>2. PICK key : key = Security(Releases[g]).ticket
    BY Zenon
  <1>3. ticket' = IF key = NoKey THEN NoTicket ELSE SignTenantTicket(key)
    BY Zenon, <1>2 DEF LogIn, IssueTenantTicket
  <1>4. moment \in Nat /\ TicketTTL \in Nat
    BY Zenon, TokensAssumption DEF TokensInv, TokensTypes
  <1>5. {"key", "exp", "used"} \subseteq DOMAIN NoTicket /\ NoTicket.exp \in Nat /\ NoTicket.used
    BY DEF NoTicket
  <1>6. /\ {"key", "exp", "used"} \subseteq DOMAIN SignTenantTicket(key) /\ SignTenantTicket(key).exp \in Nat
        /\ SignTenantTicket(key).key = key
    BY <1>4 DEF SignTenantTicket
  <1>7. {"key", "exp", "used"} \subseteq DOMAIN ticket' /\ ticket'.exp \in Nat /\ (ticket'.key = NoKey => ticket'.used)
    BY Zenon, <1>3, <1>5, <1>6
  <1>8. TokensTypes'
    BY Zenon, <1>1, <1>7 DEF TokensInv, TokensTypes
  <1> QED BY Zenon, <1>1, <1>8, CallNone, StillNone

IsSelected(r, g, a, m, t) ==
    /\ r.pc = "done" /\ r.req.via = "select" /\ r.by = g /\ r.answer = a
    /\ r.start.moment = m /\ r.start.ticket = t

LEMMA SelectedFields ==
    ASSUME NEW g, NEW a
    PROVE  IsSelected(Selected(g, a), g, a, moment, ticket)
  <1>1. "via" \in DOMAIN EmptyRequest
    BY Zenon DEF EmptyRequest
  <1>2. /\ {"pc", "req", "by", "answer", "start"} \subseteq DOMAIN NoneCalled /\ "via" \in DOMAIN NoneCalled.req
        /\ {"moment", "ticket"} \subseteq DOMAIN NoneCalled.start
    BY <1>1 DEF NoneCalled
  <1> QED BY <1>2 DEF Selected, IsSelected

LEMMA PickKeeps ==
    ASSUME TokensInv, NEW g \in fleet, NEW t \in DOMAIN RoleOf, PickTenant(g, t)
    PROVE  TokensInv'
  <1>1. call.pc = "none" /\ UNCHANGED <<fleet, moment, access>>
    BY Zenon DEF PickTenant
  <1>2. PICK sec : sec = Security(Releases[g])
    BY Zenon
  <1>3. PICK c : c = Provider(Releases[g])
    BY Zenon
  <1>4. g \in Served /\ g \in DOMAIN Releases /\ moment \in Nat /\ ticket.exp \in Nat
    BY Zenon DEF TokensInv, TokensTypes, Served
  <1>5. CanSign(SigningMethod(c), SigningKey(c))
    BY Zenon, <1>3, <1>4, Signs
  <1>6. PICK spent : spent = [ticket EXCEPT !.used = TRUE]
    BY Zenon
  <1>7. {"key", "exp", "used"} \subseteq DOMAIN spent /\ spent.exp \in Nat /\ spent.used
    BY <1>6 DEF TokensInv, TokensTypes
  <1>8. CASE /\ call' = Selected(g, "bad ticket") /\ UNCHANGED <<ticket, issued, live>>
             /\ ~CheckTenantTicket(sec) \/ (ticket.used /\ ~sec.skipTicket)
    <2>1. ticket.used \/ moment > ticket.exp \/ ticket.key # sec.ticket
      <3>1. ~(moment <= ticket.exp) => moment > ticket.exp
        BY <1>4
      <3>2. NoTicket.used
        BY DEF NoTicket
      <3> QED BY Zenon, <1>8, <3>1, <3>2 DEF CheckTenantTicket, VerifyTenantTicket, TokensInv, TokensTypes
    <2>2. SelectOK'
      <3>1. IsSelected(call', g, "bad ticket", moment, ticket)
        BY Zenon, <1>8, SelectedFields
      <3> QED BY Zenon, <1>2, <2>1, <3>1 DEF SelectOK, TicketHonoured, IsSelected
    <2>3. TokensTypes'
      BY Zenon, <1>1, <1>8 DEF TokensInv, TokensTypes
    <2> QED BY Zenon, <2>2, <2>3 DEF TokensInv
  <1>9. CASE call' = Selected(g, "denied") /\ UNCHANGED <<ticket, issued, live>>
    <2>1. IsSelected(call', g, "denied", moment, ticket)
      BY Zenon, <1>9, SelectedFields
    <2>2. SelectOK'
      BY <2>1 DEF SelectOK, TicketHonoured, IsSelected
    <2>3. TokensTypes'
      BY Zenon, <1>1, <1>9 DEF TokensInv, TokensTypes
    <2> QED BY Zenon, <2>2, <2>3 DEF TokensInv
  <1>10. CASE /\ call' = Selected(g, "session") /\ ticket' = spent
              /\ issued' = Append(issued, [token |-> IssueAccessToken(c, ClaimsOf(Len(issued) + 1, t), moment + sec.ttl), by |-> g])
              /\ live' = live \cup {Len(issued) + 1}
    <2>1. IsSelected(call', g, "session", moment, ticket)
      BY Zenon, <1>10, SelectedFields
    <2>2. SelectOK'
      BY <2>1 DEF SelectOK, TicketHonoured, IsSelected
    <2>3. PICK s \in Nat \ {0} : s = Len(issued) + 1
      BY DEF TokensInv, TokensTypes
    <2>4. PICK e \in Nat \ {0} : e = moment + sec.ttl
      <3>1. sec.ttl \in Nat /\ sec.ttl # 0
        BY Zenon, <1>2, <1>4, SecurityTypes
      <3> QED BY <1>4, <3>1
    <2>5. IssueAccessToken(c, ClaimsOf(s, t), e) = TokenOf(g, t, s, e)
      BY Zenon, <1>3, <2>4 DEF IssueAccessToken, TokenOf
    <2>6. PICK m \in Minted : m = [token |-> TokenOf(g, t, s, e), by |-> g]
      <3>1. <<g, t, s, e>> \in Served \X (DOMAIN RoleOf) \X (Nat \ {0}) \X Nat
        BY <1>4
      <3>2. PICK x \in Served \X (DOMAIN RoleOf) \X (Nat \ {0}) \X Nat : x = <<g, t, s, e>>
        BY Zenon, <3>1
      <3>3. x[1] = g /\ x[2] = t /\ x[3] = s /\ x[4] = e
        BY <3>2
      <3> QED BY Zenon, <3>2, <3>3 DEF Minted
    <2>7. issued' = Append(issued, m)
      BY Zenon, <1>10, <2>3, <2>4, <2>5, <2>6
    <2>8. issued' \in Seq(Minted)
      BY <2>7 DEF TokensInv, TokensTypes
    <2>9. live' \in SUBSET Nat
      BY Zenon, <1>10, <2>3 DEF TokensInv, TokensTypes
    <2>10. TokensTypes'
      BY Zenon, <1>1, <1>7, <1>10, <2>8, <2>9 DEF TokensInv, TokensTypes, Minted
    <2> QED BY Zenon, <2>2, <2>10 DEF TokensInv
  <1> QED BY Zenon, <1>2, <1>3, <1>5, <1>6, <1>8, <1>9, <1>10 DEF PickTenant

Nones == [pc : {"none"}, req : {EmptyRequest}, by : {0}, sid : {0}, left : {<<>>}, claims : {NoClaims}, answer : {"none"},
          start : Starts]

LEMMA NoneRecord == NoneCalled \in Nones /\ NoneCalled.start \in Starts
  <1>1. NoneCalled.start \in Starts
    BY DEF NoneCalled, Starts
  <1> QED BY Zenon, <1>1 DEF NoneCalled, Nones

IsStart(r, m, l, a) == r.moment = m /\ r.live = l /\ r.access = a
IsArrived(r, req, chain, from) ==
    r.pc = "guards" /\ r.req = req /\ r.left = chain /\ r.claims = NoClaims /\ r.start = from

LEMMA StartOf ==
    ASSUME NEW f \in Starts, NEW m \in Nat, NEW l \in SUBSET Nat, NEW a \in SUBSET (DOMAIN RoleOf)
    PROVE  LET r == [f EXCEPT !.moment = m, !.live = l, !.access = a] IN r \in Starts /\ IsStart(r, m, l, a)
  BY Zenon DEF Starts, IsStart

LEMMA ArrivedOf ==
    ASSUME NEW n \in Nones, NEW req \in Requests, NEW g \in Served, NEW sid \in DOMAIN issued, NEW from \in Starts,
           NEW chain \in Seq(Guards \cup Auths)
    PROVE  LET r == [n EXCEPT !.pc = "guards", !.req = req, !.by = g, !.sid = sid, !.start = from, !.left = chain] IN
           r \in RequestCall /\ IsArrived(r, req, chain, from)
  <1> DEFINE r == [n EXCEPT !.pc = "guards", !.req = req, !.by = g, !.sid = sid, !.start = from, !.left = chain]
  <1>1. /\ r.pc = "guards" /\ r.req = req /\ r.left = chain /\ r.claims = NoClaims /\ r.start = from
        /\ r.by = g /\ r.sid = sid /\ r.answer = "none"
    BY Zenon DEF Nones
  <1>2. DOMAIN r = {"pc", "req", "by", "sid", "left", "claims", "answer", "start"} /\ r = [x \in DOMAIN r |-> r[x]]
    BY Zenon DEF Nones
  <1>3. r \in RequestCall
    BY Zenon, <1>1, <1>2 DEF RequestCall
  <1> QED BY Zenon, <1>1, <1>3 DEF IsArrived

LEMMA ArrivesKeeps ==
    ASSUME TokensInv, NEW g \in fleet, NEW req \in Requests, NEW sid \in DOMAIN issued, RequestArrives(g, req, sid)
    PROVE  TokensInv'
  <1>1. Keeps /\ g \in Served /\ moment \in Nat /\ live \in SUBSET Nat /\ access \in SUBSET (DOMAIN RoleOf)
    BY Zenon DEF RequestArrives, TokensInv, TokensTypes
  <1>2. PICK chain : chain = Chain(req)
    BY Zenon
  <1>3. chain \in Seq(Guards \cup Auths)
    <2>1. req.guards \in Seq(Guards) /\ req.via \in {"http", "unary", "stream"}
      BY Zenon, RequestsAssumption
    <2>2. CASE req.via = "http"
      <3>1. chain = req.guards
        BY Zenon, <1>2, <2>2 DEF Chain
      <3> QED BY <2>1, <3>1
    <2>3. CASE req.via # "http"
      <3>1. chain = <<req.via>> /\ req.via \in Auths
        BY Zenon, <1>2, <2>1, <2>3 DEF Chain, Auths
      <3> QED BY <3>1
    <2> QED BY Zenon, <2>2, <2>3
  <1>4. PICK from \in Starts : from = [NoneCalled.start EXCEPT !.moment = moment, !.live = live, !.access = access]
    BY Zenon, <1>1, NoneRecord, StartOf
  <1>5. PICK k : k = [NoneCalled EXCEPT !.pc = "guards", !.req = req, !.by = g, !.sid = sid, !.start = from, !.left = chain]
    BY Zenon
  <1>6. call' = k
    BY Zenon, <1>2, <1>4, <1>5 DEF RequestArrives, Chain
  <1>7. k \in RequestCall /\ IsArrived(k, req, chain, from)
    BY Zenon, <1>1, <1>3, <1>5, NoneRecord, ArrivedOf
  <1>8. IsStart(from, moment, live, access)
    BY Zenon, <1>1, <1>4, NoneRecord, StartOf
  <1>9. call' \in RequestCall' /\ TokensTypes'
    BY Zenon, <1>1, <1>6, <1>7, SameCalls, TypesStay DEF Keeps, TokensInv
  <1>10. UnderWay'
    BY Zenon, <1>2, <1>6, <1>7 DEF UnderWay, IsArrived
  <1>11. moment <= moment
    BY <1>1
  <1>12. RequestOK'
    BY Zenon, <1>1, <1>6, <1>7, <1>8, <1>9, <1>10, <1>11 DEF RequestOK, Keeps, IsArrived, IsStart
  <1> QED BY Zenon, <1>9, <1>12 DEF TokensInv

\* The session, the access and the time of a request under way.
LEMMA AroundKeeps ==
    ASSUME TokensInv, Unanswered, UNCHANGED <<fleet, ticket, issued, call>>,
           moment' \in Nat, moment <= moment', live' \subseteq live, access' \subseteq access
    PROVE  TokensInv'
  <1>1. TokensTypes'
    BY Zenon DEF TokensInv, TokensTypes
  <1>2. CASE call = NoneCalled
    BY Zenon, <1>1, <1>2, StillNone
  <1>3. CASE RequestOK
    <2>1. UnderWay /\ call.pc # "done" /\ call \in RequestCall
      BY Zenon, <1>3 DEF RequestOK, Unanswered
    <2>2. UnderWay'
      BY Zenon, <2>1 DEF UnderWay, Past, Bearer, TokenSeen
    <2>3. call.start.moment <= moment'
      <3>1. call.start.moment \in Nat /\ moment \in Nat /\ call.start.moment <= moment
        BY Zenon, <1>3, <2>1, CallFields DEF RequestOK, TokensInv, TokensTypes
      <3> QED BY <3>1
    <2>4. RequestOK'
      BY Zenon, <1>3, <2>1, <2>2, <2>3, SameCalls DEF RequestOK
    <2> QED BY Zenon, <1>1, <2>4 DEF TokensInv
  <1> QED BY Zenon, <1>2, <1>3 DEF TokensInv, SelectOK, Unanswered

LEMMA AroundStep ==
    ASSUME TokensInv, (\E sid \in live : SessionEnds(sid)) \/ (\E t \in access : AccessRemoved(t)) \/ MomentPasses
    PROVE  TokensInv'
  <1>1. moment \in Nat
    BY Zenon DEF TokensInv, TokensTypes
  <1>2. moment <= moment /\ moment <= moment + 1 /\ moment + 1 \in Nat
    BY <1>1
  <1>3. /\ Unanswered /\ UNCHANGED <<fleet, ticket, issued, call>> /\ moment' \in {moment, moment + 1}
        /\ live' \subseteq live /\ access' \subseteq access
    BY Zenon DEF SessionEnds, AccessRemoved, MomentPasses
  <1> QED BY Zenon, <1>1, <1>2, <1>3, AroundKeeps

LEMMA RequestStep ==
    ASSUME TokensInv, \/ AuthMiddleware \/ AuthInterceptor \/ AuthStreamInterceptor \/ SessionChecked
                      \/ RBACMiddleware \/ TenantMiddleware \/ Handled
    PROVE  TokensInv'
  <1>1. call.pc \in {"guards", "session"}
    BY Zenon DEF AuthMiddleware, AuthInterceptor, AuthStreamInterceptor, SessionChecked, RBACMiddleware,
                 TenantMiddleware, Handled, At
  <1>2. TokensTypes /\ RequestOK
    BY Zenon, <1>1, NoneFields DEF TokensInv, SelectOK
  <1>3. call.pc # "done" /\ UnderWay
    BY Zenon, <1>1, <1>2 DEF RequestOK
  <1>4. CASE AuthMiddleware
    <2>1. ~IsPublic(call.req) /\ call.pc = "guards" /\ call.left # <<>> /\ Head(call.left) \in Auths
      BY Zenon, <1>2, <1>3, <1>4, HttpVia DEF AuthMiddleware, Guards, At, Auths
    <2> QED BY Zenon, <1>2, <1>4, <2>1, AuthenticatedKeeps DEF AuthMiddleware
  <1>5. CASE AuthInterceptor \/ AuthStreamInterceptor
    BY Zenon, <1>2, <1>5, InterceptorKeeps DEF AuthInterceptor, AuthStreamInterceptor
  <1>6. CASE Handled
    BY Zenon, <1>2, <1>3, <1>6, RequestAnswered DEF Handled
  <1> QED BY Zenon, <1>2, <1>4, <1>5, <1>6, SessionKeeps, GuardKeeps

LEMMA TokensStep ==
    ASSUME TokensInv, [TokensNext]_tokenVars
    PROVE  TokensInv'
  <1>1. CASE UNCHANGED tokenVars
    <2>1. UNCHANGED <<fleet, moment, ticket, issued, live, access, call>>
      BY Zenon, <1>1 DEF tokenVars
    <2>2. TokensTypes'
      BY Zenon, <2>1 DEF TokensInv, TokensTypes
    <2>3. SelectOK => SelectOK'
      BY Zenon, <2>1 DEF SelectOK, TicketHonoured
    <2>4. UnderWay => UnderWay'
      BY Zenon, <2>1 DEF UnderWay, Past, Bearer, TokenSeen
    <2>5. Rightful' = Rightful
      BY Zenon, <2>1 DEF Rightful
    <2>6. TokensHonoured => TokensHonoured'
      BY Zenon, <2>1, <2>5 DEF TicketHonoured, TokensHonoured, BearerHonoured, HandlerGuards
    <2>7. RequestOK => RequestOK'
      BY Zenon, <2>1, <2>4, <2>6, SameCalls DEF RequestOK
    <2> QED BY Zenon, <2>1, <2>2, <2>3, <2>7 DEF TokensInv, NoneCalled
  <1>2. CASE Forgotten
    <2>1. TokensTypes' /\ call' = NoneCalled
      BY Zenon, <1>2 DEF Forgotten, TokensInv, TokensTypes
    <2> QED BY Zenon, <2>1 DEF TokensInv, NoneCalled
  <1>3. CASE \E g \in fleet : RolledOut(g) \/ LogIn(g)
    <2>1. fleet \subseteq DOMAIN Releases
      BY Zenon DEF TokensInv, TokensTypes, Served
    <2> QED BY Zenon, <1>3, <2>1, RolloutKeeps, LogInKeeps
  <1> QED BY Zenon, <1>1, <1>2, <1>3, RolloutKeeps, PickKeeps, ArrivesKeeps, RequestStep, AroundStep DEF TokensNext

LEMMA TokensStart == TokensInit => TokensInv
  <1> SUFFICES ASSUME TokensInit PROVE TokensInv
    OBVIOUS
  <1>1. /\ fleet = {} /\ moment = 0 /\ ticket = NoTicket /\ issued = <<>> /\ live = {}
        /\ access = DOMAIN RoleOf /\ call = NoneCalled
    BY Zenon DEF TokensInit
  <1>2. {"key", "exp", "used"} \subseteq DOMAIN NoTicket /\ NoTicket.exp \in Nat /\ NoTicket.used
    BY DEF NoTicket
  <1>3. 0 \in Nat /\ issued \in Seq(Minted)
    BY <1>1
  <1> QED BY Zenon, <1>1, <1>2, <1>3 DEF TokensInv, TokensTypes

\* A token once issued is honoured until it expires or its session ends, by the
\* replicas of its release and of the release rotated from it, whatever mix of
\* releases the rolling update serves and whatever ends while the request is
\* under way; a handler behind the guards runs only for what they each saw; and a
\* fresh ticket opens a session, since every release that starts can sign.
THEOREM TokensAreHonoured == TokensSpec => []TokensHonoured
  <1>1. TokensInv => TokensHonoured
    BY Zenon, NoneFields DEF TokensInv, SelectOK, RequestOK, TokensHonoured
  <1> QED BY <1>1, TokensStart, TokensStep, PTL DEF TokensSpec
=============================================================================
