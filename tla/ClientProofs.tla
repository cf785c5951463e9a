---------------------------- MODULE ClientProofs ----------------------------
(***************************************************************************)
(* Proofs about what calls other services: the HTTP client (HttpClient)    *)
(* and a chain of gRPC calls (GrpcCall); and about what a server keeps     *)
(* fresh beside its requests: its certificate (CertReload) and its         *)
(* readiness (Readiness).                                                  *)
(***************************************************************************)
EXTENDS HttpClient, GrpcCall, CertReload, Readiness, FiniteSetTheorems, TLAPS

-----------------------------------------------------------------------------
(* HttpClient.                                                             *)

Results == {"none", "body", "ratelimit", "outside base", "signature", "redirect blocked", "network", "429",
            "429 exceeded", "4xx", "5xx", "ctx", "value", "nil", "too large", "malformed"}
Urls == {<<>>} \cup {r.url : r \in HttpRequests} \cup Targets
ExRecord == [pc : {"idle", "prepare", "attempt", "send", "served", "neterror", "sleep", "read", "returned"},
             attempt : Nat, sleep : Nat, fromHeader : BOOLEAN, url : Urls, via : Nat, get : BOOLEAN,
             fresh : BOOLEAN, result : Results]
ServerRecord == [executed : Nat, strays : Nat, partial : BOOLEAN, waited : Nat,
                 arrived : SUBSET [url : Urls, addr : {"public", "loopback", "special"}]]
BuiltRequest == [kind : {"built"}, r : HttpRequests, retries : {0} \cup {r.retries : r \in HttpRequests},
                 urlErr : BOOLEAN]

\* Where the request may arrive.
UrlOK(u) ==
    /\ u.host = rq.r.base.host
    /\ rq.r.base.scheme = "https" => u.scheme = "https"
    /\ u = rq.r.url => UnderBase(rq.r.base, u)
ArrivedOK(a) ==
    /\ UrlOK(a.url)
    /\ rq.r.safe => a.url.scheme = "https" /\ (a.addr = "public" \/ a.addr \in rq.r.allowed)

\* A stream has one attempt and never waits for another; a request that is not
\* safe to repeat has not taken effect while another attempt may follow, but
\* where a GET has taken its place.
ExecuteOK(e) ==
    /\ e \in ExRecord
    /\ e.fromHeader => e.sleep <= MaxRetryAfter
    /\ bodies = IF e.pc = "read" THEN 1 ELSE 0
    /\ e.pc \in {"send", "served"} => ~rq.urlErr /\ UrlOK(e.url)
    /\ rq.r.body = "stream" => /\ e.fresh /\ e.attempt = 0 /\ e.pc # "sleep"
                               /\ e.pc # "prepare" => rq.retries = 0
    /\ ~RetrySafe /\ e.pc \notin {"neterror", "read", "returned"} /\ ~(e.get /\ e.pc \in {"send", "served"})
         => server.executed <= server.strays
ServerOK(s) ==
    /\ s \in ServerRecord
    /\ ~s.partial
    /\ s.waited <= MaxRetryAfter
    /\ ~RetrySafe => s.executed <= 1 + s.strays
    /\ \A a \in s.arrived : ArrivedOK(a)

ClientBuilt ==
    /\ rq \in BuiltRequest
    /\ rq.urlErr <=> ~InsideBase(rq.r.base, rq.r.url)
    /\ ExecuteOK(ex) /\ ServerOK(server)

ClientInv == HttpClientInit \/ ClientBuilt

\* The request that was built, and the addresses it may arrive at.
LEMMA BaseOK ==
    ASSUME ClientBuilt, ~rq.urlErr
    PROVE  UrlOK(rq.r.url) /\ rq.r.url.scheme = rq.r.base.scheme
  BY Zenon DEF ClientBuilt, InsideBase, UrlOK

LEMMA BuiltStarts ==
    ASSUME HttpClientInit, NEW r \in HttpRequests, NewRequest(r)
    PROVE  ClientBuilt'
<1>1. 0 \in Nat /\ 0 <= MaxRetryAfter /\ 0 <= 1 + 0 /\ 0 <= 0 /\ RetrySleep \in Nat
  BY HttpClientAssumption
<1>2. PICK b \in BOOLEAN : b = ~InsideBase(r.base, r.url)
  BY Zenon
<1>3. rq' = [kind |-> "built", r |-> r, retries |-> r.retries, urlErr |-> b]
  BY Zenon, <1>2 DEF NewRequest
<1>4. rq' \in BuiltRequest /\ rq'.r = r /\ rq'.urlErr = b
  BY Zenon, <1>3 DEF BuiltRequest
<1>5. ex' = [pc |-> "prepare", attempt |-> 0, sleep |-> RetrySleep, fromHeader |-> FALSE,
             url |-> <<>>, via |-> 0, get |-> FALSE, fresh |-> TRUE, result |-> "none"]
  BY DEF NewRequest, Idle
<1>6. ex' \in ExRecord
  <2>1. <<>> \in Urls /\ "none" \in Results
    BY Zenon DEF Urls, Results
  <2>2. PICK u \in Urls, n \in Results : u = <<>> /\ n = "none"
    BY Zenon, <2>1
  <2>3. ex' = [pc |-> "prepare", attempt |-> 0, sleep |-> RetrySleep, fromHeader |-> FALSE,
               url |-> u, via |-> 0, get |-> FALSE, fresh |-> TRUE, result |-> n]
    BY Zenon, <1>5, <2>2
  <2> QED
    BY Zenon, <1>1, <2>3 DEF ExRecord
<1>7. ex'.pc = "prepare" /\ ~ex'.fromHeader /\ ex'.fresh /\ ex'.attempt = 0
  BY <1>5
<1>8. server' = [executed |-> 0, strays |-> 0, partial |-> FALSE, arrived |-> {}, waited |-> 0] /\ bodies' = 0
  BY DEF HttpClientInit, NewRequest
<1>9. server' \in ServerRecord /\ server'.executed = 0 /\ server'.strays = 0 /\ ~server'.partial /\ server'.arrived = {} /\ server'.waited = 0
  BY <1>8 DEF ServerRecord
<1>10. ExecuteOK(ex)'
  BY Zenon, <1>1, <1>6, <1>7, <1>8, <1>9 DEF ExecuteOK
<1>11. ServerOK(server)'
  BY Zenon, <1>1, <1>9 DEF ServerOK
<1> QED
  BY Zenon, <1>2, <1>4, <1>10, <1>11 DEF ClientBuilt

\* A step of Execute that the server does not see.
LEMMA ExecuteStep ==
    ASSUME ClientBuilt, NEW e, ex' = e, ExecuteOK(e), UNCHANGED <<rq, server, bodies>>
    PROVE  ClientBuilt'
<1>1. ExecuteOK(ex)'
  BY Zenon DEF ExecuteOK, UrlOK, RetrySafe
<1>2. ServerOK(server)'
  BY Zenon DEF ClientBuilt, ServerOK, ArrivedOK, UrlOK, RetrySafe
<1> QED
  BY Zenon, <1>1, <1>2 DEF ClientBuilt

\* A step of Execute in which the request may take effect: it has its whole body.
LEMMA EffectStep ==
    ASSUME ClientBuilt, ex.pc = "served", Executes \/ UNCHANGED server, UNCHANGED rq,
           ex' \in ExRecord, ex'.pc \notin {"served", "prepare"},
           ex'.pc = "send" => ~rq.urlErr /\ UrlOK(ex'.url),
           ex'.fromHeader => ex'.sleep <= MaxRetryAfter,
           ex'.fresh = ex.fresh, ex'.attempt = ex.attempt,
           rq.r.body = "stream" => ex'.pc # "sleep",
           ~RetrySafe => ex'.pc \in {"neterror", "read", "returned"} \/ (ex'.pc = "send" /\ ex'.get),
           bodies' = IF ex'.pc = "read" THEN 1 ELSE 0
    PROVE  ClientBuilt'
<1>1. ExecuteOK(ex) /\ ServerOK(server)
  BY Zenon DEF ClientBuilt
<1>2. PICK s \in ServerRecord : s = server
  BY Zenon, <1>1 DEF ServerOK
<1>3. server' \in ServerRecord /\ ~server'.partial /\ server'.waited = s.waited /\ server'.arrived = s.arrived
      /\ server'.strays = s.strays
      /\ (server'.executed = s.executed \/ (~ex.get /\ server'.executed = s.executed + 1))
  <2>1. CASE UNCHANGED server
    BY Zenon, <1>1, <1>2, <2>1 DEF ServerOK
  <2>2. CASE Executes
    <3>1. ~(rq.r.body = "stream" /\ ~ex.fresh) /\ s.partial = FALSE
      BY Zenon, <1>1, <1>2 DEF ExecuteOK, ServerOK, ServerRecord
    <3>2. server' = [s EXCEPT !.executed = s.executed + 1, !.partial = FALSE]
      BY <1>2, <2>2, <3>1 DEF Executes
    <3>3. s.executed \in Nat /\ s.executed + 1 \in Nat
      BY DEF ServerRecord
    <3>4. PICK n \in Nat : n = s.executed + 1
      BY Zenon, <3>3
    <3>5. server' = [s EXCEPT !.executed = n, !.partial = FALSE]
      BY Zenon, <3>2, <3>4
    <3>6. PICK t : t = [s EXCEPT !.executed = n, !.partial = FALSE]
      BY Zenon
    <3>7. t \in ServerRecord /\ ~t.partial /\ t.waited = s.waited /\ t.arrived = s.arrived /\ t.executed = n
          /\ t.strays = s.strays
      BY <3>6 DEF ServerRecord
    <3> QED
      BY Zenon, <2>2, <3>4, <3>5, <3>6, <3>7 DEF Executes
  <2> QED
    BY Zenon, <2>1, <2>2
<1>4. ~RetrySafe => server'.executed <= 1 + server'.strays
  <2>1. ~RetrySafe /\ ~ex.get => s.executed <= s.strays
    BY Zenon, <1>1, <1>2 DEF ExecuteOK
  <2>2. s.executed \in Nat /\ s.strays \in Nat
    BY DEF ServerRecord
  <2>3. ~RetrySafe => s.executed <= 1 + s.strays
    BY Zenon, <1>1, <1>2 DEF ServerOK
  <2>4. s.executed <= s.strays => s.executed + 1 <= 1 + s.strays
    BY <2>2
  <2> QED
    BY Zenon, <1>3, <2>1, <2>3, <2>4
<1>5. ServerOK(server)'
  BY Zenon, <1>1, <1>2, <1>3, <1>4 DEF ServerOK, ArrivedOK, UrlOK, RetrySafe
<1>6. ExecuteOK(ex)'
  BY Zenon, <1>1 DEF ExecuteOK, UrlOK, RetrySafe
<1> QED
  BY Zenon, <1>5, <1>6 DEF ClientBuilt

\* Execute returns, with its body closed.
LEMMA ReturnsOK ==
    ASSUME ClientBuilt, NEW result \in Results, Returns(result)
    PROVE  /\ ex' \in ExRecord /\ ex'.pc = "returned" /\ ex'.fresh = ex.fresh /\ ex'.attempt = ex.attempt
           /\ ex'.fromHeader => ex'.sleep <= MaxRetryAfter
           /\ ex.pc # "read" /\ ex.pc # "prepare" => ExecuteOK(ex')
<1>1. PICK c \in ExRecord : c = ex /\ ExecuteOK(c)
  BY Zenon DEF ClientBuilt, ExecuteOK
<1>2. PICK e : e = [c EXCEPT !.pc = "returned", !.result = result]
  BY Zenon
<1>3. e \in ExRecord /\ e.pc = "returned" /\ e.fresh = c.fresh /\ e.attempt = c.attempt
      /\ e.fromHeader = c.fromHeader /\ e.sleep = c.sleep
  BY <1>2 DEF ExRecord
<1>4. ex' = e
  BY Zenon, <1>1, <1>2 DEF Returns
<1>5. c.pc \notin {"read", "prepare"} => ExecuteOK(e)
  BY Zenon, <1>1, <1>3 DEF ExecuteOK
<1> QED
  BY Zenon, <1>1, <1>3, <1>4, <1>5 DEF ExecuteOK

LEMMA ReturnsStep ==
    ASSUME ClientBuilt, NEW result \in Results, Returns(result), UNCHANGED <<rq, server, bodies>>,
           ex.pc \notin {"read", "prepare"}
    PROVE  ClientBuilt'
<1>1. ExecuteOK(ex')
  BY Zenon, ReturnsOK
<1>2. PICK e : e = ex'
  BY Zenon
<1> QED
  BY Zenon, <1>1, <1>2, ExecuteStep

\* Execute waits before another attempt.
LEMMA WaitOK ==
    ASSUME ClientBuilt, NEW from \in BOOLEAN, NEW n \in Nat, Wait(from, n), from => n <= MaxRetryAfter
    PROVE  /\ ex' \in ExRecord /\ ex'.pc = "sleep" /\ ex'.fresh = ex.fresh /\ ex'.attempt = ex.attempt
           /\ ex'.fromHeader = from /\ ex'.sleep = n
<1>1. PICK c \in ExRecord : c = ex
  BY Zenon DEF ClientBuilt, ExecuteOK
<1>2. ex' = [c EXCEPT !.pc = "sleep", !.fromHeader = from, !.sleep = n]
  BY Zenon, <1>1 DEF Wait
<1> QED
  BY <1>1, <1>2 DEF ExRecord

LEMMA WaitStep ==
    ASSUME ClientBuilt, NEW from \in BOOLEAN, NEW n \in Nat, Wait(from, n), from => n <= MaxRetryAfter,
           UNCHANGED <<rq, server, bodies>>, ~LastAttempt, ex.pc = "neterror", RetrySafe
    PROVE  ClientBuilt'
<1>1. ExecuteOK(ex)
  BY Zenon DEF ClientBuilt
<1>2. PICK e : e = ex'
  BY Zenon
<1>3. e \in ExRecord /\ e.pc = "sleep" /\ e.fresh = ex.fresh /\ e.attempt = ex.attempt /\ e.fromHeader = from /\ e.sleep = n
  BY Zenon, <1>2, WaitOK
<1>4. rq.r.body # "stream"
  BY Zenon, <1>1 DEF ExecuteOK, LastAttempt
<1>5. ExecuteOK(e)
  BY Zenon, <1>1, <1>3, <1>4 DEF ExecuteOK
<1> QED
  BY Zenon, <1>2, <1>5, ExecuteStep

\* Execute waits because of a 429: if it is about the GET of a redirect, the
\* next attempt is one too many.
LEMMA StrayStep ==
    ASSUME ClientBuilt, NEW from \in BOOLEAN, NEW n \in Nat, Wait(from, n), from => n <= MaxRetryAfter,
           UNCHANGED <<rq, bodies>>, ~LastAttempt, ex.pc = "served",
           server' = [server EXCEPT !.strays = IF ex.get THEN @ + 1 ELSE @]
    PROVE  ClientBuilt'
<1>1. ExecuteOK(ex)
  BY Zenon DEF ClientBuilt
<1>2. PICK s \in ServerRecord : s = server /\ ServerOK(s)
  BY Zenon DEF ClientBuilt, ServerOK
<1>3. s.executed \in Nat /\ s.strays \in Nat /\ s.strays + 1 \in Nat
  BY DEF ServerRecord
<1>4. PICK k \in Nat : k = IF ex.get THEN s.strays + 1 ELSE s.strays
  BY Zenon, <1>3
<1>5. PICK t : t = [s EXCEPT !.strays = k]
  BY Zenon
<1>6. t \in ServerRecord /\ t.executed = s.executed /\ t.strays = k /\ t.partial = s.partial /\ t.waited = s.waited
      /\ t.arrived = s.arrived
  BY <1>5 DEF ServerRecord
<1>7. server' = t
  BY Zenon, <1>2, <1>4, <1>5
<1>8. ~RetrySafe => s.executed <= k
  <2>1. ~RetrySafe => s.executed <= 1 + s.strays
    BY Zenon, <1>2 DEF ServerOK
  <2>2. ~RetrySafe /\ ~ex.get => s.executed <= s.strays
    BY Zenon, <1>1, <1>2 DEF ExecuteOK
  <2>3. s.executed <= 1 + s.strays => s.executed <= s.strays + 1
    BY <1>3
  <2> QED
    BY Zenon, <1>4, <2>1, <2>2, <2>3
<1>9. s.executed <= k => s.executed <= 1 + k
  BY <1>3, <1>4
<1>10. ServerOK(server)'
  BY Zenon, <1>2, <1>6, <1>7, <1>8, <1>9 DEF ServerOK, ArrivedOK, UrlOK, RetrySafe
<1>11. PICK e : e = ex'
  BY Zenon
<1>12. e \in ExRecord /\ e.pc = "sleep" /\ e.fresh = ex.fresh /\ e.attempt = ex.attempt /\ e.fromHeader = from /\ e.sleep = n
  BY Zenon, <1>11, WaitOK
<1>13. rq.r.body # "stream"
  BY Zenon, <1>1 DEF ExecuteOK, LastAttempt
<1>14. ExecuteOK(ex)'
  BY Zenon, <1>1, <1>6, <1>7, <1>8, <1>11, <1>12, <1>13 DEF ExecuteOK, RetrySafe
<1> QED
  BY Zenon, <1>10, <1>14 DEF ClientBuilt

\* The steps that prepare an attempt.
LEMMA AttemptKeeps ==
    ASSUME ClientBuilt, PrepareBody \/ Attempt
    PROVE  ClientBuilt'
<1>0. PICK c \in ExRecord : c = ex /\ ExecuteOK(c)
  BY Zenon DEF ClientBuilt, ExecuteOK
<1>b. rq \in BuiltRequest
  BY Zenon DEF ClientBuilt
<1>1. CASE PrepareBody
  <2>1. CASE rq.r.body = "unreadable" /\ Returns("body") /\ UNCHANGED rq
    <3>1. "body" \in Results /\ c.pc = "prepare" /\ UNCHANGED <<server, bodies>>
      BY Zenon, <1>0, <1>1 DEF PrepareBody, Results
    <3>2. ex' \in ExRecord /\ ex'.pc = "returned" /\ (ex'.fromHeader => ex'.sleep <= MaxRetryAfter)
      BY Zenon, <2>1, <3>1, ReturnsOK
    <3>3. PICK e : e = ex'
      BY Zenon
    <3>4. ExecuteOK(e)
      BY Zenon, <1>0, <2>1, <3>1, <3>2, <3>3 DEF ExecuteOK
    <3> QED
      BY Zenon, <2>1, <3>1, <3>3, <3>4, ExecuteStep
  <2>2. CASE /\ rq.r.body # "unreadable"
             /\ rq' = [rq EXCEPT !.retries = IF rq.r.body = "stream" THEN 0 ELSE @]
             /\ ex' = [ex EXCEPT !.pc = "attempt"]
    <3>1. PICK n \in {0} \cup {r.retries : r \in HttpRequests} : n = IF rq.r.body = "stream" THEN 0 ELSE rq.retries
      BY Zenon, <1>b DEF BuiltRequest
    <3>2. rq' = [rq EXCEPT !.retries = n]
      BY Zenon, <2>2, <3>1
    <3>3. rq' \in BuiltRequest /\ rq'.r = rq.r /\ rq'.urlErr = rq.urlErr /\ rq'.retries = n
      BY <1>b, <3>2 DEF BuiltRequest
    <3>4. PICK e : e = [c EXCEPT !.pc = "attempt"]
      BY Zenon
    <3>5. e \in ExRecord /\ e.pc = "attempt" /\ e.fresh = c.fresh /\ e.attempt = c.attempt /\ e.fromHeader = c.fromHeader
          /\ e.sleep = c.sleep
      BY <3>4 DEF ExRecord
    <3>6. ex' = e /\ UNCHANGED <<server, bodies>> /\ c.pc = "prepare"
      BY Zenon, <1>0, <1>1, <2>2, <3>4 DEF PrepareBody
    <3>7. ExecuteOK(ex)'
      BY Zenon, <1>0, <3>1, <3>3, <3>5, <3>6 DEF ExecuteOK, RetrySafe
    <3>8. ServerOK(server)'
      BY Zenon, <3>3, <3>6 DEF ClientBuilt, ServerOK, ArrivedOK, UrlOK, RetrySafe
    <3> QED
      BY Zenon, <3>3, <3>7, <3>8 DEF ClientBuilt
  <2> QED
    BY Zenon, <1>1, <2>1, <2>2 DEF PrepareBody
<1>2. CASE Attempt
  <2>1. UNCHANGED <<rq, server, bodies>> /\ c.pc = "attempt"
    BY Zenon, <1>0, <1>2 DEF Attempt
  <2>2. CASE \E result \in Results : Returns(result)
    BY Zenon, <1>0, <2>1, <2>2, ReturnsStep
  <2>3. CASE ~rq.urlErr /\ ex' = [ex EXCEPT !.pc = "send", !.url = rq.r.url, !.via = 0, !.get = FALSE]
    <3>1. PICK u \in Urls : u = rq.r.url
      <4>1. rq.r \in HttpRequests
        BY <1>b DEF BuiltRequest
      <4> QED
        BY Zenon, <4>1 DEF Urls
    <3>2. PICK e : e = [c EXCEPT !.pc = "send", !.url = u, !.via = 0, !.get = FALSE]
      BY Zenon
    <3>3. e \in ExRecord /\ e.pc = "send" /\ e.fresh = c.fresh /\ e.attempt = c.attempt /\ e.fromHeader = c.fromHeader
          /\ e.sleep = c.sleep /\ e.url = u
      BY <3>2 DEF ExRecord
    <3>4. ExecuteOK(e)
      BY Zenon, <1>0, <2>1, <2>3, <3>1, <3>3, BaseOK DEF ExecuteOK
    <3> QED
      BY Zenon, <1>0, <2>1, <2>3, <3>1, <3>2, <3>4, ExecuteStep
  <2>4. "ratelimit" \in Results /\ "outside base" \in Results /\ "signature" \in Results
    BY Zenon DEF Results
  <2> QED
    BY Zenon, <1>2, <2>2, <2>3, <2>4 DEF Attempt, HandleRateLimiting, CreateHttpRequest
<1> QED
  BY Zenon, <1>1, <1>2

\* The connection: only an address the guard lets through is reached.
LEMMA ConnectKeeps ==
    ASSUME ClientBuilt, Connect
    PROVE  ClientBuilt'
<1>0. PICK c \in ExRecord : c = ex /\ ExecuteOK(c)
  BY Zenon DEF ClientBuilt, ExecuteOK
<1>1. PICK addr \in {"public", "loopback", "special"} :
        IF (rq.r.safe => ex.url.scheme = "https") /\ Guarded(addr)
        THEN /\ ex' = [ex EXCEPT !.pc = "served"]
             /\ server' = [server EXCEPT !.arrived = @ \cup {[url |-> ex.url, addr |-> addr]}]
        ELSE ex' = [ex EXCEPT !.pc = "neterror"] /\ UNCHANGED server
  BY Zenon DEF Connect
<1>2. UNCHANGED <<rq, bodies>> /\ c.pc = "send"
  BY Zenon, <1>0 DEF Connect
<1>3. PICK pc \in {"served", "neterror"} : ex' = [c EXCEPT !.pc = pc] /\ (pc = "neterror" => UNCHANGED server)
  BY Zenon, <1>0, <1>1
<1>4. PICK e : e = [c EXCEPT !.pc = pc]
  BY Zenon
<1>5. e \in ExRecord /\ e.pc = pc /\ e.fresh = c.fresh /\ e.attempt = c.attempt /\ e.fromHeader = c.fromHeader
      /\ e.sleep = c.sleep /\ e.url = c.url /\ e.get = c.get
  BY <1>4 DEF ExRecord
<1>6. ExecuteOK(e)
  BY Zenon, <1>0, <1>2, <1>5 DEF ExecuteOK
<1>7. CASE ~((rq.r.safe => ex.url.scheme = "https") /\ Guarded(addr))
  BY Zenon, <1>1, <1>2, <1>3, <1>4, <1>6, <1>7, ExecuteStep
<1>8. CASE (rq.r.safe => ex.url.scheme = "https") /\ Guarded(addr)
  <2>1. PICK s \in ServerRecord : s = server /\ ServerOK(s)
    BY Zenon DEF ClientBuilt, ServerOK
  <2>2. PICK a : a = [url |-> c.url, addr |-> addr]
    BY Zenon
  <2>3. a \in [url : Urls, addr : {"public", "loopback", "special"}] /\ a.url = c.url /\ a.addr = addr
    <3>1. c.url \in Urls
      BY DEF ExRecord
    <3> QED
      BY Zenon, <2>2, <3>1
  <2>4. ArrivedOK(a)
    BY Zenon, <1>0, <1>2, <1>8, <2>3 DEF ArrivedOK, ExecuteOK, Guarded, Blocked
  <2>5. PICK A : A = s.arrived \cup {a}
    BY Zenon
  <2>6. A \in SUBSET [url : Urls, addr : {"public", "loopback", "special"}]
    <3>1. s.arrived \in SUBSET [url : Urls, addr : {"public", "loopback", "special"}]
      BY DEF ServerRecord
    <3> QED
      BY Zenon, <2>3, <2>5, <3>1
  <2>7. PICK t : t = [s EXCEPT !.arrived = A]
    BY Zenon
  <2>8. t \in ServerRecord /\ t.executed = s.executed /\ t.strays = s.strays /\ t.partial = s.partial /\ t.waited = s.waited /\ t.arrived = A
    BY <2>6, <2>7 DEF ServerRecord
  <2>9. server' = t
    BY Zenon, <1>0, <1>1, <1>8, <2>1, <2>2, <2>5, <2>7
  <2>10. ServerOK(t)
    BY Zenon, <2>1, <2>4, <2>5, <2>8 DEF ServerOK
  <2>11. ServerOK(server)'
    BY Zenon, <1>2, <2>9, <2>10 DEF ServerOK, ArrivedOK, UrlOK, RetrySafe
  <2>12. ExecuteOK(ex)'
    BY Zenon, <1>2, <1>3, <1>4, <1>6, <2>1, <2>8, <2>9 DEF ExecuteOK, UrlOK, RetrySafe
  <2> QED
    BY Zenon, <1>2, <2>11, <2>12 DEF ClientBuilt
<1> QED
  BY Zenon, <1>7, <1>8

\* A redirect stays with the origin of the first URL; what it leads to is the
\* same request, which did not take effect, or a GET.
LEMMA RedirectKeeps ==
    ASSUME ClientBuilt, NEW to \in Targets, NEW same \in BOOLEAN, Redirect(to, same)
    PROVE  ClientBuilt'
<1>0. PICK c \in ExRecord : c = ex /\ ExecuteOK(c)
  BY Zenon DEF ClientBuilt, ExecuteOK
<1>1. UNCHANGED <<rq, bodies>> /\ c.pc = "served" /\ bodies = 0
  BY Zenon, <1>0 DEF Redirect, ExecuteOK
<1>e. Executes \/ UNCHANGED server
  BY Zenon DEF Redirect
<1>2. CASE ex' = [c EXCEPT !.pc = "neterror"]
  <2>1. PICK e : e = [c EXCEPT !.pc = "neterror"]
    BY Zenon
  <2>2. e \in ExRecord /\ e.pc = "neterror" /\ e.fresh = c.fresh /\ e.attempt = c.attempt /\ e.fromHeader = c.fromHeader
        /\ e.sleep = c.sleep
    BY <2>1 DEF ExRecord
  <2> QED
    BY Zenon, <1>0, <1>1, <1>2, <1>e, <2>1, <2>2, EffectStep DEF ExecuteOK
<1>3. CASE ex' = [ex EXCEPT !.pc = "returned", !.result = "redirect blocked"]
  <2>1. Returns("redirect blocked") /\ "redirect blocked" \in Results
    BY Zenon, <1>3 DEF Returns, Results
  <2>2. ex' \in ExRecord /\ ex'.pc = "returned" /\ ex'.fresh = ex.fresh /\ ex'.attempt = ex.attempt
        /\ (ex'.fromHeader => ex'.sleep <= MaxRetryAfter)
    BY Zenon, <2>1, ReturnsOK
  <2> QED
    BY Zenon, <1>0, <1>1, <1>e, <2>2, EffectStep
<1>4. CASE SameOrigin(rq.r.url, to) /\ ex' = [ex EXCEPT !.pc = "send", !.url = to, !.via = @ + 1, !.get = @ \/ ~same]
  <2>1. PICK v \in Nat : v = c.via + 1
    BY DEF ExRecord
  <2>g. PICK g \in BOOLEAN : g = (c.get \/ ~same)
    BY Zenon
  <2>2. PICK e : e = [c EXCEPT !.pc = "send", !.url = to, !.via = v, !.get = g]
    BY Zenon
  <2>3. to \in Urls
    BY Zenon DEF Urls
  <2>4. e \in ExRecord /\ e.pc = "send" /\ e.fresh = c.fresh /\ e.attempt = c.attempt /\ e.fromHeader = c.fromHeader
        /\ e.sleep = c.sleep /\ e.url = to /\ e.get = g
    BY <2>2, <2>3 DEF ExRecord
  <2>5. ~rq.urlErr /\ UrlOK(rq.r.url) /\ rq.r.url.scheme = rq.r.base.scheme
    BY Zenon, <1>0, <1>1, BaseOK DEF ExecuteOK
  <2>6. UrlOK(to)
    BY Zenon, <1>4, <2>5 DEF UrlOK, SameOrigin
  <2>8. ex' = e
    BY Zenon, <1>0, <1>4, <2>1, <2>2, <2>g
  <2>9. CASE same
    <3>1. UNCHANGED server
      BY Zenon, <2>9 DEF Redirect
    <3>2. ExecuteOK(e)
      BY Zenon, <1>0, <1>1, <2>4, <2>5, <2>6, <2>9, <2>g DEF ExecuteOK
    <3> QED
      BY Zenon, <1>1, <2>8, <3>1, <3>2, ExecuteStep
  <2>10. CASE ~same
    BY Zenon, <1>0, <1>1, <1>e, <2>4, <2>5, <2>6, <2>8, <2>10, <2>g, EffectStep DEF ExecuteOK
  <2> QED
    BY Zenon, <2>9, <2>10
<1> QED
  BY Zenon, <1>0, <1>2, <1>3, <1>4 DEF Redirect

\* What the network and the server answer, and what Execute does about it.
LEMMA AnswerKeeps ==
    ASSUME ClientBuilt,
           NetworkError \/ AnswerLost \/ TooManyRequests \/ ClientError \/ \E b \in BOOLEAN : ServerError(b)
    PROVE  ClientBuilt'
<1>0. PICK c \in ExRecord : c = ex /\ ExecuteOK(c)
  BY Zenon DEF ClientBuilt, ExecuteOK
<1>n. c.sleep \in Nat /\ c.sleep + 5 \in Nat
  BY DEF ExRecord
<1>r. {"network", "429", "429 exceeded", "4xx", "5xx"} \subseteq Results
  BY Zenon DEF Results
<1>s. ~LastAttempt /\ c.pc # "prepare" => rq.r.body # "stream"
  BY Zenon, <1>0 DEF ExecuteOK, LastAttempt
<1>1. CASE NetworkError
  <2>1. c.pc = "neterror" /\ UNCHANGED <<rq, server, bodies>>
    BY Zenon, <1>0, <1>1 DEF NetworkError
  <2>2. CASE LastAttempt \/ ~RetrySafe
    BY Zenon, <1>0, <1>1, <1>r, <2>1, <2>2, ReturnsStep DEF NetworkError
  <2>3. CASE ~(LastAttempt \/ ~RetrySafe)
    BY Zenon, <1>0, <1>1, <1>n, <2>1, <2>3, WaitStep DEF NetworkError
  <2> QED
    BY Zenon, <2>2, <2>3
<1>2. CASE AnswerLost
  <2>1. PICK e : e = [c EXCEPT !.pc = "neterror"]
    BY Zenon
  <2>2. e \in ExRecord /\ e.pc = "neterror" /\ e.fresh = c.fresh /\ e.attempt = c.attempt /\ e.fromHeader = c.fromHeader
        /\ e.sleep = c.sleep
    BY <2>1 DEF ExRecord
  <2>3. ex' = e /\ c.pc = "served" /\ (Executes \/ UNCHANGED server) /\ UNCHANGED <<rq, bodies>>
    BY Zenon, <1>0, <1>2, <2>1 DEF AnswerLost
  <2>4. bodies = 0
    BY Zenon, <1>0, <2>3 DEF ExecuteOK
  <2> QED
    BY Zenon, <1>0, <2>2, <2>3, <2>4, EffectStep DEF ExecuteOK
<1>3. CASE TooManyRequests
  <2>1. c.pc = "served" /\ UNCHANGED <<rq, bodies>>
    BY Zenon, <1>0, <1>3 DEF TooManyRequests
  <2>2. CASE (Returns("429") \/ Returns("429 exceeded")) /\ UNCHANGED server
    BY Zenon, <1>0, <1>r, <2>1, <2>2, ReturnsStep
  <2>3. CASE /\ ~LastAttempt
             /\ \/ Wait(FALSE, ex.sleep + 5)
                \/ \E h \in RetryAfters : Wait(TRUE, IF h < MaxRetryAfter THEN h ELSE MaxRetryAfter)
             /\ server' = [server EXCEPT !.strays = IF ex.get THEN @ + 1 ELSE @]
    <3>1. CASE Wait(FALSE, ex.sleep + 5)
      BY Zenon, <1>0, <1>n, <2>1, <2>3, <3>1, StrayStep
    <3>2. ASSUME NEW h \in RetryAfters, Wait(TRUE, IF h < MaxRetryAfter THEN h ELSE MaxRetryAfter)
          PROVE  ClientBuilt'
      <4>1. PICK n \in Nat : n = (IF h < MaxRetryAfter THEN h ELSE MaxRetryAfter) /\ n <= MaxRetryAfter
        BY HttpClientAssumption
      <4>2. Wait(TRUE, n)
        BY Zenon, <3>2, <4>1
      <4> QED
        BY Zenon, <1>0, <2>1, <2>3, <4>1, <4>2, StrayStep
    <3> QED
      BY Zenon, <2>3, <3>1, <3>2
  <2> QED
    BY Zenon, <1>3, <2>2, <2>3 DEF TooManyRequests
<1>4. CASE ClientError
  BY Zenon, <1>4, <1>r, ReturnsStep DEF ClientError
<1>5. ASSUME NEW b \in BOOLEAN, ServerError(b) PROVE ClientBuilt'
  <2>1. c.pc = "served" /\ (Executes \/ UNCHANGED server) /\ UNCHANGED <<rq, bodies>> /\ bodies = 0
    BY Zenon, <1>0, <1>5 DEF ServerError, ExecuteOK
  <2>2. CASE Returns("5xx")
    <3>1. ex' \in ExRecord /\ ex'.pc = "returned" /\ ex'.fresh = ex.fresh /\ ex'.attempt = ex.attempt
          /\ (ex'.fromHeader => ex'.sleep <= MaxRetryAfter)
      BY Zenon, <1>r, <2>2, ReturnsOK
    <3> QED
      BY Zenon, <1>0, <2>1, <3>1, EffectStep
  <2>3. CASE ~LastAttempt /\ RetrySafe /\ Wait(FALSE, ex.sleep)
    <3>1. ex' \in ExRecord /\ ex'.pc = "sleep" /\ ex'.fresh = ex.fresh /\ ex'.attempt = ex.attempt /\ ex'.fromHeader = FALSE
      BY Zenon, <1>0, <1>n, <2>3, WaitOK
    <3> QED
      BY Zenon, <1>0, <1>s, <2>1, <2>3, <3>1, EffectStep
  <2> QED
    BY Zenon, <1>5, <2>2, <2>3 DEF ServerError
<1> QED
  BY Zenon, <1>1, <1>2, <1>3, <1>4, <1>5

\* The wait ends; another attempt follows, never of a stream.
LEMMA SleepKeeps ==
    ASSUME ClientBuilt, SleepOver
    PROVE  ClientBuilt'
<1>0. PICK c \in ExRecord : c = ex /\ ExecuteOK(c)
  BY Zenon DEF ClientBuilt, ExecuteOK
<1>1. c.pc = "sleep" /\ UNCHANGED <<rq, bodies>> /\ rq.r.body # "stream"
  BY Zenon, <1>0 DEF SleepOver, ExecuteOK
<1>2. CASE Returns("ctx") /\ UNCHANGED server
  <2>1. "ctx" \in Results
    BY Zenon DEF Results
  <2> QED
    BY Zenon, <1>0, <1>1, <1>2, <2>1, ReturnsStep
<1>3. CASE /\ ex' = [ex EXCEPT !.pc = "attempt", !.attempt = @ + 1, !.fresh = FALSE]
           /\ server' = [server EXCEPT !.waited = IF ex.fromHeader /\ ex.sleep > @ THEN ex.sleep ELSE @]
  <2>1. PICK s \in ServerRecord : s = server /\ ServerOK(s)
    BY Zenon DEF ClientBuilt, ServerOK
  <2>2. c.sleep \in Nat /\ s.waited \in Nat /\ c.attempt + 1 \in Nat
    <3>1. c.sleep \in Nat /\ c.attempt + 1 \in Nat
      BY DEF ExRecord
    <3>2. s.waited \in Nat
      BY DEF ServerRecord
    <3> QED
      BY Zenon, <3>1, <3>2
  <2>3. PICK w \in Nat : w = IF c.fromHeader /\ c.sleep > s.waited THEN c.sleep ELSE s.waited
    BY Zenon, <2>2
  <2>4. w <= MaxRetryAfter
    BY Zenon, <1>0, <2>1, <2>3 DEF ExecuteOK, ServerOK
  <2>5. PICK n \in Nat : n = c.attempt + 1
    BY Zenon, <2>2
  <2>6. PICK e : e = [c EXCEPT !.pc = "attempt", !.attempt = n, !.fresh = FALSE]
    BY Zenon
  <2>7. e \in ExRecord /\ e.pc = "attempt" /\ e.fromHeader = c.fromHeader /\ e.sleep = c.sleep
    BY <2>6 DEF ExRecord
  <2>8. PICK t : t = [s EXCEPT !.waited = w]
    BY Zenon
  <2>9. t \in ServerRecord /\ t.executed = s.executed /\ t.strays = s.strays /\ t.partial = s.partial /\ t.waited = w /\ t.arrived = s.arrived
    BY <2>8 DEF ServerRecord
  <2>10. ex' = e /\ server' = t
    BY Zenon, <1>0, <1>3, <2>1, <2>3, <2>5, <2>6, <2>8
  <2>11. ServerOK(server)'
    BY Zenon, <1>1, <2>1, <2>4, <2>9, <2>10 DEF ServerOK, ArrivedOK, UrlOK, RetrySafe
  <2>12. ExecuteOK(ex)'
    BY Zenon, <1>0, <1>1, <2>1, <2>7, <2>9, <2>10 DEF ExecuteOK, RetrySafe
  <2> QED
    BY Zenon, <1>1, <2>11, <2>12 DEF ClientBuilt
<1> QED
  BY Zenon, <1>2, <1>3 DEF SleepOver

LEMMA NoneLeft == 1 - 1 = 0
  OBVIOUS

\* A success, or a redirect that is not followed, and the reading of its body.
LEMMA SuccessKeeps ==
    ASSUME ClientBuilt, Success \/ RedirectReturned \/ ReadResponse
    PROVE  ClientBuilt'
<1>0. PICK c \in ExRecord : c = ex /\ ExecuteOK(c)
  BY Zenon DEF ClientBuilt, ExecuteOK
<1>1. CASE Success \/ RedirectReturned
  <2>1. PICK e : e = [c EXCEPT !.pc = "read"]
    BY Zenon
  <2>2. e \in ExRecord /\ e.pc = "read" /\ e.fresh = c.fresh /\ e.attempt = c.attempt /\ e.fromHeader = c.fromHeader
        /\ e.sleep = c.sleep
    BY <2>1 DEF ExRecord
  <2>3. ex' = e /\ c.pc = "served" /\ (Executes \/ UNCHANGED server) /\ UNCHANGED rq /\ bodies = 0
        /\ bodies' = bodies + 1
    BY Zenon, <1>0, <1>1, <2>1 DEF Success, RedirectReturned, ExecuteOK
  <2>4. bodies' = 1
    BY <2>3
  <2> QED
    BY Zenon, <1>0, <2>2, <2>3, <2>4, EffectStep DEF ExecuteOK
<1>2. CASE ReadResponse
  <2>1. PICK result \in {"value", "nil", "too large", "malformed"} : Returns(result)
    BY Zenon, <1>2 DEF ReadResponse
  <2>2. result \in Results
    BY Zenon DEF Results
  <2>3. c.pc = "read" /\ bodies = 1 /\ bodies' = bodies - 1 /\ UNCHANGED <<rq, server>>
    BY Zenon, <1>0, <1>2 DEF ReadResponse, ExecuteOK
  <2>4. bodies' = 0
    BY Zenon, <2>3, NoneLeft
  <2>5. ex' \in ExRecord /\ ex'.pc = "returned" /\ ex'.fresh = ex.fresh /\ ex'.attempt = ex.attempt
        /\ (ex'.fromHeader => ex'.sleep <= MaxRetryAfter)
    BY Zenon, <2>1, <2>2, ReturnsOK
  <2>6. ExecuteOK(ex)'
    BY Zenon, <1>0, <2>3, <2>4, <2>5 DEF ExecuteOK, RetrySafe
  <2>7. ServerOK(server)'
    BY Zenon, <2>3 DEF ClientBuilt, ServerOK, ArrivedOK, UrlOK, RetrySafe
  <2> QED
    BY Zenon, <2>3, <2>6, <2>7 DEF ClientBuilt
<1> QED
  BY Zenon, <1>1, <1>2

LEMMA HttpClientStep == ClientInv /\ [HttpClientNext]_clientVars => ClientInv'
<1> SUFFICES ASSUME ClientInv, [HttpClientNext]_clientVars PROVE ClientInv'
  OBVIOUS
<1>1. CASE HttpClientInit
  <2>1. ex.pc = "idle"
    BY <1>1 DEF HttpClientInit, Idle
  <2>2. CASE HttpClientNext
    <3>1. \E r \in HttpRequests : NewRequest(r)
      BY Zenon, <2>1, <2>2 DEF HttpClientNext, PrepareBody, Attempt, Connect, NetworkError, AnswerLost,
         TooManyRequests, ClientError, SleepOver, Success, ReadResponse, RedirectReturned, Redirect, ServerError
    <3> QED
      BY Zenon, <1>1, <3>1, BuiltStarts DEF ClientInv
  <2>3. CASE UNCHANGED clientVars
    BY Zenon, <1>1, <2>3 DEF clientVars, ClientInv, HttpClientInit
  <2> QED
    BY Zenon, <2>2, <2>3
<1>2. CASE ClientBuilt
  <2>1. rq # NoRequest
    BY <1>2 DEF ClientBuilt, BuiltRequest, NoRequest
  <2>2. ASSUME NEW r \in HttpRequests PROVE ~NewRequest(r)
    BY Zenon, <2>1 DEF NewRequest
  <2>3. CASE UNCHANGED clientVars
    <3>1. UNCHANGED <<rq, ex, server, bodies>> /\ ExecuteOK(ex)
      BY Zenon, <1>2, <2>3 DEF clientVars, ClientBuilt
    <3> QED
      BY Zenon, <1>2, <3>1, ExecuteStep DEF ClientInv
  <2> QED
    BY Zenon, <1>2, <2>2, <2>3, AttemptKeeps, ConnectKeeps, RedirectKeeps, AnswerKeeps, SleepKeeps, SuccessKeeps
       DEF HttpClientNext, ClientInv
<1> QED
  BY Zenon, <1>1, <1>2 DEF ClientInv

\* Whatever the request, the answers of the servers, their redirects and what
\* names resolve to: Execute repeats only what is safe to repeat, but for a 429
\* to the GET a redirect made of a request; it sends whole bodies, waits no longer than the cap, closes what it opened and stays with the
\* origin of its base URL.
THEOREM RetriesAreSafe == HttpClientSpec => []RetriedSafely
<1>1. ClientInv => RetriedSafely
  <2>1. CASE HttpClientInit
    <3>1. rq = NoRequest /\ ~server.partial /\ server.waited = 0 /\ server.arrived = {} /\ ex.pc = "idle"
      BY <2>1 DEF HttpClientInit, Idle
    <3>2. 0 <= MaxRetryAfter
      BY HttpClientAssumption
    <3> QED
      BY Zenon, <3>1, <3>2 DEF RetriedSafely
  <2>2. CASE ClientBuilt
    BY Zenon, <2>2 DEF ClientBuilt, ExecuteOK, ServerOK, ArrivedOK, UrlOK, RetrySafe, RetriedSafely
  <2> QED
    BY Zenon, <2>1, <2>2 DEF ClientInv
<1>2. HttpClientInit => ClientInv
  BY Zenon DEF ClientInv
<1> QED
  BY HttpClientStep, <1>1, <1>2, PTL DEF HttpClientSpec

-----------------------------------------------------------------------------
(* GrpcCall.                                                               *)

\* What a service may answer: nothing, or a status, whose ErrorInfo goes with its
\* code.
Reasons == {e.reason : e \in AppErrs} \cup GrpcCodes
Texts == {"message", "generic", "cause"}
Statuses == [type : {"status"}, kind : {""} \cup Kinds, code : GrpcCodes, reason : {NoInfo} \cup Reasons, text : Texts]
Answered == {NoError} \cup {e \in Statuses : e.reason # NoInfo => e.code = CodeOf(e.kind)}

CallRecord == [pc : {"idle", "send", "arrive", "handler", "answered", "done"}, id : {"none", "req", "fresh"},
               token : {"none", "valid"} \cup {c.token : c \in ClientConfigs}, deadline : BOOLEAN, attempts : Nat,
               err : Answered]

GrpcTypes ==
    /\ link \in [1 .. Hops -> CallRecord]
    /\ origin \in HandlerErrors
    /\ client \in ClientConfigs /\ NewClientOK(client)

\* While a service is called the handlers before it run, and what it answered is
\* passed on once.
Underway == {"send", "arrive", "handler", "answered"}
Chained ==
    \A h, i \in 1 .. Hops : i < h =>
        /\ link[h].pc \in Underway => link[i].pc = "handler"
        /\ link[h].pc = "done" => link[i].pc \in {"handler", "answered", "done"}

MostAttempts(c) == IF c.attempts = 0 THEN 1 ELSE c.attempts

\* What holds of each call r, to service h with the client c and the method m: its
\* token and its text; the ID of the first request (first is the ID of its call);
\* how often it is tried; and, once answered after the last handler returned the
\* AppError o, that error's code and kind.
TokenOK(r, h, c, m) ==
    /\ r.pc = "handler" /\ h \in Authed /\ m = "private" => r.token = "valid"
    /\ r.err.text = "cause" => c.token = "fails"
SameID(x, first) == (IF x = "req" THEN "req" ELSE "fresh") = (IF first = "req" THEN "req" ELSE "fresh")
IdOK(r, first) ==
    /\ r.pc # "idle" => SameID(r.id, first)
    /\ r.pc = "handler" => r.id \in {"req", "fresh"}
TriesOK(r, c) ==
    /\ r.attempts <= MostAttempts(c)
    /\ r.pc = "send" => r.attempts < MostAttempts(c)
Carries(e, o) ==
    /\ e.type = "status" /\ e.reason = o.reason /\ e.reason # NoInfo
    /\ Agreed(o) => InfoKind(e) = KindSeen(o)
CarryOK(r, o) == r.pc = "answered" /\ o.type = "app" => Carries(r.err, o)

CallsOK ==
    \A h \in 1 .. Hops :
        /\ TokenOK(link[h], h, client, method) /\ IdOK(link[h], link[1].id)
        /\ TriesOK(link[h], client) /\ CarryOK(link[h], origin)

\* An AppError is there only once the last service has answered.
OriginOK(r, o) == o.type = "app" => r.pc \in {"answered", "done"}

InCall == GrpcTypes /\ Chained /\ CallsOK /\ OriginOK(link[Hops], origin)

\* Before NewClient nothing is called.
GrpcInv == GrpcInit \/ InCall

\* What Status and FromError make of an error.
LEMMA Codes ==
    /\ \A k \in {""} \cup Kinds : CodeOf(k) \in GrpcCodes
    /\ \A c : KindOf(c) \in Kinds
    /\ "" \notin Kinds /\ CodeOf("") = "Internal" /\ KindOf("Internal") = "operation"
    /\ NoInfo \notin Reasons
<1>1. \A k \in {""} \cup Kinds : CodeOf(k) \in GrpcCodes
  BY DEF Kinds, CodeOf, GrpcCodes
<1>2. \A c : KindOf(c) \in Kinds
  BY DEF Kinds, KindOf
<1>3. "" \notin Kinds /\ CodeOf("") = "Internal" /\ KindOf("Internal") = "operation"
  BY DEF Kinds, KindOf, CodeOf
<1>4. NoInfo \notin GrpcCodes
  BY DEF GrpcCodes, NoInfo
<1>5. NoInfo \notin Reasons
  BY Zenon, <1>4, GrpcCallAssumption DEF Reasons
<1> QED
  BY Zenon, <1>1, <1>2, <1>3, <1>5

LEMMA PlainTypes ==
    ASSUME NEW t, NEW x, NEW e, e = PlainError(t, x)
    PROVE  e.type = t /\ e.text = x
<1>1. PlainError(t, x).type = t /\ PlainError(t, x).text = x
  BY Zenon DEF PlainError
<1> QED
  BY Zenon, <1>1

LEMMA PlainErrors == NoError.type = "nil" /\ NoError.text = ""
<1>1. PlainError("nil", "").type = "nil" /\ PlainError("nil", "").text = ""
  BY Zenon DEF PlainError
<1> QED
  BY Zenon, <1>1 DEF NoError

LEMMA PlainStatuses ==
    ASSUME NEW c \in GrpcCodes, NEW t \in Texts
    PROVE  PlainStatus(c, t) \in Answered /\ PlainStatus(c, t).type = "status" /\ PlainStatus(c, t).text = t
<1> DEFINE s == [type |-> "status", kind |-> "", code |-> c, reason |-> NoInfo, text |-> t]
<1>1. s \in Statuses
  BY Zenon DEF Statuses
<1>2. s.type = "status" /\ s.reason = NoInfo /\ s.text = t
  BY Zenon
<1> QED
  BY Zenon, <1>1, <1>2 DEF PlainStatus, GrpcStatus, Answered

\* The status of an AppError.
Made(s, k, w, t) ==
    /\ s.type = "status" /\ s.kind = k /\ s.code = CodeOf(k)
    /\ s.reason = w /\ s.reason # NoInfo /\ s.text = t

LEMMA AppErrors ==
    ASSUME NEW k \in {""} \cup Kinds, NEW w \in Reasons, NEW t \in Texts
    PROVE  Status(AppError(k, w, t)) \in Answered /\ Made(Status(AppError(k, w, t)), k, w, t)
<1>1. Status(AppError(k, w, t)) = GrpcStatus(CodeOf(k), k, w, t)
  BY DEF Status, AppErrorStatus, AppError
<1>2. PICK c \in GrpcCodes : c = CodeOf(k)
  BY Zenon, Codes
<1> DEFINE s == [type |-> "status", kind |-> k, code |-> c, reason |-> w, text |-> t]
<1>3. s \in Statuses
  BY Zenon DEF Statuses
<1>4. s.type = "status" /\ s.kind = k /\ s.code = c /\ s.reason = w /\ s.text = t
  BY Zenon
<1>5. Status(AppError(k, w, t)) = s
  BY Zenon, <1>1, <1>2 DEF GrpcStatus
<1> QED
  BY Zenon, <1>2, <1>3, <1>4, <1>5, Codes DEF Answered, Made

\* A handler's AppError is answered with its code and kind, and no other error
\* with the text of a cause.
LEMMA HandlerAnswers ==
    ASSUME NEW e \in HandlerErrors
    PROVE  /\ Status(e) \in Answered /\ Status(e).text # "cause"
           /\ e.type = "app" => e.kind \in {""} \cup Kinds /\ Carries(Status(e), e)
<1>1. CASE e = NoError \/ e = PlainError("empty", "")
  <2>1. e.type \in {"nil", "empty"} /\ NoError.text # "cause"
    <3>1. NoError.text # "cause"
      BY Zenon, PlainErrors
    <3>2. e = NoError => e.type = "nil"
      BY Zenon, PlainErrors
    <3>3. e = PlainError("empty", "") => e.type = "empty"
      BY Zenon, PlainTypes
    <3> QED
      BY Zenon, <1>1, <3>1, <3>2, <3>3
  <2>2. Status(e) = NoError /\ e.type # "app"
    BY <2>1 DEF Status
  <2> QED
    BY Zenon, <2>1, <2>2 DEF Answered
<1>2. CASE \E x \in AppErrs : e = AppError(x.kind, x.reason, "message")
  <2>1. PICK x \in AppErrs : e = AppError(x.kind, x.reason, "message")
    BY Zenon, <1>2
  <2>2. PICK k \in {""} \cup Kinds : k = x.kind
    BY Zenon, GrpcCallAssumption
  <2>3. PICK w \in Reasons : w = x.reason
    BY Zenon DEF Reasons
  <2>4. PICK s \in Answered : s = Status(e) /\ Made(s, k, w, "message")
    <3>1. "message" \in Texts /\ e = AppError(k, w, "message")
      BY Zenon, <2>1, <2>2, <2>3 DEF Texts
    <3> QED
      BY Zenon, <3>1, AppErrors
  <2>5. e.kind = k /\ e.reason = w
    BY <2>1, <2>2, <2>3 DEF AppError
  <2>6. InfoKind(s) = KindSeen(e)
    BY Zenon, <2>4, <2>5, Codes DEF InfoKind, KindSeen, Made
  <2> QED
    BY Zenon, <2>4, <2>5, <2>6 DEF Carries, Made
<1>3. CASE \E c \in GrpcCodes : e = PlainStatus(c, "message")
  <2>1. PICK c \in GrpcCodes : e = PlainStatus(c, "message")
    BY Zenon, <1>3
  <2>2. e \in Answered /\ e.type = "status" /\ e.text = "message"
    BY Zenon, <2>1, PlainStatuses DEF Texts
  <2>3. Status(e) = e
    BY <2>2 DEF Status
  <2> QED
    BY Zenon, <2>2, <2>3
<1>4. CASE \E t \in {"canceled", "deadline", "other", "panic"} : e = PlainError(t, "cause")
  <2>1. e.type \in {"canceled", "deadline", "other", "panic"}
    <3>1. PICK t \in {"canceled", "deadline", "other", "panic"} : e = PlainError(t, "cause")
      BY Zenon, <1>4
    <3>2. e.type = t
      BY Zenon, <3>1, PlainTypes
    <3> QED
      BY Zenon, <3>2
  <2>2. PICK c \in {"Canceled", "DeadlineExceeded", "Internal"} : Status(e) = PlainStatus(c, "generic")
    BY <2>1 DEF Status
  <2>3. c \in GrpcCodes
    BY DEF GrpcCodes
  <2>4. Status(e) \in Answered /\ Status(e).text = "generic"
    BY Zenon, <2>2, <2>3, PlainStatuses DEF Texts
  <2> QED
    BY <2>1, <2>4
<1> QED
  BY Zenon, <1>1, <1>2, <1>3, <1>4 DEF HandlerErrors

\* FromError keeps the code of an ErrorInfo, and its kind where the process does
\* not know the code under another.
Kept(a, h, k, w) ==
    a.reason # NoInfo => /\ w = a.reason
                         /\ a.reason \in DOMAIN Registry[h] => k = Registry[h][a.reason]
                         /\ a.reason \notin DOMAIN Registry[h] => k = InfoKind(a)

LEMMA Rebuilt ==
    ASSUME NEW a \in Answered, a # NoError, NEW h \in 0 .. Hops
    PROVE  \E k \in Kinds, w \in Reasons, t \in Texts :
             FromError(h, a) = AppError(k, w, t) /\ t = a.text /\ Kept(a, h, k, w)
<1>1. /\ a.type = "status" /\ a.kind \in {""} \cup Kinds /\ a.code \in GrpcCodes
      /\ a.reason \in {NoInfo} \cup Reasons /\ a.text \in Texts
  BY Zenon DEF Answered, Statuses
<1>2. a.type # "nil"
  BY <1>1
<1>3. CASE a.reason = NoInfo
  <2>1. FromError(h, a) = AppError(KindOf(a.code), a.code, a.text)
    BY Zenon, <1>2, <1>3 DEF FromError
  <2> QED
    BY Zenon, <1>1, <1>3, <2>1, Codes DEF Reasons, Kept
<1>4. CASE a.reason # NoInfo /\ a.reason \in DOMAIN Registry[h]
  <2>1. FromError(h, a) = AppError(Registry[h][a.reason], a.reason, a.text)
    BY Zenon, <1>2, <1>4 DEF FromError
  <2>2. Registry[h][a.reason] \in Kinds
    BY Zenon, <1>4, GrpcCallAssumption
  <2> QED
    BY Zenon, <1>1, <1>4, <2>1, <2>2 DEF Kept
<1>5. CASE a.reason # NoInfo /\ a.reason \notin DOMAIN Registry[h]
  <2>1. FromError(h, a) = AppError(InfoKind(a), a.reason, a.text)
    BY Zenon, <1>2, <1>5 DEF FromError
  <2>2. InfoKind(a) \in Kinds
    BY Zenon, <1>1, Codes DEF InfoKind
  <2> QED
    BY Zenon, <1>1, <1>5, <2>1, <2>2 DEF Kept
<1> QED
  BY Zenon, <1>3, <1>4, <1>5

\* The kind a process rebuilds is the AppError's, if all agree on its code.
LEMMA RebuiltKind ==
    ASSUME NEW a, NEW o, NEW h \in 0 .. Hops, NEW k, NEW w, Kept(a, h, k, w), Carries(a, o), Agreed(o)
    PROVE  k = KindSeen(o)
<1>1. CASE a.reason \in DOMAIN Registry[h]
  <2>1. k = o.kind /\ k \in Kinds
    BY Zenon, <1>1, GrpcCallAssumption DEF Carries, Agreed, Kept
  <2> QED
    BY Zenon, <2>1, Codes DEF KindSeen
<1>2. CASE a.reason \notin DOMAIN Registry[h]
  BY Zenon, <1>2 DEF Carries, Kept
<1> QED
  BY Zenon, <1>1, <1>2

\* Passing an answer on, as it is or as an AppError, keeps what it carries.
LEMMA AnswersPassed ==
    ASSUME NEW a \in Answered, NEW h \in 0 .. Hops, NEW e \in {a, FromError(h, a)}
    PROVE  /\ Status(e) \in Answered /\ Status(e).text = a.text
           /\ \A o : Carries(a, o) => Carries(Status(e), o)
<1>1. CASE a = NoError
  <2>1. FromError(h, a) = NoError /\ a.type = "nil"
    BY Zenon, <1>1, PlainErrors DEF FromError
  <2>2. Status(NoError) = NoError
    BY PlainErrors DEF Status
  <2> QED
    BY Zenon, <1>1, <2>1, <2>2
<1>2. CASE a # NoError
  <2>1. a.type = "status"
    BY Zenon, <1>2 DEF Answered, Statuses
  <2>2. CASE e = a
    <3>1. Status(e) = a
      BY <2>1, <2>2 DEF Status
    <3> QED
      BY Zenon, <3>1
  <2>3. CASE e = FromError(h, a)
    <3>1. PICK k \in Kinds, w \in Reasons, t \in Texts :
             FromError(h, a) = AppError(k, w, t) /\ t = a.text /\ Kept(a, h, k, w)
      BY Zenon, <1>2, Rebuilt
    <3>2. PICK s \in Answered : s = Status(e) /\ Made(s, k, w, t)
      <4>1. k \in {""} \cup Kinds /\ e = AppError(k, w, t)
        BY Zenon, <2>3, <3>1
      <4> QED
        BY Zenon, <4>1, AppErrors
    <3>3. InfoKind(s) = k
      BY Zenon, <3>2, Codes DEF InfoKind, Made
    <3>4. ASSUME NEW o, Carries(a, o)
          PROVE  Carries(s, o)
      <4>1. a.reason # NoInfo /\ a.reason = o.reason
        BY Zenon, <3>4 DEF Carries
      <4>2. Agreed(o) => k = KindSeen(o)
        BY Zenon, <3>1, <3>4, <4>1, RebuiltKind
      <4> QED
        BY Zenon, <3>1, <3>2, <3>3, <4>1, <4>2 DEF Carries, Made, Kept
    <3> QED
      BY Zenon, <3>1, <3>2, <3>4 DEF Made
  <2> QED
    BY Zenon, <2>2, <2>3
<1> QED
  BY Zenon, <1>1, <1>2


LEMMA HopNumbers ==
    /\ Hops \in Nat \ {0} /\ 1 \in 1 .. Hops /\ Hops \in 1 .. Hops
    /\ \A h \in 1 .. Hops : h = Hops \/ h < Hops
    /\ 0 \in 0 .. Hops /\ \A h \in 1 .. Hops : h \in 0 .. Hops
<1>1. Hops \in Nat \ {0}
  BY Zenon, GrpcCallAssumption
<1> QED
  BY <1>1

\* Where a service is still to be called there is no AppError yet.
LEMMA NoneYet ==
    ASSUME InCall, NEW h \in 1 .. Hops, link[h].pc \in {"idle", "send", "arrive"}
    PROVE  origin.type # "app"
<1>1. SUFFICES ASSUME origin.type = "app" PROVE FALSE
  BY Zenon
<1>2. link[Hops].pc \in {"answered", "done"}
  BY Zenon, <1>1 DEF InCall, OriginOK
<1>3. h # Hops
  BY Zenon, <1>2
<1>4. link[h].pc \in {"handler", "answered", "done"}
  BY Zenon, <1>2, <1>3, HopNumbers DEF InCall, Chained, Underway
<1> QED
  BY Zenon, <1>4

\* The call of one service moves on: the handlers before it run, and no service
\* after it is called.
LEMMA OneCall ==
    ASSUME InCall, UNCHANGED <<client, method>>, NEW h \in 1 .. Hops, NEW r \in CallRecord,
           link' = [link EXCEPT ![h] = r], r.pc \in Underway,
           h = Hops \/ link[h].pc \in {"idle", "send", "arrive"},
           \A i \in 1 .. Hops : i < h => link[i].pc = "handler",
           h = 1 => SameID(r.id, link[1].id), IdOK(r, link[1].id), TokenOK(r, h, client, method),
           TriesOK(r, client), origin' \in HandlerErrors, CarryOK(r, origin'),
           origin'.type = "app" => h = Hops /\ r.pc = "answered"
    PROVE  InCall'
<1>1. GrpcTypes /\ Chained /\ CallsOK
  BY Zenon DEF InCall
<1>2. link'[h] = r /\ (\A i \in 1 .. Hops : i # h => link'[i] = link[i]) /\ link' \in [1 .. Hops -> CallRecord]
  BY Zenon, <1>1 DEF GrpcTypes
<1>3. \A i \in 1 .. Hops : i > h => link[i].pc = "idle"
  <2>1. SUFFICES ASSUME NEW i \in 1 .. Hops, i > h, link[i].pc # "idle" PROVE FALSE
    OBVIOUS
  <2>2. h < i /\ h # Hops
    BY <2>1
  <2>3. link[i].pc \in Underway \cup {"done"}
    BY Zenon, <1>1, <2>1 DEF GrpcTypes, CallRecord, Underway
  <2>4. link[h].pc \in {"handler", "answered", "done"}
    BY Zenon, <1>1, <2>2, <2>3 DEF Chained
  <2> QED
    BY Zenon, <2>2, <2>4
<1>4. \A i \in 1 .. Hops : i # h => link[i].pc \in {"handler", "idle"}
  <2>1. \A i \in 1 .. Hops : i # h => i < h \/ i > h
    OBVIOUS
  <2> QED
    BY Zenon, <1>3, <2>1
<1>5. GrpcTypes'
  BY Zenon, <1>1, <1>2 DEF GrpcTypes
<1>6. Chained'
  <2>1. SUFFICES ASSUME NEW j \in 1 .. Hops, NEW i \in 1 .. Hops, i < j
                 PROVE  /\ link'[j].pc \in Underway => link'[i].pc = "handler"
                        /\ link'[j].pc = "done" => link'[i].pc \in {"handler", "answered", "done"}
    BY Zenon DEF Chained
  <2>2. CASE j = h
    <3>1. i # h /\ link[i].pc = "handler"
      BY <2>1, <2>2
    <3> QED
      BY Zenon, <1>2, <2>2, <3>1 DEF Underway
  <2>3. CASE j # h /\ i = h
    <3>1. j > h
      BY <2>1, <2>3
    <3>2. link'[j].pc = "idle"
      BY Zenon, <1>2, <1>3, <2>3, <3>1
    <3> QED
      BY Zenon, <3>2 DEF Underway
  <2>4. CASE j # h /\ i # h
    BY Zenon, <1>1, <1>2, <2>1, <2>4 DEF Chained
  <2> QED
    BY Zenon, <2>2, <2>3, <2>4
<1>7. SameID(link'[1].id, link[1].id)
  BY Zenon, <1>2, HopNumbers DEF SameID
<1>8. CallsOK'
  <2>1. SUFFICES ASSUME NEW i \in 1 .. Hops
                 PROVE  /\ TokenOK(link'[i], i, client, method) /\ IdOK(link'[i], link'[1].id)
                        /\ TriesOK(link'[i], client) /\ CarryOK(link'[i], origin')
    BY Zenon DEF CallsOK
  <2>2. IdOK(link'[i], link[1].id) /\ TokenOK(link'[i], i, client, method) /\ TriesOK(link'[i], client)
    BY Zenon, <1>1, <1>2, <2>1 DEF CallsOK
  <2>3. IdOK(link'[i], link'[1].id)
    BY Zenon, <1>7, <2>2 DEF IdOK, SameID
  <2>4. CarryOK(link'[i], origin')
    BY Zenon, <1>2, <1>4, <2>1 DEF CarryOK
  <2> QED
    BY Zenon, <2>2, <2>3, <2>4
<1>9. OriginOK(link'[Hops], origin')
  BY Zenon, <1>2 DEF OriginOK
<1> QED
  BY Zenon, <1>5, <1>6, <1>8, <1>9 DEF InCall


\* The records the steps build, and what an attempt counts.
LEMMA CallShapes ==
    /\ NoCall \in CallRecord /\ NoCall.pc = "idle" /\ NoCall.attempts = 0 /\ NoCall.err.text # "cause"
    /\ \A i : LET r == [NoCall EXCEPT !.pc = "send", !.id = i]
              IN  /\ r.pc = "send" /\ r.id = i /\ r.attempts = 0 /\ r.err.text # "cause"
                  /\ i \in {"none", "req", "fresh"} => r \in CallRecord
<1>1. NoError \in Answered
  BY Zenon DEF Answered
<1>2. PICK e \in Answered : e = NoError /\ e.text # "cause"
  BY Zenon, <1>1, PlainErrors
<1>3. NoCall = [pc |-> "idle", id |-> "none", token |-> "none", deadline |-> FALSE, attempts |-> 0, err |-> e]
  BY Zenon, <1>2 DEF NoCall
<1> QED
  BY <1>2, <1>3 DEF CallRecord

LEMMA Attempts ==
    ASSUME InCall
    PROVE  MostAttempts(client) \in Nat \ {0} /\ client # NoClient
<1>1. client.attempts = 0 \/ client.attempts \in 2 .. 5
  BY Zenon DEF InCall, GrpcTypes, NewClientOK
<1>2. NoClient.attempts = -1
  BY DEF NoClient
<1> QED
  BY <1>1, <1>2 DEF MostAttempts

LEMMA ClientCalls ==
    ASSUME GrpcInit, NewClient
    PROVE  InCall'
<1>1. PICK c \in ClientConfigs, m \in {"private"} \cup PublicMethods, id \in {"req", "none"} :
         /\ NewClientOK(c)
         /\ client' = c /\ method' = m
         /\ link' = [link EXCEPT ![1] = [NoCall EXCEPT !.pc = "send", !.id = id]]
  BY Zenon DEF NewClient
<1>2. PICK r : r = [NoCall EXCEPT !.pc = "send", !.id = id]
  BY Zenon
<1>3. r \in CallRecord /\ r.pc = "send" /\ r.id = id /\ r.attempts = 0 /\ r.err.text # "cause"
  BY <1>2, CallShapes
<1>4. link = [h \in 1 .. Hops |-> NoCall] /\ origin' = NoError
  BY Zenon DEF GrpcInit, NewClient
<1>5. link'[1] = r /\ (\A i \in 1 .. Hops : i # 1 => link'[i] = NoCall) /\ link' \in [1 .. Hops -> CallRecord]
  BY Zenon, <1>1, <1>2, <1>3, <1>4, HopNumbers, CallShapes
<1>6. NoError \in HandlerErrors /\ NoError.type # "app"
  BY Zenon, PlainErrors DEF HandlerErrors
<1>7. GrpcTypes'
  BY Zenon, <1>1, <1>4, <1>5, <1>6 DEF GrpcTypes
<1>8. Chained'
  <2>1. SUFFICES ASSUME NEW j \in 1 .. Hops, NEW i \in 1 .. Hops, i < j
                 PROVE  /\ link'[j].pc \in Underway => link'[i].pc = "handler"
                        /\ link'[j].pc = "done" => link'[i].pc \in {"handler", "answered", "done"}
    BY Zenon DEF Chained
  <2>2. j # 1
    BY <2>1
  <2>3. link'[j].pc = "idle"
    BY Zenon, <1>5, <2>2, CallShapes
  <2> QED
    BY Zenon, <2>3 DEF Underway
<1>9. MostAttempts(c) \in Nat /\ 0 < MostAttempts(c) /\ 0 <= MostAttempts(c)
  BY <1>1 DEF NewClientOK, MostAttempts
<1>10. CallsOK'
  <2>1. SUFFICES ASSUME NEW i \in 1 .. Hops
                 PROVE  /\ TokenOK(link'[i], i, c, method') /\ IdOK(link'[i], link'[1].id)
                        /\ TriesOK(link'[i], c) /\ CarryOK(link'[i], origin')
    BY Zenon, <1>1 DEF CallsOK
  <2>2. link'[i].attempts = 0 /\ link'[i].err.text # "cause" /\ ((i # 1 /\ link'[i].pc = "idle") \/ (i = 1 /\ link'[i].pc = "send"))
    BY Zenon, <1>3, <1>5, CallShapes
  <2>3. TokenOK(link'[i], i, c, method')
    BY Zenon, <2>2 DEF TokenOK
  <2>4. IdOK(link'[i], link'[1].id)
    BY Zenon, <2>2 DEF IdOK, SameID
  <2>5. TriesOK(link'[i], c)
    BY Zenon, <1>9, <2>2 DEF TriesOK
  <2>6. CarryOK(link'[i], origin')
    BY Zenon, <2>2 DEF CarryOK
  <2> QED
    BY Zenon, <2>3, <2>4, <2>5, <2>6
<1> QED
  BY Zenon, <1>4, <1>6, <1>7, <1>8, <1>10 DEF InCall, OriginOK

\* A service being called: the handlers before it run, and what its call carries.
LEMMA Reached ==
    ASSUME InCall, NEW h \in 1 .. Hops, link[h].pc \in Underway
    PROVE  /\ link[h] \in CallRecord /\ \A i \in 1 .. Hops : i < h => link[i].pc = "handler"
           /\ TokenOK(link[h], h, client, method) /\ IdOK(link[h], link[1].id)
           /\ TriesOK(link[h], client) /\ CarryOK(link[h], origin) /\ origin \in HandlerErrors
           /\ client.token \in {c.token : c \in ClientConfigs}
           /\ link \in [1 .. Hops -> CallRecord]
  BY Zenon DEF InCall, GrpcTypes, Chained, CallsOK

LEMMA SendStep ==
    ASSUME InCall, NEW h \in 1 .. Hops, Send(h)
    PROVE  InCall'
<1>1. link[h].pc = "send" /\ UNCHANGED <<client, method, origin>>
  BY Zenon DEF Send
<1>2. link[h].pc \in Underway /\ origin.type # "app"
  BY Zenon, <1>1, NoneYet DEF Underway
<1>3. PICK q \in CallRecord : q = link[h]
  BY Zenon, <1>2, Reached
<1>4. /\ \A i \in 1 .. Hops : i < h => link[i].pc = "handler"
      /\ TokenOK(q, h, client, method) /\ IdOK(q, link[1].id) /\ TriesOK(q, client)
      /\ client.token \in {c.token : c \in ClientConfigs}
      /\ origin \in HandlerErrors /\ link \in [1 .. Hops -> CallRecord]
  BY Zenon, <1>2, <1>3, Reached
<1>5. PICK n \in Nat : n = q.attempts + 1 /\ n <= MostAttempts(client)
  <2>1. q.attempts \in Nat /\ q.attempts < MostAttempts(client)
    BY Zenon, <1>1, <1>3, <1>4 DEF TriesOK, CallRecord
  <2> QED
    BY <2>1, Attempts
<1>6. PICK r \in CallRecord : /\ link' = [link EXCEPT ![h] = r] /\ r.pc \in {"answered", "arrive"} /\ r.id = q.id
                              /\ r.attempts = n /\ TokenOK(r, h, client, method)
  <2>1. CASE TokenFails(h)
    <3>1. "Unauthenticated" \in GrpcCodes /\ "cause" \in Texts
      BY DEF GrpcCodes, Texts
    <3>2. PICK e \in Answered : e = PlainStatus("Unauthenticated", "cause")
      BY Zenon, <3>1, PlainStatuses
    <3>3. PICK r : r = [q EXCEPT !.pc = "answered", !.err = e, !.attempts = n]
      BY Zenon
    <3>4. r \in CallRecord /\ r.pc = "answered" /\ r.id = q.id /\ r.attempts = n
      BY Zenon, <3>3 DEF CallRecord
    <3>5. link' = [link EXCEPT ![h] = r] /\ client.token = "fails"
      BY Zenon, <1>3, <1>4, <1>5, <2>1, <3>2, <3>3 DEF TokenFails
    <3> QED
      BY Zenon, <3>4, <3>5 DEF TokenOK
  <2>2. CASE link' = [link EXCEPT ![h].pc = "arrive", ![h].token = TokenSent(client), ![h].deadline = TRUE,
                                  ![h].attempts = @ + 1]
    <3>1. PICK t \in {"none", "valid"} \cup {c.token : c \in ClientConfigs} : t = TokenSent(client)
      BY Zenon, <1>4 DEF TokenSent
    <3>2. PICK r : r = [q EXCEPT !.pc = "arrive", !.token = t, !.deadline = TRUE, !.attempts = n]
      BY Zenon
    <3>3. r \in CallRecord /\ r.pc = "arrive" /\ r.id = q.id /\ r.attempts = n /\ r.err = q.err
      BY Zenon, <3>2 DEF CallRecord
    <3>4. link' = [link EXCEPT ![h] = r]
      BY Zenon, <1>3, <1>4, <1>5, <2>2, <3>1, <3>2
    <3> QED
      BY Zenon, <1>4, <3>3, <3>4 DEF TokenOK
  <2> QED
    BY Zenon, <2>1, <2>2 DEF Send
<1>7. IdOK(r, link[1].id) /\ (h = 1 => SameID(r.id, link[1].id))
  BY Zenon, <1>1, <1>3, <1>4, <1>6 DEF IdOK, SameID
<1>8. TriesOK(r, client)
  BY Zenon, <1>5, <1>6 DEF TriesOK
<1>9. CarryOK(r, origin') /\ r.pc \in Underway /\ origin'.type # "app"
  BY Zenon, <1>1, <1>2, <1>6 DEF CarryOK, Underway
<1> QED
  BY Zenon, <1>1, <1>4, <1>6, <1>7, <1>8, <1>9, OneCall


LEMMA ArriveStep ==
    ASSUME InCall, NEW h \in 1 .. Hops, Arrive(h)
    PROVE  InCall'
<1>1. link[h].pc = "arrive" /\ UNCHANGED <<client, method, origin>>
  BY Zenon DEF Arrive
<1>2. link[h].pc \in Underway /\ origin.type # "app"
  BY Zenon, <1>1, NoneYet DEF Underway
<1>3. PICK q \in CallRecord : q = link[h]
  BY Zenon, <1>2, Reached
<1>4. /\ \A i \in 1 .. Hops : i < h => link[i].pc = "handler"
      /\ TokenOK(q, h, client, method) /\ IdOK(q, link[1].id) /\ TriesOK(q, client)
      /\ origin \in HandlerErrors /\ link \in [1 .. Hops -> CallRecord]
  BY Zenon, <1>2, <1>3, Reached
<1>5. PICK r \in CallRecord : /\ link' = [link EXCEPT ![h] = r] /\ r.pc \in {"answered", "handler"}
                              /\ SameID(r.id, q.id) /\ (r.pc = "handler" => r.id \in {"req", "fresh"})
                              /\ r.attempts = q.attempts /\ TokenOK(r, h, client, method)
  <2>1. CASE h \notin Authed \/ Public(method) \/ link[h].token = "valid"
    <3>1. PICK i \in {"req", "fresh"} : i = RequestID(h)
      BY Zenon DEF RequestID
    <3>2. PICK r : r = [q EXCEPT !.pc = "handler", !.id = i]
      BY Zenon
    <3>3. /\ r \in CallRecord /\ r.pc = "handler" /\ r.id = i /\ r.attempts = q.attempts /\ r.token = q.token
          /\ r.err = q.err
      BY <3>1, <3>2 DEF CallRecord
    <3>4. link' = [link EXCEPT ![h] = r]
      BY Zenon, <1>3, <1>4, <2>1, <3>1, <3>2 DEF Arrive
    <3>5. SameID(i, q.id)
      BY Zenon, <1>3, <3>1 DEF SameID, RequestID
    <3>6. TokenOK(r, h, client, method)
      BY Zenon, <1>3, <1>4, <2>1, <3>3, GrpcCallAssumption DEF TokenOK, Public
    <3> QED
      BY Zenon, <3>3, <3>4, <3>5, <3>6
  <2>2. CASE ~(h \notin Authed \/ Public(method) \/ link[h].token = "valid")
    <3>1. "Unauthenticated" \in GrpcCodes /\ "generic" \in Texts
      BY DEF GrpcCodes, Texts
    <3>2. PICK e \in Answered : e = PlainStatus("Unauthenticated", "generic") /\ e.text = "generic"
      BY Zenon, <3>1, PlainStatuses
    <3>3. PICK r : r = [q EXCEPT !.pc = "answered", !.err = e]
      BY Zenon
    <3>4. r \in CallRecord /\ r.pc = "answered" /\ r.id = q.id /\ r.attempts = q.attempts /\ r.err = e
      BY Zenon, <3>3 DEF CallRecord
    <3>5. link' = [link EXCEPT ![h] = r]
      BY Zenon, <1>3, <1>4, <2>2, <3>2, <3>3 DEF Arrive
    <3>6. r.err.text # "cause"
      BY <3>2, <3>4
    <3> QED
      BY Zenon, <3>4, <3>5, <3>6 DEF TokenOK, SameID
  <2> QED
    BY Zenon, <2>1, <2>2
<1>6. SameID(r.id, link[1].id) /\ IdOK(r, link[1].id)
  BY Zenon, <1>1, <1>3, <1>4, <1>5 DEF IdOK, SameID
<1>7. TriesOK(r, client)
  BY Zenon, <1>4, <1>5 DEF TriesOK
<1>8. CarryOK(r, origin') /\ r.pc \in Underway /\ origin'.type # "app" /\ origin' \in HandlerErrors
  BY Zenon, <1>1, <1>2, <1>4, <1>5 DEF CarryOK, Underway
<1>9. UNCHANGED <<client, method>> /\ (h = Hops \/ link[h].pc \in {"idle", "send", "arrive"})
  BY Zenon, <1>1
<1> QED
  BY Zenon, <1>4, <1>5, <1>6, <1>7, <1>8, <1>9, OneCall

LEMMA HopReturnsStep ==
    ASSUME InCall, NEW h \in 1 .. Hops, HopReturns(h)
    PROVE  InCall'
<1>1. link[h].pc = "handler" /\ h = Hops /\ UNCHANGED <<client, method>>
  BY Zenon DEF HopReturns
<1>2. link[h].pc \in Underway
  BY Zenon, <1>1 DEF Underway
<1>3. PICK q \in CallRecord : q = link[h]
  BY Zenon, <1>2, Reached
<1>4. /\ \A i \in 1 .. Hops : i < h => link[i].pc = "handler"
      /\ TokenOK(q, h, client, method) /\ IdOK(q, link[1].id) /\ TriesOK(q, client)
      /\ link \in [1 .. Hops -> CallRecord]
  BY Zenon, <1>2, <1>3, Reached
<1>5. PICK e \in HandlerErrors :
        link' = [link EXCEPT ![h].pc = "answered", ![h].err = Status(e)] /\ origin' = e
  BY Zenon DEF HopReturns
<1>6. PICK a \in Answered : a = Status(e) /\ a.text # "cause" /\ (e.type = "app" => Carries(a, e))
  BY Zenon, HandlerAnswers
<1>7. PICK r : r = [q EXCEPT !.pc = "answered", !.err = a]
  BY Zenon
<1>8. /\ r \in CallRecord /\ r.pc = "answered" /\ r.id = q.id /\ r.attempts = q.attempts /\ r.token = q.token
      /\ r.err = a
  BY Zenon, <1>7 DEF CallRecord
<1>9. link' = [link EXCEPT ![h] = r]
  BY Zenon, <1>3, <1>4, <1>5, <1>6, <1>7
<1>10. TokenOK(r, h, client, method) /\ IdOK(r, link[1].id)
  BY Zenon, <1>1, <1>3, <1>4, <1>6, <1>8 DEF TokenOK, IdOK
<1>11. TriesOK(r, client)
  BY Zenon, <1>4, <1>8 DEF TriesOK
<1>12. CarryOK(r, origin')
  BY Zenon, <1>5, <1>6, <1>8 DEF CarryOK
<1>13. r.pc \in Underway /\ origin' \in HandlerErrors
  BY Zenon, <1>5, <1>8 DEF Underway
<1>14. h = 1 => SameID(r.id, link[1].id)
  BY Zenon, <1>3, <1>8 DEF SameID
<1> QED
  BY Zenon, <1>1, <1>4, <1>8, <1>9, <1>10, <1>11, <1>12, <1>13, <1>14, OneCall

LEMMA CallsNextStep ==
    ASSUME InCall, NEW h \in 1 .. Hops, CallsNext(h)
    PROVE  InCall'
<1>1. /\ h < Hops /\ link[h].pc = "handler" /\ link[h + 1].pc = "idle"
      /\ UNCHANGED <<client, method, origin>>
      /\ link' = [link EXCEPT ![h + 1] = [NoCall EXCEPT !.pc = "send", !.id = link[h].id]]
  BY Zenon DEF CallsNext
<1>2. link[h].pc \in Underway
  BY Zenon, <1>1 DEF Underway
<1>3. /\ link[h] \in CallRecord /\ \A i \in 1 .. Hops : i < h => link[i].pc = "handler"
      /\ IdOK(link[h], link[1].id) /\ origin \in HandlerErrors
  BY Zenon, <1>2, Reached
<1>4. PICK g \in 1 .. Hops : g = h + 1
  BY <1>1, HopNumbers
<1>5. g # 1 /\ \A i \in 1 .. Hops : i < g => i < h \/ i = h
  BY <1>4
<1>6. PICK r : r = [NoCall EXCEPT !.pc = "send", !.id = link[h].id]
  BY Zenon
<1>7. link[h].id \in {"none", "req", "fresh"}
  BY Zenon, <1>3 DEF CallRecord
<1>8. r \in CallRecord /\ r.pc = "send" /\ r.id = link[h].id /\ r.attempts = 0 /\ r.err.text # "cause"
  BY Zenon, <1>6, <1>7, CallShapes
<1>9. link' = [link EXCEPT ![g] = r]
  BY Zenon, <1>1, <1>4, <1>6
<1>10. TokenOK(r, g, client, method) /\ IdOK(r, link[1].id)
  BY Zenon, <1>1, <1>3, <1>8 DEF TokenOK, IdOK
<1>11. TriesOK(r, client)
  BY <1>8, Attempts DEF TriesOK
<1>12. CarryOK(r, origin')
  BY Zenon, <1>8 DEF CarryOK
<1>13. r.pc \in Underway /\ origin' \in HandlerErrors /\ origin'.type # "app"
  BY Zenon, <1>1, <1>3, <1>4, <1>8, NoneYet DEF Underway
<1>14. /\ g = Hops \/ link[g].pc \in {"idle", "send", "arrive"}
       /\ \A i \in 1 .. Hops : i < g => link[i].pc = "handler"
  BY Zenon, <1>1, <1>3, <1>4, <1>5
<1> QED
  BY Zenon, <1>1, <1>5, <1>8, <1>9, <1>10, <1>11, <1>12, <1>13, <1>14, OneCall


LEMMA RetriesStep ==
    ASSUME InCall, NEW h \in 1 .. Hops, Retries(h)
    PROVE  InCall'
<1>1. /\ link[h].pc = "answered" /\ link[h].attempts < client.attempts
      /\ UNCHANGED <<client, method>> /\ origin' = NoError
  BY Zenon DEF Retries, Retried
<1>2. link[h].pc \in Underway
  BY Zenon, <1>1 DEF Underway
<1>3. PICK q \in CallRecord : q = link[h]
  BY Zenon, <1>2, Reached
<1>4. /\ \A i \in 1 .. Hops : i < h => link[i].pc = "handler"
      /\ TokenOK(q, h, client, method) /\ IdOK(q, link[1].id) /\ link \in [1 .. Hops -> CallRecord]
  BY Zenon, <1>2, <1>3, Reached
<1>5. PICK e \in Answered : e = NoError /\ e.text # "cause" /\ e.type # "app"
  <2>1. NoError.text # "cause" /\ NoError.type # "app"
    BY Zenon, PlainErrors
  <2> QED
    BY Zenon, <2>1 DEF Answered
<1>6. PICK r : r = [q EXCEPT !.pc = "send", !.err = e]
  BY Zenon
<1>7. r \in CallRecord /\ r.pc = "send" /\ r.id = q.id /\ r.attempts = q.attempts /\ r.err = e
  BY Zenon, <1>6 DEF CallRecord
<1>8. link' = [i \in 1 .. Hops |-> IF i = h THEN r ELSE IF i > h THEN NoCall ELSE link[i]]
  BY Zenon, <1>3, <1>5, <1>6 DEF Retries
<1>9. link'[h] = r
  BY Zenon, <1>8
<1>10. \A i \in 1 .. Hops : i > h => link'[i] = NoCall
  BY <1>8
<1>11. \A i \in 1 .. Hops : i < h => link'[i] = link[i]
  BY <1>8
<1>12. \A i \in 1 .. Hops : i = h \/ i > h \/ i < h
  OBVIOUS
<1>13. link' \in [1 .. Hops -> CallRecord]
  BY Zenon, <1>4, <1>7, <1>8, CallShapes
<1>14. GrpcTypes'
  BY Zenon, <1>1, <1>13 DEF InCall, GrpcTypes, HandlerErrors
<1>15. Chained'
  <2>1. SUFFICES ASSUME NEW j \in 1 .. Hops, NEW i \in 1 .. Hops, i < j
                 PROVE  /\ link'[j].pc \in Underway => link'[i].pc = "handler"
                        /\ link'[j].pc = "done" => link'[i].pc \in {"handler", "answered", "done"}
    BY Zenon DEF Chained
  <2>2. j > h \/ i < h
    BY <2>1
  <2>3. CASE j > h
    <3>1. link'[j].pc = "idle"
      BY Zenon, <1>10, <2>3, CallShapes
    <3> QED
      BY Zenon, <3>1 DEF Underway
  <2>4. CASE i < h
    BY Zenon, <1>4, <1>11, <2>4
  <2> QED
    BY Zenon, <2>2, <2>3, <2>4
<1>16. link'[1].id = link[1].id
  <2>1. 1 = h \/ 1 < h
    OBVIOUS
  <2> QED
    BY Zenon, <1>3, <1>7, <1>9, <1>11, <2>1, HopNumbers
<1>17. TriesOK(r, client) /\ TriesOK(NoCall, client)
  <2>1. client.attempts = 0 \/ client.attempts \in 2 .. 5
    BY Zenon DEF InCall, GrpcTypes, NewClientOK
  <2>2. r.attempts < MostAttempts(client) /\ r.attempts <= MostAttempts(client)
    <3>1. q.attempts \in Nat
      BY Zenon DEF CallRecord
    <3> QED
      BY <1>1, <1>3, <1>7, <2>1, <3>1 DEF MostAttempts
  <2>3. 0 <= MostAttempts(client)
    BY Attempts
  <2>4. NoCall.attempts <= MostAttempts(client) /\ NoCall.pc # "send"
    BY Zenon, <2>3, CallShapes
  <2> QED
    BY Zenon, <2>2, <2>4 DEF TriesOK
<1>18. CallsOK'
  <2>1. SUFFICES ASSUME NEW i \in 1 .. Hops
                 PROVE  /\ TokenOK(link'[i], i, client, method) /\ IdOK(link'[i], link[1].id)
                        /\ TriesOK(link'[i], client)
    BY Zenon, <1>1, <1>5, <1>16 DEF CallsOK, CarryOK
  <2>2. CASE i = h
    <3>1. TokenOK(r, h, client, method) /\ IdOK(r, link[1].id)
      BY Zenon, <1>1, <1>3, <1>4, <1>5, <1>7 DEF TokenOK, IdOK
    <3> QED
      BY Zenon, <1>9, <1>17, <2>2, <3>1
  <2>3. CASE i > h
    <3>1. TokenOK(NoCall, i, client, method) /\ IdOK(NoCall, link[1].id)
      BY Zenon, CallShapes DEF TokenOK, IdOK
    <3> QED
      BY Zenon, <1>10, <1>17, <2>3, <3>1
  <2>4. CASE i < h
    BY Zenon, <1>11, <2>4 DEF InCall, CallsOK
  <2> QED
    BY Zenon, <1>12, <2>2, <2>3, <2>4
<1> QED
  BY Zenon, <1>1, <1>5, <1>14, <1>15, <1>18 DEF InCall, OriginOK

LEMMA PassesOnStep ==
    ASSUME InCall, NEW h \in 1 .. Hops, PassesOn(h)
    PROVE  InCall'
<1>1. h > 1 /\ link[h].pc = "answered" /\ UNCHANGED <<client, method, origin>>
  BY Zenon DEF PassesOn
<1>2. link[h].pc \in Underway
  BY Zenon, <1>1 DEF Underway
<1>3. PICK g \in 1 .. Hops : g = h - 1
  BY <1>1, HopNumbers
<1>4. g < h /\ g # h /\ \A i \in 1 .. Hops : i < g \/ i = g \/ i = h \/ i > h
  BY <1>3
<1>5. PICK q \in CallRecord : q = link[h]
  BY Zenon, <1>2, Reached
<1>6. /\ \A i \in 1 .. Hops : i < h => link[i].pc = "handler"
      /\ TokenOK(q, h, client, method) /\ IdOK(q, link[1].id) /\ TriesOK(q, client) /\ CarryOK(q, origin)
      /\ link \in [1 .. Hops -> CallRecord]
  BY Zenon, <1>2, <1>5, Reached
<1>7. PICK p \in CallRecord : p = link[g]
  BY Zenon, <1>6
<1>8. p.pc = "handler" /\ TokenOK(p, g, client, method) /\ IdOK(p, link[1].id) /\ TriesOK(p, client)
  BY Zenon, <1>4, <1>6, <1>7 DEF InCall, CallsOK
<1>9. PICK e \in {q.err, FromError(g, q.err)} :
        link' = [link EXCEPT ![h].pc = "done", ![g].pc = "answered", ![g].err = Status(e)]
  BY Zenon, <1>3, <1>5 DEF PassesOn
<1>10. q.err \in Answered /\ g \in 0 .. Hops
  BY Zenon, <1>3, HopNumbers DEF CallRecord
<1>11. PICK a \in Answered :
         a = Status(e) /\ a.text = q.err.text /\ \A o : Carries(q.err, o) => Carries(a, o)
  BY Zenon, <1>10, AnswersPassed
<1>12. PICK s, r : s = [q EXCEPT !.pc = "done"] /\ r = [p EXCEPT !.pc = "answered", !.err = a]
  BY Zenon
<1>13. /\ r \in CallRecord /\ r.pc = "answered" /\ r.id = p.id /\ r.attempts = p.attempts /\ r.token = p.token
       /\ r.err = a
  BY Zenon, <1>12 DEF CallRecord
<1>14. /\ s \in CallRecord /\ s.pc = "done" /\ s.id = q.id /\ s.attempts = q.attempts /\ s.token = q.token
       /\ s.err = q.err
  BY Zenon, <1>12 DEF CallRecord
<1>15. link' = [link EXCEPT ![h] = s, ![g] = r]
  BY <1>4, <1>5, <1>6, <1>7, <1>9, <1>11, <1>12
<1>16. /\ link'[h] = s /\ link'[g] = r /\ \A i \in 1 .. Hops : i # h /\ i # g => link'[i] = link[i]
       /\ link' \in [1 .. Hops -> CallRecord]
  BY Zenon, <1>4, <1>6, <1>13, <1>14, <1>15
<1>17. GrpcTypes'
  BY Zenon, <1>1, <1>16 DEF InCall, GrpcTypes
<1>18. Chained'
  <2>1. SUFFICES ASSUME NEW j \in 1 .. Hops, NEW i \in 1 .. Hops, i < j
                 PROVE  /\ link'[j].pc \in Underway => link'[i].pc = "handler"
                        /\ link'[j].pc = "done" => link'[i].pc \in {"handler", "answered", "done"}
    BY Zenon DEF Chained
  <2>2. i # g /\ i # h => link'[i] = link[i]
    BY Zenon, <1>16
  <2>3. CASE j > h
    <3>1. j # h /\ j # g /\ h < j
      BY <1>3, <2>3
    <3>2. link'[j] = link[j] /\ link[j].pc \notin Underway
      BY Zenon, <1>1, <1>16, <3>1 DEF InCall, Chained
    <3>3. link[j].pc = "done" => link[i].pc \in {"handler", "answered", "done"}
      BY Zenon, <2>1 DEF InCall, Chained
    <3> QED
      BY Zenon, <1>13, <1>14, <1>16, <2>2, <3>2, <3>3
  <2>4. CASE j = h
    <3>1. i = g \/ (i < h /\ i # g /\ i # h)
      BY <2>1, <2>4
    <3> QED
      BY Zenon, <1>6, <1>13, <1>14, <1>16, <2>2, <2>4, <3>1 DEF Underway
  <2>5. CASE j < h
    <3>1. i < h /\ i # g /\ i # h
      BY <1>3, <2>1, <2>5
    <3> QED
      BY Zenon, <1>6, <2>2, <3>1
  <2>6. j > h \/ j = h \/ j < h
    OBVIOUS
  <2> QED
    BY Zenon, <2>3, <2>4, <2>5, <2>6
<1>19. link'[1].id = link[1].id
  BY Zenon, <1>5, <1>7, <1>13, <1>14, <1>16, HopNumbers
<1>20. CarryOK(r, origin)
  BY Zenon, <1>1, <1>5, <1>6, <1>11, <1>13 DEF CarryOK
<1>21. CallsOK'
  <2>1. SUFFICES ASSUME NEW i \in 1 .. Hops
                 PROVE  /\ TokenOK(link'[i], i, client, method) /\ IdOK(link'[i], link[1].id)
                        /\ TriesOK(link'[i], client) /\ CarryOK(link'[i], origin)
    BY Zenon, <1>1, <1>19 DEF CallsOK
  <2>2. TokenOK(r, g, client, method) /\ IdOK(r, link[1].id) /\ TriesOK(r, client)
    BY Zenon, <1>6, <1>8, <1>11, <1>13 DEF TokenOK, IdOK, TriesOK
  <2>3. TokenOK(s, h, client, method) /\ IdOK(s, link[1].id) /\ CarryOK(s, origin) /\ TriesOK(s, client)
    BY Zenon, <1>1, <1>5, <1>6, <1>14 DEF TokenOK, IdOK, CarryOK, TriesOK
  <2>4. CASE i = h
    BY Zenon, <1>16, <2>3, <2>4
  <2>5. CASE i = g
    BY Zenon, <1>16, <1>20, <2>2, <2>5
  <2>6. CASE i # h /\ i # g
    BY Zenon, <1>16, <2>6 DEF InCall, CallsOK
  <2> QED
    BY Zenon, <2>4, <2>5, <2>6
<1>22. OriginOK(link'[Hops], origin)
  <2>1. g # Hops
    BY <1>3
  <2> QED
    BY Zenon, <1>14, <1>16, <2>1, HopNumbers DEF InCall, OriginOK
<1> QED
  BY Zenon, <1>1, <1>17, <1>18, <1>21, <1>22 DEF InCall

LEMMA GrpcStep ==
    ASSUME GrpcInv, [GrpcNext]_grpcVars
    PROVE  GrpcInv'
<1>1. CASE UNCHANGED grpcVars
  <2>1. GrpcInit => GrpcInit'
    BY Zenon, <1>1 DEF GrpcInit, grpcVars
  <2>2. InCall => InCall'
    BY Zenon, <1>1 DEF InCall, GrpcTypes, Chained, CallsOK, grpcVars
  <2> QED
    BY Zenon, <2>1, <2>2 DEF GrpcInv
<1>2. CASE GrpcInit /\ GrpcNext
  <2>1. \A h \in 1 .. Hops : link[h].pc = "idle"
    BY Zenon, <1>2, CallShapes DEF GrpcInit
  <2>2. ASSUME NEW h \in 1 .. Hops,
               Send(h) \/ Arrive(h) \/ HopReturns(h) \/ CallsNext(h) \/ Retries(h) \/ PassesOn(h)
        PROVE  FALSE
    BY Zenon, <2>1, <2>2 DEF Send, Arrive, HopReturns, CallsNext, Retries, PassesOn
  <2>3. NewClient
    BY Zenon, <1>2, <2>2 DEF GrpcNext
  <2> QED
    BY Zenon, <1>2, <2>3, ClientCalls DEF GrpcInv
<1>3. CASE InCall /\ GrpcNext
  <2>1. ~NewClient
    BY Zenon, <1>3, Attempts DEF NewClient
  <2>2. PICK h \in 1 .. Hops : Send(h) \/ Arrive(h) \/ HopReturns(h) \/ CallsNext(h) \/ Retries(h) \/ PassesOn(h)
    BY Zenon, <1>3, <2>1 DEF GrpcNext
  <2>3. InCall'
    BY Zenon, <1>3, <2>2, SendStep, ArriveStep, HopReturnsStep, CallsNextStep, RetriesStep, PassesOnStep
  <2> QED
    BY Zenon, <2>3 DEF GrpcInv
<1> QED
  BY Zenon, <1>1, <1>2, <1>3 DEF GrpcInv

LEMMA GrpcImplies ==
    ASSUME GrpcInv
    PROVE  ErrorsTravel
<1>1. CASE GrpcInit
  <2>1. \A h \in 1 .. Hops : link[h] = NoCall
    BY Zenon, <1>1 DEF GrpcInit
  <2>2. NoCall.pc = "idle" /\ NoCall.err.text # "cause"
    BY Zenon, CallShapes
  <2> QED
    BY Zenon, <1>1, <2>1, <2>2, HopNumbers DEF GrpcInit, ErrorsTravel
<1>2. CASE InCall
  <2>1. /\ link \in [1 .. Hops -> CallRecord]
        /\ \A h \in 1 .. Hops : /\ TokenOK(link[h], h, client, method) /\ IdOK(link[h], link[1].id)
                                /\ TriesOK(link[h], client) /\ CarryOK(link[h], origin)
    BY Zenon, <1>2 DEF InCall, GrpcTypes, CallsOK
  <2>2. ASSUME link[1].pc = "answered", origin.type = "app"
        PROVE  LET learnt == FromError(0, link[1].err)
               IN  learnt.reason = origin.reason /\ (Agreed(origin) => learnt.kind = KindSeen(origin))
    <3>1. PICK a \in Answered : a = link[1].err
      BY Zenon, <2>1, HopNumbers DEF CallRecord
    <3>2. Carries(a, origin)
      BY Zenon, <2>1, <2>2, <3>1, HopNumbers DEF CarryOK
    <3>3. a # NoError /\ a.reason # NoInfo /\ a.reason = origin.reason
      BY Zenon, <3>2, PlainErrors DEF Carries
    <3>4. PICK k \in Kinds, w \in Reasons, t \in Texts :
             FromError(0, a) = AppError(k, w, t) /\ Kept(a, 0, k, w)
      BY Zenon, <3>3, Rebuilt, HopNumbers
    <3>5. Agreed(origin) => k = KindSeen(origin)
      BY Zenon, <3>2, <3>4, RebuiltKind, HopNumbers
    <3>6. AppError(k, w, t).kind = k /\ AppError(k, w, t).reason = w
      BY DEF AppError
    <3> QED
      BY Zenon, <3>1, <3>3, <3>4, <3>5, <3>6 DEF Kept
  <2>3. ASSUME NEW h \in 1 .. Hops, link[h].err.text = "cause"
        PROVE  client.token = "fails"
    BY Zenon, <2>1, <2>3 DEF TokenOK
  <2>4. ASSUME NEW h \in 1 .. Hops, link[h].pc = "handler", h \in Authed, method = "private"
        PROVE  link[h].token = "valid"
    BY Zenon, <2>1, <2>4 DEF TokenOK
  <2>5. ASSUME NEW h \in 1 .. Hops, link[h].pc = "handler"
        PROVE  link[h].id = RequestID(1)
    <3>1. IdOK(link[h], link[1].id)
      BY Zenon, <2>1
    <3>2. SameID(link[h].id, link[1].id) /\ link[h].id \in {"req", "fresh"}
      BY Zenon, <2>5, <3>1 DEF IdOK
    <3> QED
      BY <3>2 DEF SameID, RequestID
  <2>6. ASSUME NEW h \in 1 .. Hops
        PROVE  link[h].attempts <= (IF client.attempts = 0 THEN 1 ELSE client.attempts)
    BY Zenon, <2>1 DEF TriesOK, MostAttempts
  <2> QED
    BY Zenon, <2>2, <2>3, <2>4, <2>5, <2>6 DEF ErrorsTravel
<1> QED
  BY Zenon, <1>1, <1>2 DEF GrpcInv

\* However many services a call goes through, whatever their clients retry and in
\* whichever way each handler passes an error on, the first caller learns the code
\* of the AppError the last handler returned (Status, FromError), and its kind
\* where no process registered that code under another; no cause leaves a service
\* but a token source's, no handler of a private method runs without a valid token
\* in a service with Auth, every handler sees the first request's ID, and no call
\* is tried more often than the policy says.
THEOREM ErrorsReachTheCaller == GrpcCallSpec => []ErrorsTravel
<1>1. GrpcInit => GrpcInv
  BY Zenon DEF GrpcInv
<1>2. GrpcInv /\ [GrpcNext]_grpcVars => GrpcInv'
  BY Zenon, GrpcStep
<1>3. GrpcInv => ErrorsTravel
  BY Zenon, GrpcImplies
<1> QED
  BY <1>1, <1>2, <1>3, PTL DEF GrpcCallSpec

-----------------------------------------------------------------------------
(* CertReload.                                                             *)

CertPC == {"idle", "stat cert", "stat key", "compare", "read cert", "read key"}
CertLook == [pc : CertPC, seen : [CertFiles -> Nat], cert : Nat]

CertTypeOK ==
    /\ files \in [CertFiles -> [stamp : Nat, content : Nat]]
    /\ rotation \in Nat
    /\ loaded \in [CertFiles -> Nat] /\ stamp \in [CertFiles -> Nat]
    /\ looking \in CertLook

\* A stamp names one content of its file: what was read under a stamp that is
\* still the file's is still there, in the pair served and in a look under way.
StampsTell ==
    /\ loaded["cert"] = loaded["key"]
    /\ loaded # Unseen => \A f \in CertFiles :
            /\ stamp[f] <= files[f].stamp
            /\ stamp[f] = files[f].stamp => loaded[f] = files[f].content
    /\ looking.pc # "idle" => \A f \in CertFiles : looking.seen[f] <= files[f].stamp
    /\ (looking.pc = "read key" /\ looking.seen["cert"] = files["cert"].stamp)
            => looking.cert = files["cert"].content
    /\ tls.auth \in Verifying => tls.cas

CertInv == CertTypeOK /\ StampsTell

\* The initial files, and a look that has seen nothing.
LEMMA FreshTypes ==
    /\ Unseen \in [CertFiles -> Nat] /\ \A f \in CertFiles : Unseen[f] = 0
    /\ "cert" \in CertFiles /\ "key" \in CertFiles
    /\ \A c \in CertPC : [pc |-> c, seen |-> Unseen, cert |-> 0] \in CertLook
<1>1. Unseen \in [CertFiles -> Nat] /\ \A f \in CertFiles : Unseen[f] = 0
  BY DEF Unseen
<1>2. 0 \in Nat
  OBVIOUS
<1>3. \A c \in CertPC : [pc |-> c, seen |-> Unseen, cert |-> 0] \in CertLook
  BY Zenon, <1>1, <1>2 DEF CertLook
<1> QED
  BY Zenon, <1>1, <1>3 DEF CertFiles

\* The invariant holds before newCertReloader has looked.
LEMMA CertReloadStarts == CertReloadInit => CertInv
<1> SUFFICES ASSUME CertReloadInit PROVE CertInv
  OBVIOUS
<1>1. 1 \in Nat /\ 0 \in Nat
  OBVIOUS
<1>2. [stamp |-> 1, content |-> 1] \in [stamp : Nat, content : Nat]
  BY Zenon, <1>1
<1>3. CertTypeOK
  BY Zenon, FreshTypes, <1>1, <1>2 DEF CertReloadInit, CertTypeOK, CertPC
<1>4. \A f \in CertFiles : looking.seen[f] = 0 /\ files[f].stamp = 1
  BY Zenon, FreshTypes DEF CertReloadInit
<1>5. \A f \in CertFiles : looking.seen[f] <= files[f].stamp
  BY <1>4
<1>6. loaded = Unseen /\ loaded["cert"] = loaded["key"] /\ looking.pc # "read key" /\ tls.auth \notin Verifying
  BY FreshTypes DEF CertReloadInit, NotBuilt, Verifying
<1> QED
  BY Zenon, <1>3, <1>5, <1>6 DEF CertInv, StampsTell

\* What the type invariant says of the parts of the state.
LEMMA CertTypes ==
    ASSUME CertTypeOK, NEW f \in CertFiles
    PROVE  /\ files[f].stamp \in Nat /\ files[f].content \in Nat /\ stamp[f] \in Nat
           /\ looking.seen[f] \in Nat /\ looking.cert \in Nat
  BY Zenon DEF CertTypeOK, CertLook

\* Whoever writes the files gives a file another stamp with another content.
LEMMA FilesWritten ==
    ASSUME CertInv, CertTypeOK', UNCHANGED <<loaded, stamp, looking, tls>>,
           \A f \in CertFiles : files'[f] = files[f] \/ files[f].stamp < files'[f].stamp
    PROVE  CertInv'
<1>1. ASSUME NEW f \in CertFiles, NEW n \in Nat, n <= files[f].stamp
      PROVE  n <= files'[f].stamp /\ (n = files'[f].stamp => files'[f] = files[f])
  <2>1. files[f].stamp \in Nat /\ files'[f].stamp \in Nat
    BY Zenon DEF CertInv, CertTypeOK
  <2>2. CASE files'[f] = files[f]
    BY Zenon, <1>1, <2>2
  <2>3. CASE files[f].stamp < files'[f].stamp
    BY <1>1, <2>1, <2>3
  <2> QED
    BY Zenon, <2>2, <2>3
<1>2. \A f \in CertFiles : looking.seen[f] \in Nat /\ stamp[f] \in Nat
  BY Zenon, CertTypes DEF CertInv
<1>3. (loaded # Unseen => \A f \in CertFiles :
            /\ stamp[f] <= files[f].stamp
            /\ stamp[f] = files[f].stamp => loaded[f] = files[f].content)'
  BY Zenon, <1>1, <1>2 DEF CertInv, StampsTell
<1>4. (looking.pc # "idle" => \A f \in CertFiles : looking.seen[f] <= files[f].stamp)'
  BY Zenon, <1>1, <1>2 DEF CertInv, StampsTell
<1>5. ((looking.pc = "read key" /\ looking.seen["cert"] = files["cert"].stamp)
            => looking.cert = files["cert"].content)'
  BY <1>1, <1>2, FreshTypes DEF CertInv, StampsTell
<1> QED
  BY Zenon, <1>3, <1>4, <1>5 DEF CertInv, StampsTell

\* A look that ends without loading, or moves on without touching what it saw.
LEMMA LookMoves ==
    ASSUME CertInv, looking' \in CertLook, UNCHANGED <<files, rotation, loaded, stamp, tls>>,
           \/ looking'.pc = "idle"
           \/ /\ looking'.pc # "read key"
              /\ \A f \in CertFiles : looking'.seen[f] <= files[f].stamp
    PROVE  CertInv'
<1>1. looking'.pc # "read key"
  OBVIOUS
<1> QED
  BY Zenon, <1>1 DEF CertInv, CertTypeOK, StampsTell

\* No step of the reloader, of the configuration or of whoever writes the files
\* breaks the invariant.
LEMMA CertReloadStep == CertInv /\ [CertReloadNext]_certVars => CertInv'
<1> SUFFICES ASSUME CertInv, [CertReloadNext]_certVars PROVE CertInv'
  OBVIOUS
<1>0. looking \in CertLook /\ rotation \in Nat /\ CertTypeOK
  BY Zenon DEF CertInv, CertTypeOK
<1>1. CASE ServerTLSConfig
  <2>1. UNCHANGED <<files, rotation, loaded, stamp, looking>>
    BY Zenon, <1>1 DEF ServerTLSConfig
  <2>2. tls'.auth \in Verifying => tls'.cas
    BY <1>1 DEF ServerTLSConfig, CertInv, StampsTell
  <2> QED
    BY Zenon, <2>1, <2>2 DEF CertInv, CertTypeOK, StampsTell
<1>2. CASE Handshake
  <2>1. looking' \in CertLook /\ looking'.pc = "stat cert" /\ looking'.seen = Unseen
    BY Zenon, <1>2, FreshTypes DEF Handshake, CertPC
  <2>2. \A f \in CertFiles : looking'.seen[f] <= files[f].stamp
    <3>1. \A f \in CertFiles : looking'.seen[f] = 0 /\ files[f].stamp \in Nat
      BY Zenon, <2>1, <1>0, FreshTypes, CertTypes
    <3> QED
      BY <3>1
  <2> QED
    BY <1>2, <2>1, <2>2, LookMoves DEF Handshake
<1>leq. \A n \in Nat : n <= n
  OBVIOUS
<1>3. ASSUME NEW f \in CertFiles, NEW pc \in {"stat cert", "stat key"},
             NEW next \in {"stat key", "compare"}, FileStamp(f, pc, next)
      PROVE CertInv'
  <2>1. looking' = [pc |-> next, seen |-> [looking.seen EXCEPT ![f] = files[f].stamp], cert |-> looking.cert]
    BY <1>0, <1>3 DEF FileStamp, CertLook
  <2>2. looking.seen \in [CertFiles -> Nat] /\ looking.cert \in Nat /\ files[f].stamp \in Nat
    BY Zenon, <1>0, CertTypes DEF CertLook
  <2>3. looking'.seen \in [CertFiles -> Nat]
    BY Zenon, <2>1, <2>2
  <2>4. looking' \in CertLook
    BY Zenon, <2>1, <2>2, <2>3 DEF CertLook, CertPC
  <2>5. \A g \in CertFiles : looking.seen[g] <= files[g].stamp
    BY <1>3 DEF FileStamp, CertInv, StampsTell
  <2>6. \A g \in CertFiles : looking'.seen[g] = IF g = f THEN files[f].stamp ELSE looking.seen[g]
    BY Zenon, <2>1, <2>2
  <2>7. \A g \in CertFiles : looking'.seen[g] <= files[g].stamp
    BY Zenon, <1>leq, <2>2, <2>5, <2>6
  <2> QED
    BY <1>3, <2>1, <2>4, <2>7, LookMoves DEF FileStamp
<1>4. CASE Compare
  <2>1. CASE looking.seen = stamp
    BY <1>4, <2>1, FreshTypes, LookMoves DEF Compare, CertPC
  <2>2. CASE looking.seen # stamp
    <3>1. looking' = [pc |-> "read cert", seen |-> looking.seen, cert |-> looking.cert]
      BY <1>0, <1>4, <2>2 DEF Compare, CertLook
    <3>2. looking' \in CertLook
      BY Zenon, <1>0, <3>1 DEF CertLook, CertPC
    <3>3. \A g \in CertFiles : looking.seen[g] <= files[g].stamp
      BY <1>4 DEF Compare, CertInv, StampsTell
    <3>4. looking'.pc # "read key" /\ looking'.seen = looking.seen
      BY Zenon, <3>1
    <3> QED
      BY Zenon, <1>4, <3>2, <3>3, <3>4, LookMoves DEF Compare
  <2> QED
    BY Zenon, <2>1, <2>2
<1>5. CASE ReadCert
  <2>1. looking' = [pc |-> "read key", seen |-> looking.seen, cert |-> files["cert"].content]
    BY <1>0, <1>5 DEF ReadCert, CertLook
  <2>2. looking' \in CertLook
    BY Zenon, <1>0, <2>1, CertTypes, FreshTypes DEF CertLook, CertPC
  <2>3. \A g \in CertFiles : looking.seen[g] <= files[g].stamp
    BY <1>5 DEF ReadCert, CertInv, StampsTell
  <2>4. looking'.seen = looking.seen /\ looking'.cert = files["cert"].content
    BY Zenon, <2>1
  <2> QED
    BY Zenon, <1>5, <2>2, <2>3, <2>4 DEF ReadCert, CertInv, CertTypeOK, StampsTell
<1>6. CASE Load
  <2>1. looking' \in CertLook /\ looking'.pc = "idle" /\ looking.pc = "read key"
        /\ UNCHANGED <<files, rotation, tls>>
    BY Zenon, <1>6, FreshTypes DEF Load, CertPC
  <2>2. CASE looking.cert = files["key"].content /\ looking.cert # 0
    <3>1. /\ loaded' = [cert |-> looking.cert, key |-> files["key"].content]
          /\ stamp' = looking.seen
      BY Zenon, <1>6, <2>2 DEF Load
    <3>2. loaded' = [f \in CertFiles |-> looking.cert]
      BY <2>2, <3>1 DEF CertFiles
    <3>3. looking.cert \in Nat /\ looking.seen \in [CertFiles -> Nat]
      BY Zenon, <1>0 DEF CertLook
    <3>4. loaded' \in [CertFiles -> Nat] /\ \A f \in CertFiles : loaded'[f] = looking.cert
      BY Zenon, <3>2, <3>3
    <3>5. CertTypeOK'
      BY Zenon, <1>0, <2>1, <3>1, <3>3, <3>4 DEF CertTypeOK
    <3>6. \A f \in CertFiles : stamp'[f] <= files[f].stamp
      BY <2>1, <3>1 DEF CertInv, StampsTell
    <3>7. \A f \in CertFiles : stamp'[f] = files[f].stamp => loaded'[f] = files[f].content
      BY <2>1, <2>2, <3>1, <3>4 DEF CertInv, StampsTell, CertFiles
    <3> QED
      BY <2>1, <3>4, <3>5, <3>6, <3>7, FreshTypes DEF CertInv, StampsTell
  <2>3. CASE ~(looking.cert = files["key"].content /\ looking.cert # 0)
    BY Zenon, <1>6, <2>1, <2>3, LookMoves DEF Load
  <2> QED
    BY Zenon, <2>2, <2>3
<1>7. CASE Rotate
  <2>1. CASE UNCHANGED files
    <3>1. CertTypeOK'
      BY <1>0, <1>7, <2>1 DEF Rotate, CertTypeOK
    <3> QED
      BY Zenon, <1>7, <2>1, <3>1, FilesWritten DEF Rotate
  <2>2. CASE files' = [f \in CertFiles |-> [stamp |-> files[f].stamp + 1, content |-> rotation + 1]]
    <3>1. rotation + 1 \in Nat /\ \A f \in CertFiles : files[f].stamp + 1 \in Nat /\ files[f].stamp < files[f].stamp + 1
      BY <1>0, CertTypes
    <3>2. files' \in [CertFiles -> [stamp : Nat, content : Nat]]
      BY Zenon, <2>2, <3>1
    <3>3. CertTypeOK'
      BY Zenon, <1>0, <1>7, <3>1, <3>2 DEF Rotate, CertTypeOK
    <3>4. \A f \in CertFiles : files'[f].stamp = files[f].stamp + 1
      BY Zenon, <2>2
    <3> QED
      BY Zenon, <1>7, <3>1, <3>3, <3>4, FilesWritten DEF Rotate
  <2> QED
    BY Zenon, <1>7, <2>1, <2>2 DEF Rotate
<1>8. ASSUME NEW f \in CertFiles, WriteFile(f) PROVE CertInv'
  <2>1. PICK n \in Nat : files' = [files EXCEPT ![f] = [stamp |-> files[f].stamp + 1, content |-> n]]
    BY <1>0, <1>8 DEF WriteFile
  <2>2. files[f].stamp + 1 \in Nat /\ files[f].stamp < files[f].stamp + 1
    BY <1>0, CertTypes
  <2>3. files \in [CertFiles -> [stamp : Nat, content : Nat]]
    BY Zenon, <1>0 DEF CertTypeOK
  <2>4. files' \in [CertFiles -> [stamp : Nat, content : Nat]]
    BY Zenon, <2>1, <2>2, <2>3
  <2>5. CertTypeOK'
    BY Zenon, <1>0, <1>8, <2>4 DEF WriteFile, CertTypeOK
  <2>6. \A g \in CertFiles : files'[g] = files[g] \/ (g = f /\ files'[g].stamp = files[g].stamp + 1)
    BY Zenon, <2>1, <2>3
  <2> QED
    BY Zenon, <1>8, <2>2, <2>5, <2>6, FilesWritten DEF WriteFile
<1>9. CASE UNCHANGED certVars
  BY Zenon, <1>9 DEF certVars, CertInv, CertTypeOK, StampsTell
<1>10. CASE FileStamp("cert", "stat cert", "stat key") \/ FileStamp("key", "stat key", "compare")
  BY <1>3, <1>10, FreshTypes
<1>11. CASE LookFails
  BY Zenon, <1>11, FreshTypes, LookMoves DEF LookFails, CertPC
<1> QED
  BY Zenon, <1>1, <1>2, <1>4, <1>5, <1>6, <1>7, <1>8, <1>9, <1>10, <1>11 DEF CertReloadNext

\* Handshakes never get a key of another certificate, and a rotation is never
\* missed for good, however many times and in whatever order the two files are
\* written while GetCertificate looks at them.
THEOREM CertificateStaysCurrent == CertReloadSpec => []CertCurrent
<1>1. CertInv => CertCurrent
  BY DEF CertInv, CertTypeOK, StampsTell, CertCurrent, CertFiles, Unseen
<1> QED
  BY CertReloadStarts, CertReloadStep, <1>1, PTL DEF CertReloadSpec

-----------------------------------------------------------------------------
(* Readiness.                                                              *)

ProbeRecord == [pc : {"idle", "look", "wait", "snapshot", "running", "done"}, answer : {"none", "ok", "fail"},
                owed : SUBSET Check, missed : SUBSET Check]

ReadinessTypes ==
    /\ probing \in {"http", "grpc"} /\ checks \in SUBSET Check /\ up \in BOOLEAN /\ late \in SUBSET Check
    /\ cache \in [fresh : BOOLEAN, passed : SUBSET Check, failed : SUBSET Check]
    /\ round \in [on : BOOLEAN, checks : SUBSET Check, left : SUBSET Check, failed : SUBSET Check]
    /\ probe \in [Probe -> ProbeRecord]

Runs(p) == probe[p].pc \in {"snapshot", "running"}

\* The result in the cache covers these checks.
Covered(S) == S \subseteq cache.passed \cup cache.failed \cup late

\* One probe runs the round, and only one; its checks and those added since are
\* all there are.  A result that may be served covers what was asked for.
ProbeOK(p) ==
    /\ probe[p].owed \subseteq checks
    /\ probe[p].missed = {}
    /\ Runs(p) => round.on
    /\ probe[p].pc = "running" => checks \subseteq round.checks \cup late
    /\ probe[p].pc = "wait" /\ ~round.on => Covered(probe[p].owed)

ReadinessInv ==
    /\ ReadinessTypes
    /\ round.on => ~cache.fresh /\ \E p \in Probe : Runs(p)
    /\ cache.fresh => Covered(checks)
    /\ \A p, q \in Probe : Runs(p) /\ Runs(q) => p = q
    /\ \A p \in Probe : ProbeOK(p)

\* A probe that does not run the round moves on; nothing else changes.
LEMMA ProbeGoes ==
    ASSUME ReadinessInv, NEW p \in Probe, NEW r \in ProbeRecord, probe' = [probe EXCEPT ![p] = r],
           UNCHANGED <<probing, checks, up, cache, round, late>>, ~Runs(p),
           r.pc \notin {"snapshot", "running"}, r.pc = "wait" => round.on,
           r.owed \subseteq checks, r.missed = {}
    PROVE  ReadinessInv'
<1>1. /\ ReadinessTypes /\ (round.on => ~cache.fresh /\ \E q \in Probe : Runs(q)) /\ (cache.fresh => Covered(checks))
      /\ (\A q, s \in Probe : Runs(q) /\ Runs(s) => q = s) /\ \A q \in Probe : ProbeOK(q)
  BY Zenon DEF ReadinessInv
<1>2. probe' \in [Probe -> ProbeRecord] /\ probe'[p] = r /\ \A q \in Probe \ {p} : probe'[q] = probe[q]
  BY Zenon, <1>1 DEF ReadinessTypes
<1>3. ReadinessTypes'
  BY Zenon, <1>1, <1>2 DEF ReadinessTypes
<1>4. \A q \in Probe : Runs(q)' <=> Runs(q)
  BY Zenon, <1>2 DEF Runs
<1>5. ASSUME NEW q \in Probe PROVE ProbeOK(q)'
  <2>1. CASE q = p
    BY Zenon, <1>2, <1>4, <2>1 DEF ProbeOK, Runs
  <2>2. CASE q # p
    <3>1. ProbeOK(q) /\ probe'[q] = probe[q]
      BY Zenon, <1>1, <1>2, <2>2
    <3> QED
      BY Zenon, <3>1 DEF ProbeOK, Runs, Covered
  <2> QED
    BY Zenon, <2>1, <2>2
<1>6. (cache.fresh => Covered(checks))'
  BY Zenon, <1>1 DEF Covered
<1>7. (round.on => ~cache.fresh /\ \E q \in Probe : Runs(q))'
  BY Zenon, <1>1, <1>4
<1>8. \A q, s \in Probe : Runs(q)' /\ Runs(s)' => q = s
  BY Zenon, <1>1, <1>4
<1> QED
  BY Zenon, <1>3, <1>5, <1>6, <1>7, <1>8 DEF ReadinessInv

\* An answer that covers what the probe was owed misses nothing of it.
LEMMA ProbeAnswered ==
    ASSUME ReadinessTypes, NEW p \in Probe, NEW P, NEW F, Answers(p, P, F),
           F = {} => probe[p].owed \subseteq P \cup late
    PROVE  \E r \in ProbeRecord : /\ probe' = [probe EXCEPT ![p] = r] /\ r.pc = "done"
                                  /\ r.owed = probe[p].owed /\ r.missed = {}
<1>1. PICK a \in {"ok", "fail"} : a = IF F = {} THEN "ok" ELSE "fail"
  BY Zenon
<1>2. PICK m \in SUBSET Check : m = (IF F = {} THEN probe[p].owed \ (P \cup late) ELSE {}) /\ m = {}
  BY Zenon
<1>3. probe' = [probe EXCEPT ![p] = [probe[p] EXCEPT !.pc = "done", !.answer = a, !.missed = m]]
  BY Zenon, <1>1, <1>2 DEF Answers
<1>4. probe[p] \in ProbeRecord
  BY Zenon DEF ReadinessTypes
<1>5. PICK r : r = [probe[p] EXCEPT !.pc = "done", !.answer = a, !.missed = m]
  BY Zenon
<1>6. r \in ProbeRecord /\ r.pc = "done" /\ r.owed = probe[p].owed /\ r.missed = m
  BY <1>4, <1>5 DEF ProbeRecord
<1> QED
  BY Zenon, <1>2, <1>3, <1>5, <1>6

LEMMA RoundTypes ==
    ASSUME ReadinessTypes
    PROVE  /\ round.checks \in SUBSET Check /\ round.left \in SUBSET Check /\ round.failed \in SUBSET Check
           /\ cache.passed \in SUBSET Check /\ cache.failed \in SUBSET Check
           /\ NoRound \in [on : BOOLEAN, checks : SUBSET Check, left : SUBSET Check, failed : SUBSET Check]
           /\ ~NoRound.on
<1>1. cache.passed \in SUBSET Check /\ cache.failed \in SUBSET Check
  BY DEF ReadinessTypes
<1>2. round.checks \in SUBSET Check /\ round.left \in SUBSET Check /\ round.failed \in SUBSET Check
  BY DEF ReadinessTypes
<1>3. NoRound \in [on : BOOLEAN, checks : SUBSET Check, left : SUBSET Check, failed : SUBSET Check] /\ ~NoRound.on
  BY DEF NoRound
<1> QED
  BY Zenon, <1>1, <1>2, <1>3

\* The round of p ends: with the checks added meanwhile, its result covers
\* every check there is.
LEMMA RoundOver ==
    ASSUME ReadinessInv, NEW p \in Probe, probe[p].pc = "running", NEW P \in SUBSET Check, NEW F \in SUBSET Check,
           EndRound(p, P, F), round.checks \subseteq P \cup F
    PROVE  ReadinessInv'
<1>1. /\ ReadinessTypes /\ (\A q, s \in Probe : Runs(q) /\ Runs(s) => q = s) /\ (\A q \in Probe : ProbeOK(q))
      /\ UNCHANGED <<probing, checks, up, late>>
  BY Zenon DEF ReadinessInv, EndRound
<1>2. checks \subseteq P \cup F \cup late
  BY Zenon, <1>1 DEF ProbeOK
<1>3. cache' \in [fresh : BOOLEAN, passed : SUBSET Check, failed : SUBSET Check]
      /\ cache'.passed = P /\ cache'.failed = F /\ cache'.fresh
  BY DEF EndRound
<1>4. round' \in [on : BOOLEAN, checks : SUBSET Check, left : SUBSET Check, failed : SUBSET Check] /\ ~round'.on
  BY Zenon, <1>1, RoundTypes DEF EndRound
<1>5. F = {} => probe[p].owed \subseteq P \cup late
  BY Zenon, <1>1, <1>2 DEF ProbeOK
<1>6. PICK r \in ProbeRecord : probe' = [probe EXCEPT ![p] = r] /\ r.pc = "done" /\ r.owed = probe[p].owed /\ r.missed = {}
  BY Zenon, <1>1, <1>5, ProbeAnswered DEF EndRound
<1>7. probe' \in [Probe -> ProbeRecord] /\ probe'[p] = r /\ \A q \in Probe \ {p} : probe'[q] = probe[q]
  BY Zenon, <1>1, <1>6 DEF ReadinessTypes
<1>8. ReadinessTypes'
  BY Zenon, <1>1, <1>3, <1>4, <1>7 DEF ReadinessTypes
<1>9. \A q \in Probe : ~Runs(q)'
  <2>1. ASSUME NEW q \in Probe, q # p PROVE ~Runs(q)'
    BY Zenon, <1>1, <1>7, <2>1 DEF Runs
  <2>2. ~Runs(p)'
    BY Zenon, <1>6, <1>7 DEF Runs
  <2> QED
    BY Zenon, <2>1, <2>2
<1>10. \A q \in Probe : probe'[q].owed \subseteq checks /\ probe'[q].missed = {}
  BY Zenon, <1>1, <1>6, <1>7 DEF ProbeOK
<1>11. Covered(checks)' /\ \A q \in Probe : Covered(probe[q].owed)'
  BY Zenon, <1>1, <1>2, <1>3, <1>10 DEF Covered
<1>12. ASSUME NEW q \in Probe PROVE ProbeOK(q)'
  BY Zenon, <1>1, <1>9, <1>10, <1>11 DEF ProbeOK, Runs
<1> QED
  BY Zenon, <1>4, <1>8, <1>9, <1>11, <1>12 DEF ReadinessInv

LEMMA ReadinessStep ==
    ASSUME ReadinessInv, [ReadinessNext]_readinessVars
    PROVE  ReadinessInv'
<1>1. /\ ReadinessTypes /\ (round.on => ~cache.fresh /\ \E q \in Probe : Runs(q)) /\ (cache.fresh => Covered(checks))
      /\ (\A q, s \in Probe : Runs(q) /\ Runs(s) => q = s) /\ \A q \in Probe : ProbeOK(q)
  BY Zenon DEF ReadinessInv
<1>2. /\ round.checks \in SUBSET Check /\ round.left \in SUBSET Check /\ round.failed \in SUBSET Check
      /\ cache.passed \in SUBSET Check /\ cache.failed \in SUBSET Check /\ checks \in SUBSET Check
  BY Zenon, <1>1, RoundTypes DEF ReadinessTypes
<1>3. ASSUME NEW k \in Check, AddHealthCheck(k) PROVE ReadinessInv'
  <2>1. /\ checks' = checks \cup {k} /\ UNCHANGED <<probing, up, round, probe>>
        /\ late' \in SUBSET Check /\ late \subseteq late' /\ (round.on => k \in late')
    BY Zenon, <1>1, <1>3 DEF AddHealthCheck, ReadinessTypes
  <2>2. /\ cache' \in [fresh : BOOLEAN, passed : SUBSET Check, failed : SUBSET Check]
        /\ cache'.passed = cache.passed /\ cache'.failed = cache.failed /\ ~cache'.fresh
    BY <1>1, <1>3 DEF AddHealthCheck, ReadinessTypes
  <2>3. ReadinessTypes'
    BY Zenon, <1>1, <2>1, <2>2 DEF ReadinessTypes
  <2>4. ASSUME NEW q \in Probe PROVE ProbeOK(q)'
    <3>1. ProbeOK(q)
      BY Zenon, <1>1
    <3>2. probe[q].pc = "running" => checks' \subseteq round.checks \cup late'
      BY Zenon, <2>1, <3>1 DEF ProbeOK, Runs
    <3>3. Covered(probe[q].owed) => Covered(probe[q].owed)'
      BY Zenon, <2>1, <2>2 DEF Covered
    <3>4. probe'[q].owed \subseteq checks'
      BY Zenon, <2>1, <3>1 DEF ProbeOK
    <3> QED
      BY Zenon, <2>1, <3>1, <3>2, <3>3, <3>4 DEF ProbeOK, Runs
  <2> QED
    BY Zenon, <1>1, <2>1, <2>2, <2>3, <2>4 DEF ReadinessInv, Runs
<1>4. ASSUME NEW p \in Probe, ProbeArrives(p) PROVE ReadinessInv'
  <2>1. PICK r : r = [pc |-> IF up THEN "look" ELSE "done", answer |-> IF up THEN "none" ELSE "fail",
                      owed |-> checks, missed |-> {}]
    BY Zenon
  <2>2. r \in ProbeRecord /\ r.pc \in {"look", "done"} /\ r.owed = checks /\ r.missed = {}
    BY <1>2, <2>1 DEF ProbeRecord
  <2>3. probe' = [probe EXCEPT ![p] = r] /\ ~Runs(p) /\ UNCHANGED <<probing, checks, up, cache, round, late>>
    BY Zenon, <1>4, <2>1 DEF ProbeArrives, Runs
  <2> QED
    BY Zenon, <2>2, <2>3, ProbeGoes
<1>5. ASSUME NEW p \in Probe, NEW c \in {"look", "wait"}, probe' = [probe EXCEPT ![p].pc = c], ~Runs(p),
             c = "wait" => round.on, UNCHANGED <<probing, checks, up, cache, round, late>>
      PROVE  ReadinessInv'
  <2>1. PICK r : r = [probe[p] EXCEPT !.pc = c]
    BY Zenon
  <2>2. probe[p] \in ProbeRecord
    BY Zenon, <1>1 DEF ReadinessTypes
  <2>3. r \in ProbeRecord /\ r.pc = c /\ r.owed = probe[p].owed /\ r.missed = probe[p].missed
    BY <2>1, <2>2 DEF ProbeRecord
  <2>4. r.owed \subseteq checks /\ r.missed = {}
    BY Zenon, <1>1, <2>3 DEF ProbeOK
  <2> QED
    BY Zenon, <1>5, <2>1, <2>3, <2>4, ProbeGoes
<1>6. ASSUME NEW p \in Probe, NEW P, NEW F, Answers(p, P, F), F = {} => probe[p].owed \subseteq P \cup late, ~Runs(p),
             UNCHANGED <<probing, checks, up, cache, round, late>>
      PROVE  ReadinessInv'
  <2>1. PICK r \in ProbeRecord : probe' = [probe EXCEPT ![p] = r] /\ r.pc = "done" /\ r.owed = probe[p].owed /\ r.missed = {}
    BY Zenon, <1>1, <1>6, ProbeAnswered
  <2>2. r.owed \subseteq checks
    BY Zenon, <1>1, <2>1 DEF ProbeOK
  <2> QED
    BY Zenon, <1>6, <2>1, <2>2, ProbeGoes
<1>7. ASSUME NEW p \in Probe, Look(p) PROVE ReadinessInv'
  <2>1. ~Runs(p) /\ UNCHANGED <<probing, checks, up, cache, late>> /\ probe[p].owed \subseteq checks
    BY Zenon, <1>1, <1>7 DEF Look, Runs, ProbeOK
  <2>2. CASE cache.fresh /\ Answers(p, cache.passed, cache.failed) /\ UNCHANGED round
    <3>1. cache.failed = {} => probe[p].owed \subseteq cache.passed \cup late
      BY Zenon, <1>1, <2>1, <2>2 DEF Covered
    <3> QED
      BY Zenon, <1>6, <2>1, <2>2, <3>1
  <2>3. CASE round.on /\ probe' = [probe EXCEPT ![p].pc = "wait"] /\ UNCHANGED round
    BY Zenon, <1>5, <2>1, <2>3
  <2>4. CASE /\ ~cache.fresh /\ ~round.on /\ probe' = [probe EXCEPT ![p].pc = "snapshot"]
             /\ round' = [on |-> TRUE, checks |-> {}, left |-> {}, failed |-> {}]
    <3>1. round' \in [on : BOOLEAN, checks : SUBSET Check, left : SUBSET Check, failed : SUBSET Check] /\ round'.on
      BY <2>4
    <3>2. PICK r : r = [probe[p] EXCEPT !.pc = "snapshot"]
      BY Zenon
    <3>3. probe[p] \in ProbeRecord
      BY Zenon, <1>1 DEF ReadinessTypes
    <3>4. r \in ProbeRecord /\ r.pc = "snapshot" /\ r.owed = probe[p].owed /\ r.missed = probe[p].missed
      BY <3>2, <3>3 DEF ProbeRecord
    <3>5. probe' \in [Probe -> ProbeRecord] /\ probe'[p] = r /\ \A q \in Probe \ {p} : probe'[q] = probe[q]
      BY Zenon, <1>1, <2>4, <3>2, <3>4 DEF ReadinessTypes
    <3>6. ReadinessTypes'
      BY Zenon, <1>1, <2>1, <3>1, <3>5 DEF ReadinessTypes
    <3>7. Runs(p)' /\ \A q \in Probe \ {p} : ~Runs(q)'
      BY Zenon, <1>1, <2>4, <3>4, <3>5 DEF Runs, ProbeOK
    <3>8. ASSUME NEW q \in Probe PROVE ProbeOK(q)'
      <4>1. CASE q = p
        BY Zenon, <1>1, <2>1, <3>1, <3>4, <3>5, <4>1 DEF ProbeOK
      <4>2. CASE q # p
        BY Zenon, <1>1, <2>1, <3>1, <3>5, <3>7, <4>2 DEF ProbeOK, Runs
      <4> QED
        BY Zenon, <4>1, <4>2
    <3> QED
      BY Zenon, <2>1, <2>4, <3>6, <3>7, <3>8 DEF ReadinessInv
  <2> QED
    BY Zenon, <1>7, <2>2, <2>3, <2>4 DEF Look
<1>8. ASSUME NEW p \in Probe, Snapshot(p) \/ CheckReturns(p) PROVE ReadinessInv'
  <2>1. Runs(p) /\ round.on /\ UNCHANGED <<probing, checks, up, cache>> /\ probe[p].owed \subseteq checks /\ probe[p].missed = {}
    BY Zenon, <1>1, <1>8 DEF Snapshot, CheckReturns, Runs, ProbeOK
  <2>2. /\ round' \in [on : BOOLEAN, checks : SUBSET Check, left : SUBSET Check, failed : SUBSET Check] /\ round'.on
        /\ Snapshot(p) => round'.checks = checks
        /\ CheckReturns(p) => round'.checks = round.checks
    <3>1. CASE Snapshot(p)
      <4>1. round' = [round EXCEPT !.checks = checks, !.left = checks] /\ round.on
        BY Zenon, <2>1, <3>1 DEF Snapshot
      <4>2. round'.checks = checks /\ round'.on /\ round' \in [on : BOOLEAN, checks : SUBSET Check, left : SUBSET Check, failed : SUBSET Check]
        BY <1>1, <1>2, <4>1 DEF ReadinessTypes
      <4>3. ~CheckReturns(p)
        BY Zenon, <3>1 DEF Snapshot, CheckReturns
      <4> QED
        BY Zenon, <4>2, <4>3
    <3>2. CASE CheckReturns(p)
      <4>1. PICK k \in round.left, ok \in BOOLEAN :
               round' = [round EXCEPT !.left = @ \ {k}, !.failed = IF ok THEN @ ELSE @ \cup {k}]
        BY Zenon, <3>2 DEF CheckReturns
      <4>2. PICK L \in SUBSET Check, F \in SUBSET Check : round' = [round EXCEPT !.left = L, !.failed = F]
        BY Zenon, <1>2, <4>1
      <4>3. round'.checks = round.checks /\ round'.on /\ round' \in [on : BOOLEAN, checks : SUBSET Check, left : SUBSET Check, failed : SUBSET Check]
        BY <1>1, <2>1, <4>2 DEF ReadinessTypes
      <4>4. ~Snapshot(p)
        BY Zenon, <3>2 DEF Snapshot, CheckReturns
      <4> QED
        BY Zenon, <4>3, <4>4
    <3> QED
      BY Zenon, <1>8, <3>1, <3>2
  <2>3. /\ probe' \in [Probe -> ProbeRecord] /\ probe'[p].pc = "running"
        /\ probe'[p].owed = probe[p].owed /\ probe'[p].missed = probe[p].missed
        /\ \A q \in Probe \ {p} : probe'[q] = probe[q]
    <3>1. CASE Snapshot(p)
      <4>1. PICK r : r = [probe[p] EXCEPT !.pc = "running"]
        BY Zenon
      <4>2. probe[p] \in ProbeRecord
        BY Zenon, <1>1 DEF ReadinessTypes
      <4>3. r \in ProbeRecord /\ r.pc = "running" /\ r.owed = probe[p].owed /\ r.missed = probe[p].missed
        BY <4>1, <4>2 DEF ProbeRecord
      <4>4. probe' = [probe EXCEPT ![p] = r]
        BY Zenon, <3>1, <4>1 DEF Snapshot
      <4> QED
        BY Zenon, <1>1, <4>3, <4>4 DEF ReadinessTypes
    <3>2. CASE CheckReturns(p)
      BY Zenon, <1>1, <3>2 DEF CheckReturns, ReadinessTypes
    <3> QED
      BY Zenon, <1>8, <3>1, <3>2
  <2>4. late' \in SUBSET Check /\ checks \subseteq round'.checks \cup late'
    <3>1. CASE Snapshot(p)
      BY Zenon, <2>2, <3>1 DEF Snapshot
    <3>2. CASE CheckReturns(p)
      BY Zenon, <1>1, <2>2, <3>2 DEF CheckReturns, ReadinessTypes, ProbeOK
    <3> QED
      BY Zenon, <1>8, <3>1, <3>2
  <2>5. ReadinessTypes'
    BY Zenon, <1>1, <2>1, <2>2, <2>3, <2>4 DEF ReadinessTypes
  <2>6. Runs(p)' /\ \A q \in Probe \ {p} : ~Runs(q)'
    BY Zenon, <1>1, <2>1, <2>3 DEF Runs
  <2>7. ASSUME NEW q \in Probe PROVE ProbeOK(q)'
    <3>1. CASE q = p
      BY Zenon, <2>1, <2>2, <2>3, <2>4, <3>1 DEF ProbeOK
    <3>2. CASE q # p
      BY ZenonT(40), <1>1, <2>1, <2>2, <2>3, <2>6, <3>2 DEF ProbeOK, Runs
    <3> QED
      BY Zenon, <3>1, <3>2
  <2> QED
    BY Zenon, <1>1, <2>1, <2>2, <2>5, <2>6, <2>7 DEF ReadinessInv
<1>9. ASSUME NEW p \in Probe, RoundEnds(p) PROVE ReadinessInv'
  <2>1. PICK P \in SUBSET Check : P = round.checks \ round.failed /\ round.checks \subseteq P \cup round.failed
    BY Zenon, <1>2
  <2> QED
    BY Zenon, <1>2, <1>9, <2>1, RoundOver DEF RoundEnds
<1>10. ASSUME NEW p \in Probe, RoundTimesOut(p) PROVE ReadinessInv'
  <2>1. PICK F \in SUBSET Check : F = round.failed \cup round.left
    BY Zenon, <1>2
  <2>2. PICK P \in SUBSET Check : P = round.checks \ F /\ round.checks \subseteq P \cup F
    BY Zenon, <1>2
  <2> QED
    BY Zenon, <1>10, <2>1, <2>2, RoundOver DEF RoundTimesOut
<1>11. ASSUME NEW p \in Probe, RoundSeen(p) PROVE ReadinessInv'
  <2>1. ~Runs(p) /\ ~round.on /\ Covered(probe[p].owed) /\ UNCHANGED <<probing, checks, up, cache, round, late>>
    BY Zenon, <1>1, <1>11 DEF RoundSeen, Runs, ProbeOK
  <2>2. cache.failed = {} => probe[p].owed \subseteq cache.passed \cup late
    BY Zenon, <2>1 DEF Covered
  <2> QED
    BY Zenon, <1>5, <1>6, <1>11, <2>1, <2>2 DEF RoundSeen
<1>12. ASSUME NEW p \in Probe, ProbeGivesUp(p) PROVE ReadinessInv'
  BY Zenon, <1>6, <1>12 DEF ProbeGivesUp, Runs
<1>13. CASE CacheExpires
  <2>1. /\ cache' \in [fresh : BOOLEAN, passed : SUBSET Check, failed : SUBSET Check]
        /\ cache'.passed = cache.passed /\ cache'.failed = cache.failed /\ ~cache'.fresh
    BY <1>1, <1>13 DEF CacheExpires, ReadinessTypes
  <2>2. UNCHANGED <<probing, checks, up, round, late, probe>>
    BY Zenon, <1>13 DEF CacheExpires
  <2>3. ReadinessTypes'
    BY Zenon, <1>1, <2>1, <2>2 DEF ReadinessTypes
  <2>4. \A q \in Probe : ProbeOK(q)'
    BY Zenon, <1>1, <2>1, <2>2 DEF ProbeOK, Runs, Covered
  <2> QED
    BY Zenon, <1>1, <2>1, <2>2, <2>3, <2>4 DEF ReadinessInv, Runs
<1>14. CASE Draining \/ UNCHANGED readinessVars
  <2>1. UNCHANGED <<probing, checks, cache, round, late, probe>> /\ up' \in BOOLEAN
    BY Zenon, <1>1, <1>14 DEF Draining, readinessVars, ReadinessTypes
  <2> QED
    BY Zenon, <1>1, <2>1 DEF ReadinessInv, ReadinessTypes, ProbeOK, Runs, Covered
<1> QED
  BY Zenon, <1>3, <1>4, <1>7, <1>8, <1>9, <1>10, <1>11, <1>12, <1>13, <1>14 DEF ReadinessNext

\* Whatever checks are added and however probes, rounds, timeouts and the cache
\* interleave, on either server: a probe that was told "ready" is missing no
\* check it was owed, and one round runs at a time.
THEOREM ReadyIsPassed == ReadinessSpec => []ReadyMeansPassed
<1>1. ReadinessInit => ReadinessInv
  <2> SUFFICES ASSUME ReadinessInit PROVE ReadinessInv
    OBVIOUS
  <2>1. NoProbe \in ProbeRecord /\ NoProbe.pc = "idle" /\ NoProbe.owed = {} /\ NoProbe.missed = {}
    BY DEF NoProbe, ProbeRecord
  <2>2. cache \in [fresh : BOOLEAN, passed : SUBSET Check, failed : SUBSET Check] /\ ~cache.fresh
    BY DEF ReadinessInit
  <2>3. round \in [on : BOOLEAN, checks : SUBSET Check, left : SUBSET Check, failed : SUBSET Check] /\ ~round.on
    BY DEF ReadinessInit, NoRound
  <2>4. probe \in [Probe -> ProbeRecord] /\ \A p \in Probe : probe[p] = NoProbe
    BY Zenon, <2>1 DEF ReadinessInit
  <2> QED
    BY Zenon, <2>1, <2>2, <2>3, <2>4 DEF ReadinessInit, ReadinessInv, ReadinessTypes, ProbeOK, Runs
<1>2. ReadinessInv => ReadyMeansPassed
  <2> SUFFICES ASSUME ReadinessInv PROVE ReadyMeansPassed
    OBVIOUS
  <2>1. \A p \in Probe : probe[p].missed = {}
    BY Zenon DEF ReadinessInv, ProbeOK
  <2>2. PICK R : R = {p \in Probe : probe[p].pc \in {"snapshot", "running"}}
    BY Zenon
  <2>3. CASE round.on
    <3>1. PICK p \in Probe : Runs(p)
      BY Zenon, <2>3 DEF ReadinessInv
    <3>2. R = {p}
      BY Zenon, <2>2, <3>1 DEF ReadinessInv, Runs
    <3> QED
      BY Zenon, <2>1, <2>2, <2>3, <3>2, FS_Singleton DEF ReadyMeansPassed
  <2>4. CASE ~round.on
    <3>1. R = {}
      BY Zenon, <2>2, <2>4 DEF ReadinessInv, ProbeOK, Runs
    <3> QED
      BY Zenon, <2>1, <2>2, <2>4, <3>1, FS_EmptySet DEF ReadyMeansPassed
  <2> QED
    BY Zenon, <2>3, <2>4
<1> QED
  BY <1>1, <1>2, ReadinessStep, PTL DEF ReadinessSpec
=============================================================================
