-------------------------------- MODULE Idp --------------------------------
(* iam: login through an OIDC provider (core.IDPService, provider/oidc) and *)
(* verification of an issuer's tokens (provider/jwks), over the two caches  *)
(* that serve them, the discovery document and the key set, whose refetches *)
(* are shared (internal/flight).  The identity provider, which rotates its  *)
(* keys, and the application's user port are external.                      *)
EXTENDS Naturals, FiniteSets

CONSTANTS
    Visitors,      \* goroutines: one call each
    TTL,           \* ticks a fetched document is served
    MinRefresh,    \* ticks between refetches for an unknown kid
    MaxIdpTime,       \* bound: ticks of the clock
    MaxKeys        \* bound: keys the provider publishes

ASSUME IdpAssumption ==
    {TTL, MinRefresh, MaxIdpTime, MaxKeys} \subseteq Nat \ {0}

VARIABLES
    idp,       \* the provider: [keys, newest]
    instant,
    held,     \* "discovery", "keys" -> [has, keys, at], at the fetch time
    flight,    \* "discovery", "keys" -> [cur, leader, read, keys]: the Group's call
    visitor    \* visitor -> its call
idpVars == <<idp, instant, held, flight, visitor>>

Caches == {"discovery", "keys"}
NoFlight == [cur |-> FALSE, leader |-> {}, read |-> "no", keys |-> {}]
Away == [pc |-> "idle", op |-> "none", kid |-> 0, canceled |-> FALSE,
         err |-> "none", known |-> FALSE, answer |-> "none"]

IdpInit ==
    /\ idp = [keys |-> {1}, newest |-> 1] /\ instant = 0
    /\ held = [c \in Caches |-> [has |-> FALSE, keys |-> {}, at |-> 0]]
    /\ flight = [c \in Caches |-> NoFlight]
    /\ visitor = [v \in Visitors |-> Away]

Ends(v, a) == [visitor EXCEPT ![v].pc = "done", ![v].answer = a, ![v].err = "none"]
Onward(v, pc) == [visitor EXCEPT ![v].pc = pc, ![v].err = "none"]

-----------------------------------------------------------------------------
(* The calls: InitFlow, HandleCallback, Verifier.Verify.  HandleCallback    *)
(* refuses a state that is empty or not the expected one, and a redirect    *)
(* URI that is not the configured one, and Verify an algorithm that is not  *)
(* accepted, before any request.                                            *)

Visit(v, op) ==
    /\ visitor[v].pc = "idle"
    /\ visitor' = [visitor EXCEPT ![v] = [Away EXCEPT !.op = op, !.kid = idp.newest,
                                          !.pc = IF op = "verify" THEN "keys" ELSE "discovery"]]
    /\ UNCHANGED <<idp, instant, held, flight>>
VisitRefused(v) ==
    /\ visitor[v].pc = "idle"
    /\ visitor' = Ends(v, "refused")
    /\ UNCHANGED <<idp, instant, held, flight>>

VisitCanceled(v) ==
    /\ visitor[v].pc \notin {"idle", "done"} /\ ~visitor[v].canceled
    /\ visitor' = [visitor EXCEPT ![v].canceled = TRUE]
    /\ UNCHANGED <<idp, instant, held, flight>>

(* exchangeCode: the provider signs the id_token with its newest key. *)
ExchangeCode(v) ==
    /\ visitor[v].pc = "exchange"
    /\ visitor' = IF visitor[v].canceled THEN Ends(v, "canceled")
                  ELSE [visitor EXCEPT ![v].pc = "keys", ![v].kid = idp.newest]
    /\ UNCHANGED <<idp, instant, held, flight>>
ExchangeFails(v) ==
    /\ visitor[v].pc = "exchange"
    /\ visitor' = Ends(v, "refused")
    /\ UNCHANGED <<idp, instant, held, flight>>

-----------------------------------------------------------------------------
(* The caches: getDiscovery and GetKey *)

Age(c) == instant - held[c].at
Recent(c) == held[c].has /\ Age(c) < TTL
FindKey(kid) == kid \in held["keys"].keys

(* What a cache that holds the answer leads to. *)
Hit(v, c) == IF c = "keys" THEN Onward(v, "verify")
             ELSE IF visitor[v].op = "init" THEN Ends(v, "ok") ELSE Onward(v, "exchange")
Serves(v, c) == held[c].has /\ (c = "keys" => FindKey(visitor[v].kid))

(* Group.Do joins the call in flight or starts one, which outlives the      *)
(* caller's context.                                                        *)
Joined(v, c) ==
    IF flight[c].cur THEN flight
    ELSE [flight EXCEPT ![c] = [NoFlight EXCEPT !.cur = TRUE, !.leader = {v}]]

(* The look before the refetch. *)
LookUp(v, c) ==
    /\ visitor[v].pc = c
    /\ IF Serves(v, c) /\ Recent(c)
       THEN visitor' = Hit(v, c) /\ UNCHANGED flight
       ELSE IF c = "keys" /\ Recent(c) /\ Age(c) < MinRefresh
       THEN visitor' = Ends(v, "no key") /\ UNCHANGED flight
       ELSE /\ visitor' = [visitor EXCEPT ![v].pc = IF c = "keys" THEN "wait keys" ELSE "wait discovery",
                                          ![v].known = Serves(v, c)]
            /\ flight' = Joined(v, c)
    /\ UNCHANGED <<idp, instant, held>>

Waiting(v, c) == visitor[v].pc = (IF c = "keys" THEN "wait keys" ELSE "wait discovery")
Woken(v, e) == [visitor[v] EXCEPT !.pc = IF visitor[v].pc = "wait keys" THEN "again keys" ELSE "again discovery",
                                  !.err = e]

(* fetch, fetchDiscovery: the request is answered, later its answer stored. *)
FlightReads(c) ==
    /\ flight[c].cur /\ flight[c].read = "no"
    /\ flight' = [flight EXCEPT ![c].read = "ok", ![c].keys = IF c = "keys" THEN idp.keys ELSE {}]
    /\ UNCHANGED <<idp, instant, held, visitor>>
FlightFails(c) ==
    /\ flight[c].cur /\ flight[c].read = "no"
    /\ flight' = [flight EXCEPT ![c] = NoFlight]
    /\ visitor' = [v \in Visitors |-> IF Waiting(v, c) THEN Woken(v, "fetch") ELSE visitor[v]]
    /\ UNCHANGED <<idp, instant, held>>
FlightEnds(c) ==
    /\ flight[c].read = "ok"
    /\ held' = [held EXCEPT ![c] = [has |-> TRUE, keys |-> flight[c].keys, at |-> instant]]
    /\ flight' = [flight EXCEPT ![c] = NoFlight]
    /\ visitor' = [v \in Visitors |-> IF Waiting(v, c) THEN Woken(v, "none") ELSE visitor[v]]
    /\ UNCHANGED <<idp, instant>>

(* The caller's own context ends while it waits. *)
LeaveTogether(v, c) ==
    /\ Waiting(v, c) /\ visitor[v].canceled
    /\ LET all == IF v \in flight[c].leader THEN {w \in Visitors : Waiting(w, c)} ELSE {v}
       IN visitor' = [w \in Visitors |-> IF w \in all THEN Woken(w, "canceled") ELSE visitor[w]]
    /\ flight' = IF v \in flight[c].leader THEN [flight EXCEPT ![c] = NoFlight] ELSE flight
    /\ UNCHANGED <<idp, instant, held>>
LeaveFlight(v, c) ==
    /\ Waiting(v, c) /\ visitor[v].canceled
    /\ visitor' = [visitor EXCEPT ![v] = Woken(v, "canceled")]
    /\ UNCHANGED <<idp, instant, held, flight>>

(* The look after it: what the cache holds is served even when the refetch  *)
(* failed.                                                                  *)
LookAgain(v, c) ==
    /\ visitor[v].pc = (IF c = "keys" THEN "again keys" ELSE "again discovery")
    /\ visitor' = IF Serves(v, c)
                  THEN (IF c = "keys" THEN [visitor EXCEPT ![v].pc = "verify"] ELSE Hit(v, c))
                  ELSE Ends(v, IF visitor[v].err = "none" THEN "no key" ELSE visitor[v].err)
    /\ UNCHANGED <<idp, instant, held, flight>>

-----------------------------------------------------------------------------
(* validateIDToken, checkIDTokenClaims, checkLifetime: what may be wrong    *)
(* with a token and is looked at, the nonce only of a callback and the      *)
(* lifetime only of Verify.                                                 *)
TokenDefects == {"none", "signature", "alg", "issuer", "audience", "expired", "future"}
IDTokenDefects == TokenDefects \cup {"nonce"}
VerifierDefects == TokenDefects \cup {"lifetime"}

VerifyToken(v) ==
    /\ visitor[v].pc = "verify"
    /\ \E d \in (IF visitor[v].op = "callback" THEN IDTokenDefects ELSE VerifierDefects) :
         visitor' = IF d # "none" THEN Ends(v, "refused")
                    ELSE IF visitor[v].op = "callback" THEN [visitor EXCEPT ![v].pc = "account"]
                    ELSE Ends(v, "ok")
    /\ UNCHANGED <<idp, instant, held, flight>>

(* FindOrCreateByExternalIdentity and ListUserTenants: the local user, who  *)
(* may be inactive, or the port's error.                                    *)
ResolveUser(v) ==
    /\ visitor[v].pc = "account"
    /\ \E a \in {"ok", "refused"} : visitor' = Ends(v, a)
    /\ UNCHANGED <<idp, instant, held, flight>>

-----------------------------------------------------------------------------
(* The provider publishes a new key, and retires its oldest. *)
PublishKey ==
    /\ idp.newest < MaxKeys
    /\ idp' = [keys |-> idp.keys \cup {idp.newest + 1}, newest |-> idp.newest + 1]
    /\ UNCHANGED <<instant, held, flight, visitor>>
RetireKey ==
    /\ idp.keys # {idp.newest}
    /\ idp' = [idp EXCEPT !.keys = {idp.newest}]
    /\ UNCHANGED <<instant, held, flight, visitor>>
IdpTick ==
    /\ instant < MaxIdpTime
    /\ instant' = instant + 1
    /\ UNCHANGED <<idp, held, flight, visitor>>

IdpNext ==
    \/ \E v \in Visitors :
         \/ \E op \in {"init", "callback", "verify"} : Visit(v, op)
         \/ VisitRefused(v) \/ VisitCanceled(v) \/ ExchangeCode(v) \/ ExchangeFails(v) \/ VerifyToken(v) \/ ResolveUser(v)
         \/ \E c \in Caches : LookUp(v, c) \/ LeaveFlight(v, c) \/ LookAgain(v, c)
    \/ \E c \in Caches : FlightReads(c) \/ FlightFails(c) \/ FlightEnds(c)
    \/ PublishKey \/ RetireKey \/ IdpTick
IdpSpec == IdpInit /\ [][IdpNext]_idpVars

(* One fetch serves many calls and none of them pays for another, nor for   *)
(* an outage (flight.Group.Do, Cache.GetKey, getDiscovery): a call answers  *)
(* that its context ended only when its own did, although the fetch it      *)
(* waits for was started by another; and a failed fetch fails a call only   *)
(* when what it needs was not in the cache as it looked, or the provider    *)
(* has since retired its key.                                               *)
SharedFetchFair ==
    \A v \in Visitors :
      /\ visitor[v].answer = "canceled" => visitor[v].canceled
      /\ visitor[v].answer = "fetch" => ~visitor[v].known \/ visitor[v].kid \notin idp.keys
=============================================================================
