----------------------------- MODULE Readiness ------------------------------
(***************************************************************************)
(* The readiness probe of the HTTP server (netx/httpx, readinessResult)    *)
(* and of the gRPC server (netx/grpcx, healthService.result): one round of *)
(* checks at a time, shared by the probes that come meanwhile, and its     *)
(* result reused for CacheTTL.  The two differ in what a waiting probe     *)
(* does when the round ends, in what a round does with a check that does   *)
(* not return, and in whether a waiting probe may give up.                 *)
(*                                                                         *)
(* A check passes or fails at the moment it runs; time is only whether the *)
(* cached result is younger than CacheTTL.                                 *)
(***************************************************************************)
EXTENDS Integers, FiniteSets

CONSTANTS Check, Probe

VARIABLES
    probing,    \* "http" or "grpc"
    checks,     \* the registered checks
    up,         \* ready: the server is not draining
    cache,      \* [fresh, passed, failed]: at is set and younger than CacheTTL
    round,      \* [on, by, checks, left, failed]: the round in progress
    late,       \* checks added while the round of the cached result was running
    probe       \* probe -> [pc, answer, owed, missed]; owed: checks registered when it
                \* began; missed: those of them its "ok" does not rest on

readinessVars == <<probing, checks, up, cache, round, late, probe>>

NoRound == [on |-> FALSE, checks |-> {}, left |-> {}, failed |-> {}]
NoProbe == [pc |-> "idle", answer |-> "none", owed |-> {}, missed |-> {}]

ReadinessInit ==
    /\ probing \in {"http", "grpc"}
    /\ checks = {} /\ up = TRUE
    /\ cache = [fresh |-> FALSE, passed |-> {}, failed |-> {}]
    /\ round = NoRound
    /\ late = {}
    /\ probe = [p \in Probe |-> NoProbe]

\* AddHealthCheck, addCheck: the cached result does not cover the new check.
AddHealthCheck(k) ==
    /\ k \notin checks
    /\ checks' = checks \cup {k}
    /\ cache' = [cache EXCEPT !.fresh = FALSE]
    /\ late' = IF round.on THEN late \cup {k} ELSE late
    /\ UNCHANGED <<probing, up, round, probe>>

\* Probe p is answered with a result: these passed, these failed.
Answers(p, passed, failed) ==
    probe' = [probe EXCEPT ![p].pc = "done",
                           ![p].answer = IF failed = {} THEN "ok" ELSE "fail",
                           ![p].missed = IF failed = {} THEN probe[p].owed \ (passed \cup late) ELSE {}]

\* serveReadiness, Check: while draining the answer is a failure.
ProbeArrives(p) ==
    /\ probe[p].pc = "idle"
    /\ probe' = [probe EXCEPT ![p] = [pc |-> IF up THEN "look" ELSE "done", answer |-> IF up THEN "none" ELSE "fail",
                                      owed |-> checks, missed |-> {}]]
    /\ UNCHANGED <<probing, checks, up, cache, round, late>>

\* The cached result, the round in progress, or a round of its own.
Look(p) ==
    /\ probe[p].pc = "look"
    /\ \/ cache.fresh /\ Answers(p, cache.passed, cache.failed) /\ UNCHANGED round
       \/ ~cache.fresh /\ round.on /\ probe' = [probe EXCEPT ![p].pc = "wait"] /\ UNCHANGED round
       \/ /\ ~cache.fresh /\ ~round.on
          /\ round' = [on |-> TRUE, checks |-> {}, left |-> {}, failed |-> {}]
          /\ probe' = [probe EXCEPT ![p].pc = "snapshot"]
    /\ UNCHANGED <<probing, checks, up, cache, late>>

\* runChecks copies the checks under its lock and starts them.
Snapshot(p) ==
    /\ probe[p].pc = "snapshot"
    /\ round' = [round EXCEPT !.checks = checks, !.left = checks]
    /\ probe' = [probe EXCEPT ![p].pc = "running"]
    /\ late' = {}
    /\ UNCHANGED <<probing, checks, up, cache>>

\* A check returns (on the HTTP server a panic is a failure, safeCheck).
CheckReturns(p) ==
    /\ probe[p].pc = "running"
    /\ \E k \in round.left, ok \in BOOLEAN :
         round' = [round EXCEPT !.left = @ \ {k}, !.failed = IF ok THEN @ ELSE @ \cup {k}]
    /\ UNCHANGED <<probing, checks, up, cache, late, probe>>

\* The round ends: the result is cached and p, which ran it, is answered.
EndRound(p, passed, failed) ==
    /\ cache' = [fresh |-> TRUE, passed |-> passed, failed |-> failed]
    /\ round' = NoRound
    /\ Answers(p, passed, failed)
    /\ UNCHANGED <<probing, checks, up, late>>

RoundEnds(p) ==
    /\ probe[p].pc = "running" /\ round.left = {}
    /\ EndRound(p, round.checks \ round.failed, round.failed)

\* Variant: the checks still running at CheckTimeout are forgotten.
RoundTimesOutForgets(p) ==
    /\ probing = "http"
    /\ probe[p].pc = "running" /\ round.left # {}
    /\ EndRound(p, round.checks \ (round.failed \cup round.left), round.failed)

\* The HTTP server fails the checks still running at CheckTimeout; the gRPC
\* server passes them its context and waits for them to return.
RoundTimesOut(p) ==
    /\ probing = "http"
    /\ probe[p].pc = "running" /\ round.left # {}
    /\ EndRound(p, round.checks \ (round.failed \cup round.left), round.failed \cup round.left)

\* A waiting probe of the HTTP server takes the result of the round it waited
\* for, whatever happened since; one of the gRPC server looks again.
RoundSeen(p) ==
    /\ probe[p].pc = "wait" /\ ~round.on
    /\ IF probing = "http" THEN Answers(p, cache.passed, cache.failed) ELSE probe' = [probe EXCEPT ![p].pc = "look"]
    /\ UNCHANGED <<probing, checks, up, cache, round, late>>

\* The gRPC caller's context ends while it waits.
ProbeGivesUp(p) ==
    /\ probing = "grpc" /\ probe[p].pc = "wait"
    /\ Answers(p, {}, {"canceled"})
    /\ UNCHANGED <<probing, checks, up, cache, round, late>>

CacheExpires ==
    /\ cache.fresh
    /\ cache' = [cache EXCEPT !.fresh = FALSE]
    /\ UNCHANGED <<probing, checks, up, round, late, probe>>

\* setReady(false) when the server starts to drain.
Draining ==
    /\ up /\ up' = FALSE
    /\ UNCHANGED <<probing, checks, cache, round, late, probe>>

ReadinessNext ==
    \/ \E k \in Check : AddHealthCheck(k)
    \/ \E p \in Probe :
         \/ ProbeArrives(p) \/ Look(p) \/ Snapshot(p) \/ CheckReturns(p)
         \/ RoundEnds(p) \/ RoundTimesOut(p) \/ RoundSeen(p) \/ ProbeGivesUp(p)
    \/ CacheExpires \/ Draining

ReadinessSpec == ReadinessInit /\ [][ReadinessNext]_readinessVars

-----------------------------------------------------------------------------
\* A probe told "ready", by its own round, by one it shared or from the cache,
\* was told so of every check registered when it came: each of them ran and
\* passed in the round the answer rests on, except a check that was added while
\* that round was running.  At most one round is in progress.
ReadyMeansPassed ==
    /\ \A p \in Probe : probe[p].missed = {}
    /\ Cardinality({p \in Probe : probe[p].pc \in {"snapshot", "running"}}) = IF round.on THEN 1 ELSE 0
=============================================================================
