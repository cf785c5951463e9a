------------------------------- MODULE CronJob -------------------------------
(***************************************************************************)
(* One job scheduled on several replicas with a Locker (base/cronjob:      *)
(* scheduler.go, lock.go).  Each replica has a schedule goroutine that     *)
(* fires the run of a slot (take the lease, claim the slot, run, release)  *)
(* and, while the job runs, a keepAlive goroutine that renews the lease.   *)
(* Commands to Redis take up to MaxDelay; their answer may be lost, before *)
(* or after Redis executed them, and the caller then sees an error.        *)
(* Locals that are no longer read go back to their initial value.          *)
(***************************************************************************)
EXTENDS RedisLocker, TLC

CONSTANTS
    Replica,
    Modes,       \* values of ScheduleConfig.Mode: "interval", "fixed"
    Interval,    \* period of the schedule: the ticker's, or a day
    FixedSlotTTL,\* fixedSlotTTL
    OffDays,     \* slots of days that Weekdays leaves out
    MaxSkew,     \* wall clocks run 0..MaxSkew ahead of Redis
    MaxDelay,    \* longest time from sending a command to its answer or error
    MaxTime,     \* bound: the clock stops here
    MaxCrashes   \* bound on process crashes

ASSUME CronAssumption ==
    /\ Modes \subseteq {"interval", "fixed"}
    /\ LockTTL \in Nat /\ FixedSlotTTL \in Nat /\ Interval \in Nat \ {0}
    /\ MaxSkew \in Nat /\ MaxDelay \in Nat /\ MaxTime \in Nat /\ MaxCrashes \in Nat
    /\ LockTTL \div 3 > 0
    /\ Slot = 0 .. ((MaxTime + MaxSkew) \div Interval)
    /\ OffDays \subseteq Slot

VARIABLES
    mode,        \* ScheduleConfig.Mode
    skew,        \* how far each replica's wall clock is ahead of Redis
    pc,          \* where each replica's schedule goroutine is
    slot,        \* slot of the run being fired
    token,       \* fencing token of the lease it was granted, 0 without one
    sent,        \* when its command to Redis was sent
    due,         \* when the schedule's ticker or timer fires next
    ka,          \* where each keepAlive goroutine is
    kaDue,       \* next tick of its ticker
    kaSent,      \* when its Renew was sent
    renewed,     \* keepAlive's local: last successful renewal
    cancelled,   \* the context of the run in progress is done
    stopped,     \* Stop was called, or the parent context ended
    status,      \* JobHandle.status: "stopped", or "up" (running or failed)
    crashes,
    \* History, read only by the properties:
    until,       \* expiry Redis last granted to the replica's token
    runs         \* how many runs each slot had

config == <<mode, skew>>
jobVars == <<pc, slot, token, sent, due, until>>
kaVars == <<ka, kaDue, kaSent, renewed>>
handleVars == <<stopped, status, crashes>>
vars == <<now, locker, jobVars, config, kaVars, cancelled, handleVars, runs>>

RenewPeriod == LockTTL \div 3

\* Ticks of a ticker due at d and not yet received collapse into one: the
\* channel holds a single tick, and the next one comes on the period's grid.
NextTick(d, period) == d + period * (1 + (now - d) \div period)

Wall(r) == now + skew[r]

\* nextFixedRun: the first scheduled instant strictly after the wall clock,
\* as the time its timer fires.
NextFixedRun(r) == Interval * (1 + Wall(r) \div Interval) - skew[r]

\* The slot a run fired now belongs to: now.Truncate(Interval), or nextRun.
CurrentSlot(r) == Wall(r) \div Interval

\* A claim that lasts no longer than the lease.
LeaseLongClaim == LockTTL

\* How long the claim of a slot lasts (what runInterval and runFixed pass).
SlotTTL == IF mode = "interval" THEN Interval ELSE FixedSlotTTL

Init ==
    /\ now = 0
    /\ RedisInit
    /\ pc = [r \in Replica |-> "idle"]
    /\ slot = [r \in Replica |-> 0]
    /\ token = [r \in Replica |-> 0]
    /\ sent = [r \in Replica |-> 0]
    /\ mode \in Modes
    /\ skew \in [Replica -> 0..MaxSkew]
    /\ IF mode = "interval"
       THEN due \in [Replica -> 1..Interval]
       ELSE due = [r \in Replica |-> NextFixedRun(r)]
    /\ ka = [r \in Replica |-> "off"]
    /\ kaDue = [r \in Replica |-> 0]
    /\ kaSent = [r \in Replica |-> 0]
    /\ renewed = [r \in Replica |-> 0]
    /\ cancelled = [r \in Replica |-> FALSE]
    /\ stopped = [r \in Replica |-> FALSE]
    /\ status = [r \in Replica |-> "up"]
    /\ crashes = 0
    /\ until = [r \in Replica |-> 0]
    /\ runs = [s \in Slot |-> 0]
-----------------------------------------------------------------------------
(* The schedule goroutine: runInterval, runFixed and fire.                 *)

\* setStatus: a stopped handle stays stopped.
SetStatus(r, s) ==
    status' = IF status[r] = "stopped" THEN status ELSE [status EXCEPT ![r] = s]

Send(r, state) ==
    /\ pc' = [pc EXCEPT ![r] = state]
    /\ sent' = [sent EXCEPT ![r] = now]

\* fire returns, and the loop waits for its next event.  runFixed arms a new
\* timer from the clock it reads now; the interval ticker keeps its grid.
BackToIdle(r) ==
    /\ pc' = [pc EXCEPT ![r] = "idle"]
    /\ due' = IF mode = "fixed" THEN [due EXCEPT ![r] = NextFixedRun(r)] ELSE due
    /\ slot' = [slot EXCEPT ![r] = 0]
    /\ token' = [token EXCEPT ![r] = 0]
    /\ sent' = [sent EXCEPT ![r] = 0]
    /\ until' = [until EXCEPT ![r] = 0]

\* The ticker or timer fires.  A run whose day is off is skipped, otherwise
\* fire begins by asking for the lease.
Fire(r) ==
    /\ pc[r] = "idle"
    /\ due[r] <= now
    /\ due' = [due EXCEPT ![r] = IF mode = "fixed" THEN NextFixedRun(r)
                                 ELSE NextTick(due[r], Interval)]
    /\ IF CurrentSlot(r) \in OffDays
       THEN UNCHANGED <<pc, sent, slot>>
       ELSE /\ slot' = [slot EXCEPT ![r] = CurrentSlot(r)]
            /\ Send(r, "lease")
    /\ UNCHANGED <<now, locker, token, until, config, kaVars, cancelled, handleVars, runs>>

\* Redis executes the acquire of the lease key.
ExecLease(r) ==
    /\ pc[r] = "lease"
    /\ AcquireLease
    /\ pc' = [pc EXCEPT ![r] = "leaseRep"]
    /\ token' = [token EXCEPT ![r] = LeaseReply]
    /\ until' = [until EXCEPT ![r] = IF LeaseHeld THEN 0 ELSE now + LockTTL]
    /\ UNCHANGED <<now, slot, sent, due, config, kaVars, cancelled, handleVars, runs>>

\* acquire returns the token, and fire goes on to claim the slot.
ClaimSlot(r) ==
    /\ pc[r] = "leaseRep"
    /\ token[r] # 0
    /\ Send(r, "slot")
    /\ UNCHANGED <<now, locker, slot, token, due, until, config, kaVars, cancelled, handleVars, runs>>

\* Another replica has the lease, or acquire fails, whatever Redis did: the
\* run is skipped.
LeaseRefused(r) ==
    /\ pc[r] \in {"lease", "leaseRep"}
    /\ BackToIdle(r)
    /\ UNCHANGED <<now, locker, config, kaVars, cancelled, handleVars, runs>>

\* Redis executes the acquire of the slot key.
ExecSlot(r) ==
    /\ pc[r] = "slot"
    /\ AcquireSlot(slot[r], SlotTTL)
    /\ pc' = [pc EXCEPT ![r] = IF SlotHeld(slot[r]) THEN "slotTaken" ELSE "slotOurs"]
    /\ UNCHANGED <<now, slot, token, sent, due, until, config, kaVars, cancelled, handleVars, runs>>

\* The slot is claimed: keepAlive starts and the job runs with the lease's
\* token, under a context that is already done when Stop came first.
StartRun(r) ==
    /\ pc[r] = "slotOurs"
    /\ pc' = [pc EXCEPT ![r] = "run"]
    /\ cancelled' = [cancelled EXCEPT ![r] = stopped[r]]
    /\ ka' = [ka EXCEPT ![r] = "wait"]
    /\ kaDue' = [kaDue EXCEPT ![r] = now + RenewPeriod]
    /\ renewed' = [renewed EXCEPT ![r] = now]
    /\ runs' = [runs EXCEPT ![slot[r]] = @ + 1]
    /\ slot' = [slot EXCEPT ![r] = 0]
    /\ sent' = [sent EXCEPT ![r] = 0]
    /\ UNCHANGED <<now, locker, token, due, until, config, kaSent, handleVars>>

\* The slot was run already, or its acquire failed: fire returns, and the
\* deferred release gives the lease back.
SlotRefused(r) ==
    /\ pc[r] \in {"slot", "slotOurs", "slotTaken"}
    /\ Send(r, "rel")
    /\ slot' = [slot EXCEPT ![r] = 0]
    /\ UNCHANGED <<now, locker, token, due, until, config, kaVars, cancelled, handleVars, runs>>

\* The job returns (nil, an error or a panic); run records the outcome and
\* fire cancels the context that keepAlive watches.
JobReturns(r) ==
    /\ pc[r] = "run"
    /\ pc' = [pc EXCEPT ![r] = "join"]
    /\ cancelled' = [cancelled EXCEPT ![r] = TRUE]
    /\ SetStatus(r, "up")
    /\ UNCHANGED <<now, locker, slot, token, sent, due, until, config, kaVars, stopped, crashes, runs>>

\* fire waits for keepAlive to end, then releases the lease.
Join(r) ==
    /\ pc[r] = "join"
    /\ ka[r] = "off"
    /\ Send(r, "rel")
    /\ cancelled' = [cancelled EXCEPT ![r] = FALSE]
    /\ UNCHANGED <<now, locker, slot, token, due, until, config, kaVars, handleVars, runs>>

\* Redis executes the release.
ExecRelease(r) ==
    /\ pc[r] = "rel"
    /\ Release(token[r])
    /\ pc' = [pc EXCEPT ![r] = "relRep"]
    /\ UNCHANGED <<now, slot, token, sent, due, until, config, kaVars, cancelled, handleVars, runs>>

\* release returns, with or without an error: fire is over.
Released(r) ==
    /\ pc[r] \in {"rel", "relRep"}
    /\ BackToIdle(r)
    /\ UNCHANGED <<now, locker, config, kaVars, cancelled, handleVars, runs>>
-----------------------------------------------------------------------------
(* The keepAlive goroutine.                                                *)

\* Its ticker fires: Renew is sent.
KeepAliveTick(r) ==
    /\ ka[r] = "wait"
    /\ kaDue[r] <= now
    /\ ka' = [ka EXCEPT ![r] = "renew"]
    /\ kaSent' = [kaSent EXCEPT ![r] = now]
    /\ kaDue' = [kaDue EXCEPT ![r] = NextTick(kaDue[r], RenewPeriod)]
    /\ UNCHANGED <<now, locker, jobVars, config, renewed, cancelled, handleVars, runs>>

\* Redis executes the renewal.
ExecRenew(r) ==
    /\ ka[r] = "renew"
    /\ Renew(token[r])
    /\ ka' = [ka EXCEPT ![r] = IF Holds(token[r]) THEN "renewed" ELSE "gone"]
    /\ until' = IF Holds(token[r]) THEN [until EXCEPT ![r] = now + LockTTL] ELSE until
    /\ UNCHANGED <<now, pc, slot, token, sent, due, config, kaDue, kaSent, renewed, cancelled,
                   handleVars, runs>>

\* Back to the select on the ticker.
AwaitTick(r) ==
    /\ ka' = [ka EXCEPT ![r] = "wait"]
    /\ kaSent' = [kaSent EXCEPT ![r] = 0]
    /\ UNCHANGED kaDue

\* The goroutine ends.
KeepAliveOver(r) ==
    /\ ka' = [ka EXCEPT ![r] = "off"]
    /\ kaDue' = [kaDue EXCEPT ![r] = 0]
    /\ kaSent' = [kaSent EXCEPT ![r] = 0]
    /\ renewed' = [renewed EXCEPT ![r] = 0]

\* A keepAlive that sees ctx done only while it waits for its ticker.
EndsOnlyWaiting(r) ==
    /\ ka[r] = "wait"
    /\ cancelled[r]
    /\ KeepAliveOver(r)
    /\ UNCHANGED <<now, locker, jobVars, config, cancelled, handleVars, runs>>

\* ctx is done: keepAlive ends, also instead of looking at Renew's result.
KeepAliveEnds(r) ==
    /\ ka[r] # "off"
    /\ cancelled[r]
    /\ KeepAliveOver(r)
    /\ UNCHANGED <<now, locker, jobVars, config, cancelled, handleVars, runs>>

\* Renew succeeded.
Renewed(r) ==
    /\ ka[r] = "renewed"
    /\ ~cancelled[r]
    /\ AwaitTick(r)
    /\ renewed' = [renewed EXCEPT ![r] = now]
    /\ UNCHANGED <<now, locker, jobVars, config, cancelled, handleVars, runs>>

\* Errors tolerated for a whole ttl.
TransientForTTL(r) == now - renewed[r] < LockTTL

\* Whether an error of Renew is taken for a transient one.
Transient(r) == now - renewed[r] < (LockTTL * 2) \div 3

Renewing == {"renew", "renewed", "gone"}

\* Renew failed, soon enough after the last success: try on the next tick.
RenewRetried(r) ==
    /\ ka[r] \in Renewing
    /\ ~cancelled[r]
    /\ Transient(r)
    /\ AwaitTick(r)
    /\ UNCHANGED <<now, locker, jobVars, config, renewed, cancelled, handleVars, runs>>

\* The lease is lost, or was not renewed for too long: the run is cancelled.
LeaseLost(r) ==
    /\ ~cancelled[r]
    /\ ka[r] = "gone" \/ (ka[r] \in Renewing /\ ~Transient(r))
    /\ cancelled' = [cancelled EXCEPT ![r] = TRUE]
    /\ KeepAliveOver(r)
    /\ UNCHANGED <<now, locker, jobVars, config, handleVars, runs>>
-----------------------------------------------------------------------------
(* JobHandle.Stop, the process, and the clock.                             *)

\* Stop cancels the schedule and the run in progress; it then waits for done.
Stop(r) ==
    /\ ~stopped[r]
    /\ pc[r] # "crashed"
    /\ stopped' = [stopped EXCEPT ![r] = TRUE]
    /\ cancelled' = [cancelled EXCEPT ![r] = pc[r] \in {"run", "join"}]
    /\ SetStatus(r, "stopped")
    /\ UNCHANGED <<now, locker, jobVars, config, kaVars, crashes, runs>>

\* The schedule loop sees the cancelled context and ends; done is closed.
ScheduleEnds(r) ==
    /\ pc[r] = "idle"
    /\ stopped[r]
    /\ pc' = [pc EXCEPT ![r] = "done"]
    /\ due' = [due EXCEPT ![r] = 0]
    /\ SetStatus(r, "stopped")
    /\ UNCHANGED <<now, locker, slot, token, sent, until, config, kaVars, cancelled, stopped, crashes, runs>>

\* The process dies: its goroutines are gone, what Redis holds stays.
Crash(r) ==
    /\ pc[r] \notin {"done", "crashed"}
    /\ crashes < MaxCrashes
    /\ crashes' = crashes + 1
    /\ pc' = [pc EXCEPT ![r] = "crashed"]
    /\ slot' = [slot EXCEPT ![r] = 0]
    /\ token' = [token EXCEPT ![r] = 0]
    /\ sent' = [sent EXCEPT ![r] = 0]
    /\ due' = [due EXCEPT ![r] = 0]
    /\ until' = [until EXCEPT ![r] = 0]
    /\ KeepAliveOver(r)
    /\ cancelled' = [cancelled EXCEPT ![r] = FALSE]
    /\ stopped' = [stopped EXCEPT ![r] = FALSE]
    /\ status' = [status EXCEPT ![r] = "up"]
    /\ UNCHANGED <<now, locker, config, runs>>

\* A new process schedules the job again (newScheduler, scheduleJob).
Restart(r) ==
    /\ pc[r] = "crashed"
    /\ pc' = [pc EXCEPT ![r] = "idle"]
    /\ due' = [due EXCEPT ![r] = IF mode = "fixed" THEN NextFixedRun(r) ELSE now + Interval]
    /\ UNCHANGED <<now, locker, slot, token, sent, until, config, kaVars, cancelled, handleVars, runs>>

AwaitsRedis == {"lease", "leaseRep", "slot", "slotOurs", "slotTaken", "rel", "relRep"}

\* Time passes.  Answers come within MaxDelay, and a goroutine that can move
\* without Redis or the job does so before the clock does.
Tick ==
    /\ now < MaxTime
    /\ \A r \in Replica :
        /\ pc[r] \in AwaitsRedis => now < sent[r] + MaxDelay
        /\ pc[r] = "idle" => ~stopped[r] /\ now < due[r]
        /\ pc[r] = "join" => ka[r] # "off"
        /\ ka[r] \in Renewing => now < kaSent[r] + MaxDelay
        /\ ka[r] = "wait" => ~cancelled[r] /\ now < kaDue[r]
    /\ now' = now + 1
    /\ UNCHANGED <<locker, jobVars, config, kaVars, cancelled, handleVars, runs>>

Schedule(r) ==
    \/ Fire(r) \/ ExecLease(r) \/ ClaimSlot(r) \/ LeaseRefused(r)
    \/ ExecSlot(r) \/ StartRun(r) \/ SlotRefused(r) \/ JobReturns(r)
    \/ Join(r) \/ ExecRelease(r) \/ Released(r) \/ ScheduleEnds(r)

KeepAlive(r) ==
    \/ KeepAliveTick(r) \/ ExecRenew(r) \/ KeepAliveEnds(r)
    \/ Renewed(r) \/ RenewRetried(r) \/ LeaseLost(r)

Environment(r) == Stop(r) \/ Crash(r) \/ Restart(r)

Next == Tick \/ \E r \in Replica : Schedule(r) \/ KeepAlive(r) \/ Environment(r)

Spec == Init /\ [][Next]_vars

\* Replicas are interchangeable.
Symmetry == Permutations(Replica)
-----------------------------------------------------------------------------
PC == AwaitsRedis \cup {"idle", "run", "join", "done", "crashed"}

TypeOK ==
    /\ now \in 0..MaxTime
    /\ lease \in [token : Nat, until : Nat]
    /\ claim \in [Slot -> Nat]
    /\ fence \in Nat
    /\ pc \in [Replica -> PC]
    /\ slot \in [Replica -> Slot]
    /\ token \in [Replica -> Nat]
    /\ sent \in [Replica -> 0..MaxTime]
    /\ due \in [Replica -> Int]
    /\ mode \in Modes
    /\ skew \in [Replica -> 0..MaxSkew]
    /\ ka \in [Replica -> Renewing \cup {"off", "wait"}]
    /\ kaDue \in [Replica -> Int]
    /\ kaSent \in [Replica -> 0..MaxTime]
    /\ renewed \in [Replica -> 0..MaxTime]
    /\ cancelled \in [Replica -> BOOLEAN]
    /\ stopped \in [Replica -> BOOLEAN]
    /\ status \in [Replica -> {"up", "stopped"}]
    /\ crashes \in 0..MaxCrashes
    /\ until \in [Replica -> Nat]
    /\ runs \in [Slot -> Nat]

\* Fencing (RedisLocker, FencingToken): a lease token belongs to one replica,
\* and none is greater than that of the last lease granted.  So whatever a
\* replica still writes after its lease expired carries a smaller token than
\* the writes of the replica that took over.
HolderIsNewest ==
    /\ \A r \in Replica : token[r] <= lease.token
    /\ \A q, r \in Replica : q # r /\ token[q] # 0 => token[q] # token[r]

\* keepAlive: a run whose context is not done outlives its lease by no more
\* than one command, provided commands take at most a sixth of the ttl.
OverrunBounded ==
    3 * RenewPeriod = LockTTL /\ 2 * MaxDelay <= RenewPeriod =>
        \A r \in Replica :
            pc[r] = "run" /\ ~cancelled[r] => now <= until[r] + MaxDelay

\* fire: the slot claim keeps each slot of a fixed schedule to one run, since
\* fixedSlotTTL covers the skew between replicas and two commands.
FixedSlotRunsOnce ==
    mode = "fixed" /\ FixedSlotTTL > MaxSkew + 2 * MaxDelay => \A s \in Slot : runs[s] <= 1

\* The slot claim keeps each slot to one run (comment of fire).
SlotRunsOnce == \A s \in Slot : runs[s] <= 1

\* The job stops before another replica can take over (comments of keepAlive
\* and fire): two replicas never run it at once, both contexts still alive.
NoOverlap ==
    \A q, r \in Replica :
        (pc[q] = "run" /\ ~cancelled[q]) /\ (pc[r] = "run" /\ ~cancelled[r]) => q = r

\* releaseScript and renewScript: a lease that has not expired goes, or passes
\* to another token, only when the replica that holds it releases it; a late
\* command of a former holder never takes it away.
LeaseNotStolen ==
    [][LeaseHeld /\ now' < lease.until /\ (~LeaseHeld' \/ lease'.token # lease.token) =>
        \E r \in Replica : token[r] = lease.token /\ pc[r] = "rel"]_vars

\* The lease key keeps the promise of the Locker interface.
Service == INSTANCE LockService WITH
    holder <- IF LeaseHeld THEN lease.token ELSE 0,
    granted <- lease.token

ImplementsLocker == Service!Spec

\* Every goroutine is scheduled, commands end, and the job returns.
Fairness == \A r \in Replica : WF_vars(Schedule(r)) /\ WF_vars(KeepAlive(r))

FairSpec == Spec /\ Fairness

\* Stop always ends the schedule, in whatever step of a run it came.
StopEnds == \A r \in Replica : stopped[r] ~> (pc[r] = "done" \/ ~stopped[r])
=============================================================================
