---------------------------- MODULE CronJobProofs ----------------------------
(***************************************************************************)
(* Theorems about CronJob, for every number of replicas and all timings.   *)
(***************************************************************************)
EXTENDS CronJob, TLAPS

LEMMA DivMonotone ==
    ASSUME NEW a \in Nat, NEW b \in Nat, NEW k \in Nat \ {0}, a <= b
    PROVE  a \div k \in 0..(b \div k)
  BY SMT

LEMMA TickIsInteger ==
    ASSUME NEW d \in Int, NEW p \in Nat \ {0}, now \in Nat
    PROVE  NextTick(d, p) \in Int
  BY DEF NextTick

LEMMA TickOnTime ==
    ASSUME NEW p \in Nat \ {0}, now \in Nat
    PROVE  NextTick(now, p) = now + p
  <1>1. (now - now) \div p = 0
    BY SMT
  <1> QED BY <1>1 DEF NextTick

\* What most steps need of CronAssumption.
LEMMA ConstantTypes ==
    /\ LockTTL \in Nat /\ LockTTL > 0 /\ FixedSlotTTL \in Nat /\ Interval \in Nat
    /\ MaxDelay \in Nat
    /\ MaxTime \in Nat /\ MaxCrashes \in Nat
  BY CronAssumption

LEMMA ZeroIsSlot == 0 \in Slot
  BY CronAssumption, DivMonotone

LEMMA PeriodPositive == RenewPeriod \in Nat \ {0}
  BY CronAssumption DEF RenewPeriod

\* Comparisons of times that the steps below need.
LEMMA Reflexive == \A n \in Nat : n <= n /\ n <= n + MaxDelay /\ 0 <= n + LockTTL
  BY ConstantTypes

LEMMA DelayNext == \A n, s \in Nat : n < s + MaxDelay => n + 1 <= s + MaxDelay
  BY ConstantTypes

LEMMA DueNext == \A n \in Nat, d \in Int : n < d => n + 1 <= d
  OBVIOUS

LEMMA LaterStill == \A n, s \in Nat : s <= n => s <= n + 1
  OBVIOUS

LEMMA GrantStill == \A n, u \in Nat : u <= n + LockTTL => u <= n + 1 + LockTTL
  BY ConstantTypes

LEMMA SameTime == \A n \in Nat, d \in Int : n <= d /\ d <= n => d = n
  OBVIOUS

LEMMA DueWithin == \A n \in Nat, d \in Int : n <= d => n <= d + MaxDelay
  BY ConstantTypes

\* A lease granted between s and n is good for a ttl from s, and after one more
\* command for a ttl less MaxDelay.
LEMMA GrantSince == \A n, s \in Nat : s <= n => n + LockTTL >= s + LockTTL
  BY ConstantTypes

LEMMA GrantAfter ==
    \A n, s, u \in Nat : n <= s + MaxDelay /\ u >= s + LockTTL => u + MaxDelay >= n + LockTTL
  BY ConstantTypes

LEMMA PeriodAhead == \A n \in Nat : n <= n + RenewPeriod
  BY PeriodPositive

LEMMA SlotBegins == \A k \in Slot : Interval * k \in Int
  BY CronAssumption

\* A slot claimed at n, one command after it began at b on a clock k ahead.
LEMMA ClaimedWithin ==
    \A n, s, k, b \in Int :
        s + k = b /\ s <= n /\ n <= s + MaxDelay
            => b <= n + k /\ n + k <= b + MaxDelay /\ n <= n /\ n <= n + MaxDelay
  BY ConstantTypes

\* The ttl is a multiple of three, and six commands fit into it.
Timings == 3 * RenewPeriod = LockTTL /\ 2 * MaxDelay <= RenewPeriod

\* Then a command sent at a tick is answered before the next tick.
LEMMA DelayBeforeDue ==
    ASSUME Timings
    PROVE  \A n, s \in Nat : n <= s + MaxDelay => n <= s + RenewPeriod
  BY ConstantTypes, PeriodPositive DEF Timings

LEMMA TwoThirds ==
    ASSUME Timings
    PROVE  (LockTTL * 2) \div 3 = 2 * RenewPeriod
  BY PeriodPositive DEF Timings

\* A renewal sent at s that is retried, because the last success w is less than
\* two periods ago, was not the last one before the lease granted at t ends.
LEMMA RetrySinceStart ==
    \A n, s \in Nat, t \in Int :
        s <= n /\ n - t < 2 * RenewPeriod /\ s \in {t + RenewPeriod, t + 2 * RenewPeriod}
            => s + RenewPeriod = t + 2 * RenewPeriod
  BY PeriodPositive

LEMMA RetrySinceRenewal ==
    ASSUME Timings
    PROVE  \A n, s, w \in Nat, t \in Int :
             /\ s <= n /\ n - w < 2 * RenewPeriod /\ w <= t + MaxDelay
             /\ s \in {t + RenewPeriod, t + 2 * RenewPeriod, t + 3 * RenewPeriod}
             => s + RenewPeriod \in {t + 2 * RenewPeriod, t + 3 * RenewPeriod}
  BY ConstantTypes, PeriodPositive DEF Timings

\* Up to one command after tick k the lease, which ends at u, has ended for at
\* most one command.
LEMMA OverrunSinceStart ==
    ASSUME Timings
    PROVE  \A n, u \in Nat, t, k \in Int :
             /\ n <= k + MaxDelay /\ u + 2 * MaxDelay >= t + 3 * RenewPeriod
             /\ k \in {t + RenewPeriod, t + 2 * RenewPeriod}
             => n <= u + MaxDelay
  BY ConstantTypes, PeriodPositive DEF Timings

LEMMA OverrunSinceRenewal ==
    ASSUME Timings
    PROVE  \A n, u \in Nat, t, k \in Int :
             /\ n <= k + MaxDelay /\ u >= t + 3 * RenewPeriod
             /\ k \in {t + RenewPeriod, t + 2 * RenewPeriod, t + 3 * RenewPeriod}
             => n <= u + MaxDelay
  BY ConstantTypes, PeriodPositive DEF Timings

\* The wall clocks stay within the slots of CronAssumption.
LEMMA SlotInRange ==
    ASSUME NEW r \in Replica, now \in 0..MaxTime, skew \in [Replica -> 0..MaxSkew]
    PROVE  CurrentSlot(r) \in Slot
  <1>1. now + skew[r] \in Nat /\ MaxTime + MaxSkew \in Nat /\ now + skew[r] <= MaxTime + MaxSkew
    BY CronAssumption
  <1>2. (now + skew[r]) \div Interval \in 0..((MaxTime + MaxSkew) \div Interval)
    BY <1>1, DivMonotone, CronAssumption, Zenon
  <1> QED BY Zenon, <1>2, CronAssumption DEF CurrentSlot, Wall

LEMMA FixedRunIsInteger ==
    ASSUME NEW r \in Replica, now \in Nat, skew \in [Replica -> 0..MaxSkew]
    PROVE  NextFixedRun(r) \in Int
  <1>1. skew[r] \in Nat /\ (now + skew[r]) \div Interval \in Int
    BY CronAssumption
  <1> QED BY <1>1, CronAssumption DEF NextFixedRun, Wall
-----------------------------------------------------------------------------
LEMMA InitType == Init => TypeOK
  <1> SUFFICES ASSUME Init PROVE TypeOK OBVIOUS
  <1>1. 0 \in Slot
    BY Zenon, ZeroIsSlot
  <1>2. now \in Nat /\ now \in 0..MaxTime /\ crashes \in 0..MaxCrashes /\ MaxTime \in Nat
    BY CronAssumption DEF Init
  <1>3. skew \in [Replica -> 0..MaxSkew]
    BY Zenon DEF Init
  <1>4. due \in [Replica -> Int]
    <2>1. CASE mode = "interval"
      BY <2>1, CronAssumption DEF Init
    <2>2. CASE mode # "interval"
      BY Zenon, <2>2, <1>2, <1>3, FixedRunIsInteger DEF Init
    <2> QED BY Zenon, <2>1, <2>2
  <1> QED BY <1>1, <1>2, <1>3, <1>4 DEF Init, RedisInit, TypeOK, PC, AwaitsRedis, Renewing

LEMMA NextType == TypeOK /\ [Next]_vars => TypeOK'
  <1> SUFFICES ASSUME TypeOK, [Next]_vars PROVE TypeOK' OBVIOUS
  <1> USE ConstantTypes
  <1>1. now \in Nat
    BY DEF TypeOK
  <1>2. ASSUME NEW r \in Replica
        PROVE  /\ CurrentSlot(r) \in Slot
               /\ NextFixedRun(r) \in Int
               /\ NextTick(due[r], Interval) \in Int
               /\ NextTick(kaDue[r], RenewPeriod) \in Int
               /\ RenewPeriod \in Nat
               /\ 0 \in Slot
    <2>1. due[r] \in Int /\ kaDue[r] \in Int /\ Interval \in Nat \ {0}
      BY Zenon, CronAssumption DEF TypeOK
    <2>2. now \in 0..MaxTime /\ skew \in [Replica -> 0..MaxSkew]
      BY Zenon DEF TypeOK
    <2> QED BY Zenon, <1>1, <2>1, <2>2, ZeroIsSlot, SlotInRange, FixedRunIsInteger, TickIsInteger,
               PeriodPositive
  <1>3. CASE Tick
    BY <1>3 DEF TypeOK, Tick, locker, jobVars, kaVars, config, handleVars
  <1>4. ASSUME NEW r \in Replica, Schedule(r) PROVE TypeOK'
    <2>1. CASE Fire(r)
      BY <2>1, <1>2 DEF TypeOK, Fire, Send, locker, kaVars, config, handleVars, PC, AwaitsRedis
    <2>2. CASE ExecLease(r)
      <3>1. CASE LeaseHeld
        BY Zenon, <2>2, <3>1 DEF TypeOK, ExecLease, AcquireLease, LeaseReply, NextToken, locker,
                          kaVars, config, handleVars, PC, AwaitsRedis
      <3>2. CASE ~LeaseHeld
        BY <2>2, <3>2 DEF TypeOK, ExecLease, AcquireLease, LeaseReply, NextToken, locker,
                          kaVars, config, handleVars, PC, AwaitsRedis
      <3> QED BY Zenon, <3>1, <3>2
    <2>3. CASE ClaimSlot(r)
      BY Zenon, <2>3 DEF TypeOK, ClaimSlot, Send, locker, kaVars, config, handleVars, PC, AwaitsRedis
    <2>4. CASE LeaseRefused(r) \/ Released(r)
      <3>1. due' \in [Replica -> Int]
        BY <2>4, <1>2 DEF TypeOK, LeaseRefused, Released, BackToIdle
      <3>2. /\ pc' = [pc EXCEPT ![r] = "idle"] /\ slot' = [slot EXCEPT ![r] = 0]
            /\ token' = [token EXCEPT ![r] = 0] /\ sent' = [sent EXCEPT ![r] = 0]
            /\ until' = [until EXCEPT ![r] = 0]
            /\ UNCHANGED <<now, locker, config, kaVars, cancelled, handleVars, runs>>
        BY Zenon, <2>4 DEF LeaseRefused, Released, BackToIdle
      <3> QED BY <3>1, <3>2, <1>2 DEF TypeOK, locker, kaVars, config, handleVars, PC
    <2>5. CASE ExecSlot(r)
      <3>1. SlotTTL \in Nat
        BY Zenon DEF SlotTTL
      <3> QED BY <2>5, <3>1 DEF TypeOK, ExecSlot, AcquireSlot, SlotHeld, locker, kaVars,
                                 config, handleVars, PC, AwaitsRedis
    <2>6. CASE StartRun(r)
      BY <2>6, <1>2 DEF TypeOK, StartRun, locker, config, handleVars, PC
    <2>7. CASE SlotRefused(r)
      BY Zenon, <2>7, <1>2 DEF TypeOK, SlotRefused, Send, locker, kaVars, config, handleVars, PC, AwaitsRedis
    <2>8. CASE JobReturns(r)
      BY Zenon, <2>8 DEF TypeOK, JobReturns, SetStatus, locker, config, kaVars, PC
    <2>9. CASE Join(r)
      BY Zenon, <2>9 DEF TypeOK, Join, Send, locker, kaVars, config, handleVars, PC, AwaitsRedis
    <2>10. CASE ExecRelease(r)
      BY Zenon, <2>10 DEF TypeOK, ExecRelease, Release, Holds, kaVars, config, handleVars, PC, AwaitsRedis
    <2>11. CASE ScheduleEnds(r)
      BY <2>11 DEF TypeOK, ScheduleEnds, SetStatus, locker, config, kaVars, PC
    <2> QED BY Zenon, <1>4, <2>1, <2>2, <2>3, <2>4, <2>5, <2>6, <2>7, <2>8, <2>9, <2>10, <2>11 DEF Schedule
  <1>5. ASSUME NEW r \in Replica, KeepAlive(r) PROVE TypeOK'
    <2>1. CASE KeepAliveTick(r)
      BY Zenon, <2>1, <1>2 DEF TypeOK, KeepAliveTick, locker, jobVars, config, handleVars, Renewing
    <2>2. CASE ExecRenew(r)
      BY <2>2 DEF TypeOK, ExecRenew, Renew, Holds, config, handleVars, Renewing
    <2>3. CASE KeepAliveEnds(r)
      BY <2>3 DEF TypeOK, KeepAliveEnds, KeepAliveOver, locker, jobVars, config, handleVars
    <2>4. CASE Renewed(r) \/ RenewRetried(r)
      BY <2>4 DEF TypeOK, Renewed, RenewRetried, AwaitTick, locker, jobVars, config, handleVars
    <2>5. CASE LeaseLost(r)
      BY <2>5 DEF TypeOK, LeaseLost, KeepAliveOver, locker, jobVars, config, handleVars
    <2> QED BY Zenon, <1>5, <2>1, <2>2, <2>3, <2>4, <2>5 DEF KeepAlive
  <1>6. ASSUME NEW r \in Replica, Environment(r) PROVE TypeOK'
    <2>1. CASE Stop(r)
      BY <2>1 DEF TypeOK, Stop, SetStatus, locker, config, jobVars, kaVars
    <2>2. CASE Crash(r)
      <3>1. crashes' \in 0..MaxCrashes
        BY <2>2 DEF TypeOK, Crash
      <3> QED BY <2>2, <3>1, <1>2 DEF TypeOK, Crash, KeepAliveOver, locker, config, PC
    <2>3. CASE Restart(r)
      <3>1. now + Interval \in Int
        BY <1>1, CronAssumption
      <3> QED BY Zenon, <2>3, <3>1, <1>2 DEF TypeOK, Restart, locker, kaVars, config, handleVars, PC
    <2> QED BY Zenon, <1>6, <2>1, <2>2, <2>3 DEF Environment
  <1>7. CASE UNCHANGED vars
    BY Zenon, <1>7 DEF TypeOK, vars, locker, jobVars, kaVars, config, handleVars
  <1> QED BY Zenon, <1>3, <1>4, <1>5, <1>6, <1>7 DEF Next

\* Every variable keeps its type: in particular the replicas never fire a
\* slot beyond those the clock can reach.
THEOREM TypeCorrect == Spec => []TypeOK
  BY InitType, NextType, PTL DEF Spec
-----------------------------------------------------------------------------
\* The steps that touch the lease or the fence counter.
Commands(r) == ExecLease(r) \/ ExecSlot(r) \/ ExecRelease(r) \/ ExecRenew(r)

\* The steps that end a run, or never begin it.
Forgets(r) == LeaseRefused(r) \/ Released(r) \/ Crash(r)

LEMMA ForgetsToken ==
    ASSUME NEW r \in Replica, Forgets(r)
    PROVE  UNCHANGED <<now, lease, fence>> /\ token' = [token EXCEPT ![r] = 0]
  BY Zenon DEF Forgets, LeaseRefused, Released, BackToIdle, Crash, locker

LEMMA StepKinds ==
    ASSUME [Next]_vars
    PROVE  \/ UNCHANGED <<lease, fence, token>> /\ now' \in {now, now + 1}
           \/ \E r \in Replica : Forgets(r) \/ Commands(r)
  <1> USE DEF locker, jobVars, Forgets, Commands
  <1>1. CASE Tick
    BY Zenon, <1>1 DEF Tick
  <1>2. ASSUME NEW r \in Replica, Schedule(r), ~Forgets(r), ~Commands(r)
        PROVE  UNCHANGED <<now, lease, fence, token>>
    <2>1. CASE Fire(r) \/ ClaimSlot(r) \/ StartRun(r)
      BY Zenon, <2>1 DEF Fire, ClaimSlot, StartRun
    <2>2. CASE SlotRefused(r) \/ JobReturns(r) \/ Join(r) \/ ScheduleEnds(r)
      BY Zenon, <2>2 DEF SlotRefused, JobReturns, Join, ScheduleEnds
    <2> QED BY Zenon, <1>2, <2>1, <2>2 DEF Schedule
  <1>3. ASSUME NEW r \in Replica, KeepAlive(r), ~Commands(r)
        PROVE  UNCHANGED <<now, lease, fence, token>>
    BY Zenon, <1>3 DEF KeepAlive, KeepAliveTick, KeepAliveEnds, Renewed, RenewRetried, LeaseLost
  <1>4. ASSUME NEW r \in Replica, Environment(r), ~Forgets(r)
        PROVE  UNCHANGED <<now, lease, fence, token>>
    BY Zenon, <1>4 DEF Environment, Stop, Restart
  <1>5. CASE UNCHANGED vars
    BY Zenon, <1>5 DEF vars
  <1> QED BY Zenon, <1>1, <1>2, <1>3, <1>4, <1>5 DEF Next
-----------------------------------------------------------------------------
\* The fence counter is never behind the lease, which makes the next token
\* greater than every one in use; a lease that exists has a token.
Fencing ==
    /\ HolderIsNewest
    /\ lease.token <= fence
    /\ lease.until # 0 => lease.token # 0

LEMMA InitFencing == Init => Fencing
  BY DEF Init, RedisInit, Fencing, HolderIsNewest

LEMMA NextFencing == TypeOK /\ Fencing /\ [Next]_vars => Fencing'
  <1> SUFFICES ASSUME TypeOK, Fencing, [Next]_vars PROVE Fencing' OBVIOUS
  <1> USE DEF Fencing, HolderIsNewest
  <1>1. CASE UNCHANGED <<lease, fence, token>>
    BY Zenon, <1>1
  <1>2. ASSUME NEW r \in Replica, token' = [token EXCEPT ![r] = 0], UNCHANGED <<lease, fence>>
        PROVE  Fencing'
    BY <1>2 DEF TypeOK
  <1>3. ASSUME NEW r \in Replica, ExecLease(r) PROVE Fencing'
    <2>1. CASE LeaseHeld
      BY <1>3, <2>1 DEF TypeOK, ExecLease, AcquireLease, LeaseReply, NextToken, locker
    <2>2. CASE ~LeaseHeld
      <3>1. token' = [token EXCEPT ![r] = fence + 1] /\ fence' = fence + 1
            /\ lease' = [token |-> fence + 1, until |-> now + LockTTL]
        BY Zenon, <1>3, <2>2 DEF ExecLease, AcquireLease, LeaseReply, NextToken
      <3>2. \A q \in Replica : token[q] \in Nat /\ token[q] <= fence
        BY DEF TypeOK
      <3> QED BY <3>1, <3>2 DEF TypeOK
    <2> QED BY Zenon, <2>1, <2>2
  <1>4. ASSUME NEW r \in Replica, ExecSlot(r) PROVE Fencing'
    BY <1>4 DEF TypeOK, ExecSlot, AcquireSlot, locker
  <1>5. ASSUME NEW r \in Replica, ExecRelease(r) \/ ExecRenew(r) PROVE Fencing'
    BY <1>5 DEF TypeOK, ExecRelease, ExecRenew, Release, Renew, Holds, LeaseHeld
  <1>6. ASSUME NEW r \in Replica, Forgets(r) PROVE Fencing'
    BY Zenon, <1>2, <1>6, ForgetsToken
  <1> QED BY Zenon, <1>1, <1>3, <1>4, <1>5, <1>6, StepKinds DEF Commands

\* Fencing: no two replicas ever hold the same token, and none a greater one
\* than the last holder of the lease, however late a command or a run is.
THEOREM FencingHolds == Spec => []HolderIsNewest
  <1>1. Fencing => HolderIsNewest
    BY Zenon DEF Fencing
  <1> QED BY <1>1, InitFencing, TypeCorrect, NextFencing, PTL DEF Spec
-----------------------------------------------------------------------------
\* The step of LeaseNotStolen.
NotStolen ==
    LeaseHeld /\ now' < lease.until /\ (~LeaseHeld' \/ lease'.token # lease.token) =>
        \E r \in Replica : token[r] = lease.token /\ pc[r] = "rel"

LEMMA NextNotStolen == TypeOK /\ [Next]_vars => [NotStolen]_vars
  <1> SUFFICES ASSUME TypeOK, Next, LeaseHeld, now' < lease.until,
                      ~LeaseHeld' \/ lease'.token # lease.token
               PROVE  \E r \in Replica : token[r] = lease.token /\ pc[r] = "rel"
    BY Zenon DEF NotStolen
  <1>1. lease' # lease
    BY Zenon DEF LeaseHeld
  <1>2. ASSUME NEW r \in Replica PROVE ~ExecLease(r) /\ ~ExecSlot(r)
    BY Zenon, <1>1 DEF ExecLease, ExecSlot, AcquireLease, AcquireSlot, locker
  <1>3. ASSUME NEW r \in Replica PROVE ~ExecRenew(r)
    BY <1>1, ConstantTypes, PeriodPositive DEF ExecRenew, Renew, Holds, LeaseHeld, TypeOK
  <1>4. PICK r \in Replica : ExecRelease(r)
    BY Zenon, <1>1, <1>2, <1>3, StepKinds, ForgetsToken DEF Commands
  <1> QED BY Zenon, <1>1, <1>4 DEF ExecRelease, Release, Holds

\* No late renewal or release takes a lease from the replica that holds it.
THEOREM LeaseKept == Spec => LeaseNotStolen
  <1>1. TypeOK /\ [Next]_vars => [LeaseHeld /\ now' < lease.until /\ (~LeaseHeld' \/ lease'.token # lease.token) =>
            \E r \in Replica : token[r] = lease.token /\ pc[r] = "rel"]_vars
    BY Zenon, NextNotStolen DEF NotStolen
  <1> QED BY <1>1, TypeCorrect, PTL DEF Spec, LeaseNotStolen
-----------------------------------------------------------------------------
\* The lease key implements the Locker interface: one holder at a time, and
\* tokens that grow with every successful Acquire.
THEOREM LockerImplemented == Spec => ImplementsLocker
  <1>1. Init => Service!Init
    BY DEF Init, RedisInit, LeaseHeld, Service!Init
  <1>2. TypeOK /\ Fencing /\ TypeOK' /\ [Next]_vars => [Service!Next]_Service!lockVars
    <2> SUFFICES ASSUME TypeOK, Fencing, TypeOK', [Next]_vars
                 PROVE  [Service!Next]_Service!lockVars
      OBVIOUS
    <2> USE DEF Service!Next, Service!Free, Service!Grant, Service!lockVars
    <2>1. now' = now \/ (now' = now + 1 /\ lease' = lease)
      <3>1. ASSUME NEW r \in Replica, Commands(r) PROVE now' = now
        BY Zenon, <3>1 DEF Commands, ExecLease, ExecSlot, ExecRelease, ExecRenew
      <3> QED BY Zenon, <3>1, StepKinds, ForgetsToken
    <2>2. CASE lease' = lease
      BY <2>1, <2>2 DEF LeaseHeld, TypeOK, Fencing
    <2>3. CASE lease' # lease
      <3>1. now' = now
        BY Zenon, <2>1, <2>3
      <3>2. ASSUME NEW r \in Replica, ExecLease(r)
            PROVE  Service!Grant
        <4>1. ~LeaseHeld /\ lease' = [token |-> fence + 1, until |-> now + LockTTL]
          BY Zenon, <2>3, <3>2 DEF ExecLease, AcquireLease, NextToken, locker
        <4> QED BY <3>1, <4>1, ConstantTypes DEF LeaseHeld, TypeOK, Fencing
      <3>3. ASSUME NEW r \in Replica, ExecRelease(r)
            PROVE  Service!Free
        <4>1. LeaseHeld /\ lease' = [lease EXCEPT !.until = 0]
          BY Zenon, <2>3, <3>3 DEF ExecRelease, Release, Holds
        <4> QED BY <3>1, <4>1 DEF LeaseHeld, TypeOK, Fencing
      <3>4. ASSUME NEW r \in Replica, ExecRenew(r)
            PROVE  UNCHANGED Service!lockVars
        <4>1. LeaseHeld /\ lease' = [lease EXCEPT !.until = now + LockTTL]
          BY Zenon, <2>3, <3>4 DEF ExecRenew, Renew, Holds
        <4> QED BY <3>1, <4>1, ConstantTypes DEF LeaseHeld, TypeOK
      <3>5. \E r \in Replica : ExecLease(r) \/ ExecRelease(r) \/ ExecRenew(r)
        <4>1. ASSUME NEW r \in Replica PROVE ~ExecSlot(r)
          BY Zenon, <2>3 DEF ExecSlot, AcquireSlot, locker
        <4> QED BY Zenon, <2>3, <4>1, StepKinds, ForgetsToken DEF Commands
      <3> QED BY Zenon, <3>2, <3>3, <3>4, <3>5
    <2> QED BY Zenon, <2>2, <2>3
  <1> QED
    BY <1>1, <1>2, TypeCorrect, InitFencing, NextFencing, PTL DEF Spec, ImplementsLocker, Service!Spec
-----------------------------------------------------------------------------
(* One run per slot of a fixed schedule.                                   *)

\* When slot s begins on a wall clock.
Begins(s) == Interval * s

\* A fixed timer fires exactly when its slot begins on the replica's wall clock,
\* and the slot is claimed within two commands of that.
OnSchedule(r) ==
    /\ pc[r] = "idle" =>
        now <= due[r] /\ due[r] + skew[r] = Begins((due[r] + skew[r]) \div Interval)
    /\ pc[r] \in {"lease", "leaseRep"} => sent[r] + skew[r] = Begins(slot[r])
    /\ pc[r] \in {"slot", "slotOurs", "slotTaken"} =>
        Begins(slot[r]) <= sent[r] + skew[r] /\ sent[r] + skew[r] <= Begins(slot[r]) + MaxDelay
    /\ pc[r] \in {"lease", "leaseRep", "slot", "slotOurs", "slotTaken"} =>
        sent[r] <= now /\ now <= sent[r] + MaxDelay

\* The claim of a slot outlives the last replica that could ask for it, and
\* stands for its only run.
SlotOnce(s) ==
    /\ claim[s] # 0 => claim[s] > Begins(s) + 2 * MaxDelay
    /\ claim[s] = 0 => runs[s] = 0
    /\ runs[s] <= 1

OursOnce(r) ==
    pc[r] = "slotOurs" =>
        /\ claim[slot[r]] # 0 /\ runs[slot[r]] = 0
        /\ \A q \in Replica : pc[q] = "slotOurs" /\ slot[q] = slot[r] => q = r

Punctual ==
    /\ \A r \in Replica : OnSchedule(r) /\ OursOnce(r)
    /\ \A s \in Slot : SlotOnce(s)

FixedInv == mode = "fixed" /\ FixedSlotTTL > MaxSkew + 2 * MaxDelay => Punctual

\* The next scheduled instant is a slot's begin, after the clock.
LEMMA NextRunBegins ==
    ASSUME NEW r \in Replica, now \in Nat, skew[r] \in Nat
    PROVE  /\ NextFixedRun(r) \in Int /\ now <= NextFixedRun(r)
           /\ NextFixedRun(r) + skew[r] = Begins((NextFixedRun(r) + skew[r]) \div Interval)
<1> DEFINE w == now + skew[r]
           k == w \div Interval
<1>1. w \in Nat /\ Interval \in Nat \ {0} /\ k \in Nat
  <2>1. Interval \in Nat \ {0}
    BY Zenon, CronAssumption
  <2>2. w \in Nat
    OBVIOUS
  <2> HIDE DEF w
  <2> QED
    BY <2>1, <2>2
<1>2. w < Interval * (1 + k) /\ Interval * (1 + k) \in Nat /\ (Interval * (1 + k)) \div Interval = 1 + k
  BY <1>1
<1>3. NextFixedRun(r) = Interval * (1 + k) - skew[r]
  BY DEF NextFixedRun, Wall
<1>4. PICK m \in Nat : m = Interval * (1 + k)
  BY Zenon, <1>2
<1>5. NextFixedRun(r) = m - skew[r] /\ w < m /\ m \div Interval = 1 + k
  BY Zenon, <1>2, <1>3, <1>4
<1> HIDE DEF k
<1>6. NextFixedRun(r) + skew[r] = m /\ NextFixedRun(r) \in Int /\ now <= NextFixedRun(r)
  BY <1>5
<1> QED
  BY Zenon, <1>4, <1>5, <1>6 DEF Begins

\* One replica moves while the clock stands still.
LEMMA OneReplicaMoves ==
    ASSUME TypeOK, Punctual, NEW r \in Replica, NEW c, pc' = [pc EXCEPT ![r] = c],
           UNCHANGED <<now, skew>>, OnSchedule(r)',
           \A q \in Replica \ {r} : slot'[q] = slot[q] /\ sent'[q] = sent[q] /\ due'[q] = due[q]
    PROVE  \A q \in Replica : OnSchedule(q)'
<1>1. \A q \in Replica \ {r} : pc'[q] = pc[q]
  BY Zenon DEF TypeOK
<1> QED
  BY Zenon, <1>1 DEF Punctual, OnSchedule

\* The claims stay, and a replica that has one keeps it or gives it up.
LEMMA ClaimsStay ==
    ASSUME TypeOK, Punctual, UNCHANGED <<claim, runs>>,
           \A q \in Replica : pc'[q] = "slotOurs" => pc[q] = "slotOurs" /\ slot'[q] = slot[q]
    PROVE  (\A q \in Replica : OursOnce(q)') /\ (\A s \in Slot : SlotOnce(s)')
<1>1. ASSUME NEW s \in Slot PROVE SlotOnce(s)'
  BY Zenon DEF Punctual, SlotOnce, Begins
<1>2. ASSUME NEW q \in Replica, pc'[q] = "slotOurs" PROVE OursOnce(q)'
  <2>1. pc[q] = "slotOurs" /\ slot'[q] = slot[q]
    BY Zenon, <1>2
  <2>2. ASSUME NEW p \in Replica, pc'[p] = "slotOurs", slot'[p] = slot'[q] PROVE p = q
    BY Zenon, <2>1, <2>2 DEF Punctual, OursOnce
  <2> QED
    BY Zenon, <2>1, <2>2 DEF Punctual, OursOnce
<1> QED
  BY Zenon, <1>1, <1>2 DEF OursOnce

\* A replica goes where no slot is claimed, or to wait for the next one.
LEMMA ReplicaLeaves ==
    ASSUME TypeOK, Punctual, NEW r \in Replica, NEW c, pc' = [pc EXCEPT ![r] = c],
           c \notin {"lease", "leaseRep", "slot", "slotOurs", "slotTaken"},
           c = "idle" => due'[r] = NextFixedRun(r),
           UNCHANGED <<now, skew, claim, runs>>,
           \A q \in Replica \ {r} : slot'[q] = slot[q] /\ sent'[q] = sent[q] /\ due'[q] = due[q]
    PROVE  Punctual'
<1>1. now \in Nat /\ skew[r] \in Nat
  BY DEF TypeOK
<1>2. pc'[r] = c /\ \A q \in Replica \ {r} : pc'[q] = pc[q]
  BY Zenon DEF TypeOK
<1>3. OnSchedule(r)'
  BY Zenon, <1>1, <1>2, NextRunBegins DEF OnSchedule
<1>4. \A q \in Replica : OnSchedule(q)'
  BY Zenon, <1>3, OneReplicaMoves
<1>5. \A q \in Replica : pc'[q] = "slotOurs" => pc[q] = "slotOurs" /\ slot'[q] = slot[q]
  BY Zenon, <1>2
<1> QED
  BY Zenon, <1>4, <1>5, ClaimsStay DEF Punctual

\* Steps that neither move a schedule goroutine nor touch what it has claimed.
LEMMA ScheduleStays ==
    ASSUME TypeOK, Punctual, UNCHANGED <<pc, slot, sent, due, now, skew, claim, runs>>
    PROVE  Punctual'
  BY Zenon DEF Punctual, OnSchedule, OursOnce, SlotOnce

\* Time passes no timer and no deadline.
LEMMA TickPunctual == ASSUME TypeOK, Punctual, Tick PROVE Punctual'
<1>1. UNCHANGED <<pc, slot, sent, due, skew, claim, runs>> /\ now' = now + 1
  BY Zenon DEF Tick, jobVars, config, locker
<1>2. ASSUME NEW r \in Replica PROVE OnSchedule(r)'
  <2>1. now \in Nat /\ sent[r] \in Nat /\ due[r] \in Int
    BY ConstantTypes DEF TypeOK
  <2>2. /\ pc[r] = "idle" => now < due[r]
        /\ pc[r] \in {"lease", "leaseRep", "slot", "slotOurs", "slotTaken"} => now < sent[r] + MaxDelay
    BY Zenon DEF Tick, AwaitsRedis
  <2>3. now < due[r] => now + 1 <= due[r]
    BY Zenon, <2>1, DueNext
  <2>4. now < sent[r] + MaxDelay => now + 1 <= sent[r] + MaxDelay
    BY Zenon, <2>1, DelayNext
  <2>5. sent[r] <= now => sent[r] <= now + 1
    BY Zenon, <2>1, LaterStill
  <2> QED
    BY Zenon, <1>1, <2>2, <2>3, <2>4, <2>5 DEF Punctual, OnSchedule
<1>3. (\A q \in Replica : OursOnce(q)') /\ (\A s \in Slot : SlotOnce(s)')
  BY Zenon, <1>1, ClaimsStay
<1> QED
  BY Zenon, <1>2, <1>3 DEF Punctual

\* The timer fires when the slot begins: not before, and the clock has waited.
LEMMA FirePunctual == ASSUME TypeOK, Punctual, mode = "fixed", NEW r \in Replica, Fire(r) PROVE Punctual'
<1>1. /\ now \in Int /\ skew[r] \in Int /\ due[r] \in Int /\ now \in Nat /\ skew[r] \in Nat
      /\ MaxDelay \in Nat
  BY ConstantTypes DEF TypeOK
<1>2. UNCHANGED <<now, skew, claim, runs>> /\ due' = [due EXCEPT ![r] = NextFixedRun(r)] /\ pc[r] = "idle"
  BY Zenon DEF Fire, config, locker
<1>3. due[r] = now /\ now + skew[r] = Begins((now + skew[r]) \div Interval)
  <2>1. due[r] <= now /\ now <= due[r] /\ due[r] + skew[r] = Begins((due[r] + skew[r]) \div Interval)
    BY Zenon, <1>2 DEF Punctual, OnSchedule, Fire
  <2>2. due[r] = now
    BY <1>1, <2>1
  <2> QED
    BY Zenon, <2>1, <2>2
<1>4. CASE CurrentSlot(r) \in OffDays
  <2>1. UNCHANGED <<pc, slot, sent>>
    BY Zenon, <1>4 DEF Fire
  <2>2. pc' = [pc EXCEPT ![r] = "idle"] /\ due'[r] = NextFixedRun(r)
        /\ \A q \in Replica \ {r} : slot'[q] = slot[q] /\ sent'[q] = sent[q] /\ due'[q] = due[q]
    BY Zenon, <1>2, <2>1 DEF TypeOK
  <2> QED
    BY Zenon, <1>2, <2>2, ReplicaLeaves
<1>5. CASE CurrentSlot(r) \notin OffDays
  <2>1. /\ pc' = [pc EXCEPT ![r] = "lease"] /\ sent' = [sent EXCEPT ![r] = now]
        /\ slot' = [slot EXCEPT ![r] = CurrentSlot(r)]
    BY Zenon, <1>5 DEF Fire, Send
  <2>2. /\ pc'[r] = "lease" /\ sent'[r] = now /\ slot'[r] = CurrentSlot(r)
        /\ \A q \in Replica \ {r} : pc'[q] = pc[q] /\ slot'[q] = slot[q] /\ sent'[q] = sent[q] /\ due'[q] = due[q]
    BY Zenon, <1>2, <2>1 DEF TypeOK
  <2>3. now <= now /\ now <= now + MaxDelay
    BY <1>1
  <2>4. OnSchedule(r)'
    BY Zenon, <1>2, <1>3, <2>2, <2>3 DEF OnSchedule, CurrentSlot, Wall
  <2>5. \A q \in Replica : OnSchedule(q)'
    BY Zenon, <1>2, <2>1, <2>2, <2>4, OneReplicaMoves
  <2>6. \A q \in Replica : pc'[q] = "slotOurs" => pc[q] = "slotOurs" /\ slot'[q] = slot[q]
    BY Zenon, <2>2
  <2> QED
    BY Zenon, <1>2, <2>5, <2>6, ClaimsStay DEF Punctual
<1> QED
  BY Zenon, <1>4, <1>5

\* Redis answers for the lease, and the claim of the slot is sent.
LEMMA LeasePunctual ==
    ASSUME TypeOK, Punctual, NEW r \in Replica, ExecLease(r) \/ ClaimSlot(r) PROVE Punctual'
<1>1. UNCHANGED <<now, skew, claim, runs, slot, due>>
  BY Zenon DEF ExecLease, ClaimSlot, AcquireLease, config, locker
<1>2. /\ now \in Int /\ skew[r] \in Int /\ sent[r] \in Int /\ MaxDelay \in Nat
      /\ slot[r] \in Slot
  BY ConstantTypes DEF TypeOK
<1>3. PICK c \in {"leaseRep", "slot"} : pc' = [pc EXCEPT ![r] = c]
  BY Zenon DEF ExecLease, ClaimSlot, Send
<1>4. pc'[r] = c /\ \A q \in Replica \ {r} : pc'[q] = pc[q]
  BY Zenon, <1>3 DEF TypeOK
<1>5. OnSchedule(r)' /\ \A q \in Replica \ {r} : sent'[q] = sent[q]
  <2>1. CASE ExecLease(r)
    <3>1. c = "leaseRep" /\ pc[r] = "lease" /\ sent' = sent
      BY Zenon, <1>3, <1>4, <2>1 DEF ExecLease, TypeOK
    <3> QED
      BY Zenon, <1>1, <1>4, <3>1 DEF Punctual, OnSchedule
  <2>2. CASE ClaimSlot(r)
    <3>1. c = "slot" /\ pc[r] = "leaseRep" /\ sent' = [sent EXCEPT ![r] = now]
      BY Zenon, <1>3, <1>4, <2>2 DEF ClaimSlot, Send, TypeOK
    <3>2. sent'[r] = now /\ \A q \in Replica \ {r} : sent'[q] = sent[q]
      BY Zenon, <3>1 DEF TypeOK
    <3>3. sent[r] + skew[r] = Begins(slot[r]) /\ sent[r] <= now /\ now <= sent[r] + MaxDelay
      BY Zenon, <3>1 DEF Punctual, OnSchedule
    <3>5. Begins(slot[r]) \in Int
      BY Zenon, <1>2, SlotBegins DEF Begins
    <3>4. /\ Begins(slot[r]) <= now + skew[r] /\ now + skew[r] <= Begins(slot[r]) + MaxDelay
          /\ now <= now /\ now <= now + MaxDelay
      BY Zenon, <1>2, <3>3, <3>5, ClaimedWithin
    <3> QED
      BY Zenon, <1>1, <1>4, <3>1, <3>2, <3>4 DEF OnSchedule
  <2> QED
    BY Zenon, <2>1, <2>2
<1>6. \A q \in Replica : OnSchedule(q)'
  BY Zenon, <1>1, <1>3, <1>5, OneReplicaMoves
<1>7. \A q \in Replica : pc'[q] = "slotOurs" => pc[q] = "slotOurs" /\ slot'[q] = slot[q]
  BY Zenon, <1>1, <1>4
<1> QED
  BY Zenon, <1>1, <1>6, <1>7, ClaimsStay DEF Punctual

\* Whoever asks for a slot asks before a claim of it can have expired, so that a
\* slot is granted once.
LEMMA ClaimPunctual ==
    ASSUME TypeOK, Punctual, mode = "fixed", FixedSlotTTL > MaxSkew + 2 * MaxDelay,
           NEW r \in Replica, ExecSlot(r)
    PROVE  Punctual'
<1>1. UNCHANGED <<now, skew, runs, slot, sent, due>> /\ pc[r] = "slot"
  BY Zenon DEF ExecSlot, config
<1>2. /\ now \in Nat /\ skew[r] \in Int /\ skew[r] <= MaxSkew /\ sent[r] \in Int /\ MaxDelay \in Nat
      /\ MaxSkew \in Nat /\ FixedSlotTTL \in Nat
  BY CronAssumption DEF TypeOK
<1>3. slot[r] \in Slot /\ claim[slot[r]] \in Nat /\ Begins(slot[r]) \in Int
  <2>1. slot[r] \in Slot /\ claim[slot[r]] \in Nat
    BY Zenon DEF TypeOK
  <2>2. slot[r] \in Nat /\ Interval \in Nat
    BY <2>1, CronAssumption
  <2> QED
    BY <2>1, <2>2 DEF Begins
<1>4. PICK c \in {"slotOurs", "slotTaken"} :
        /\ c = IF SlotHeld(slot[r]) THEN "slotTaken" ELSE "slotOurs"
        /\ pc' = [pc EXCEPT ![r] = c]
  BY Zenon DEF ExecSlot
<1>5. pc'[r] = c /\ \A q \in Replica \ {r} : pc'[q] = pc[q]
  BY Zenon, <1>4 DEF TypeOK
<1>6. OnSchedule(r)'
  BY Zenon, <1>1, <1>5 DEF Punctual, OnSchedule
<1>7. \A q \in Replica : OnSchedule(q)'
  BY Zenon, <1>1, <1>4, <1>6, OneReplicaMoves
<1>8. CASE SlotHeld(slot[r])
  <2>1. claim' = claim /\ c = "slotTaken"
    BY Zenon, <1>4, <1>8 DEF ExecSlot, AcquireSlot, locker
  <2>2. \A q \in Replica : pc'[q] = "slotOurs" => pc[q] = "slotOurs" /\ slot'[q] = slot[q]
    BY Zenon, <1>1, <1>5, <2>1
  <2> QED
    BY Zenon, <1>1, <1>7, <2>1, <2>2, ClaimsStay DEF Punctual
<1>9. CASE ~SlotHeld(slot[r])
  <2>1. c = "slotOurs" /\ claim' = [claim EXCEPT ![slot[r]] = now + FixedSlotTTL]
    BY Zenon, <1>4, <1>9 DEF ExecSlot, AcquireSlot, SlotTTL
  <2>2. /\ Begins(slot[r]) <= sent[r] + skew[r] /\ sent[r] + skew[r] <= Begins(slot[r]) + MaxDelay
        /\ sent[r] <= now /\ now <= sent[r] + MaxDelay
    BY Zenon, <1>1 DEF Punctual, OnSchedule
  <2>3. now + FixedSlotTTL # 0 /\ now + FixedSlotTTL > Begins(slot[r]) + 2 * MaxDelay
    BY <1>2, <1>3, <2>2
  <2>4. claim[slot[r]] = 0
    <3>1. claim[slot[r]] <= now
      BY <1>2, <1>3, <1>9 DEF SlotHeld
    <3>2. claim[slot[r]] # 0 => claim[slot[r]] > Begins(slot[r]) + 2 * MaxDelay
      BY Zenon, <1>3 DEF Punctual, SlotOnce
    <3>3. 0 <= skew[r]
      BY DEF TypeOK
    <3> QED
      BY <1>2, <1>3, <2>2, <3>1, <3>2, <3>3
  <2>5. runs[slot[r]] = 0 /\ runs[slot[r]] <= 1 /\ \A q \in Replica : pc[q] = "slotOurs" => slot[q] # slot[r]
    BY Zenon, <1>3, <2>4 DEF Punctual, SlotOnce, OursOnce
  <2>6. claim'[slot[r]] = now + FixedSlotTTL /\ \A s \in Slot \ {slot[r]} : claim'[s] = claim[s]
    BY Zenon, <1>3, <2>1 DEF TypeOK
  <2>7. ASSUME NEW s \in Slot PROVE SlotOnce(s)'
    BY Zenon, <1>1, <2>3, <2>5, <2>6 DEF Punctual, SlotOnce, Begins
  <2>8. OursOnce(r)'
    BY Zenon, <1>1, <1>5, <2>3, <2>5, <2>6 DEF OursOnce
  <2>9. ASSUME NEW q \in Replica, q # r, pc[q] = "slotOurs"
        PROVE  OursOnce(q)'
    <3>1. slot[q] \in Slot \ {slot[r]} /\ pc'[q] = pc[q]
      BY Zenon, <1>5, <2>5, <2>9 DEF TypeOK
    <3>2. claim'[slot[q]] # 0 /\ runs[slot[q]] = 0
      BY Zenon, <2>6, <2>9, <3>1 DEF Punctual, OursOnce
    <3>3. ASSUME NEW p \in Replica, pc'[p] = "slotOurs", slot[p] = slot[q] PROVE p = q
      BY Zenon, <1>5, <2>5, <2>9, <3>1, <3>3 DEF Punctual, OursOnce
    <3> QED
      BY Zenon, <1>1, <3>2, <3>3 DEF OursOnce
  <2>10. \A q \in Replica : OursOnce(q)'
    BY Zenon, <1>5, <2>8, <2>9 DEF OursOnce
  <2> QED
    BY Zenon, <1>7, <2>7, <2>10 DEF Punctual
<1> QED
  BY Zenon, <1>8, <1>9

\* The run of a slot is counted once, by the replica whose claim it is.
LEMMA RunPunctual == ASSUME TypeOK, Punctual, NEW r \in Replica, StartRun(r) PROVE Punctual'
<1>1. /\ UNCHANGED <<now, skew, claim, due>> /\ pc[r] = "slotOurs"
      /\ pc' = [pc EXCEPT ![r] = "run"] /\ runs' = [runs EXCEPT ![slot[r]] = runs[slot[r]] + 1]
      /\ slot' = [slot EXCEPT ![r] = 0] /\ sent' = [sent EXCEPT ![r] = 0]
  BY Zenon DEF StartRun, config, locker
<1>2. /\ pc'[r] = "run"
      /\ \A q \in Replica \ {r} : pc'[q] = pc[q] /\ slot'[q] = slot[q] /\ sent'[q] = sent[q] /\ due'[q] = due[q]
  BY Zenon, <1>1 DEF TypeOK
<1>3. OnSchedule(r)'
  BY Zenon, <1>2 DEF OnSchedule
<1>4. \A q \in Replica : OnSchedule(q)'
  BY Zenon, <1>1, <1>2, <1>3, OneReplicaMoves
<1>5. /\ slot[r] \in Slot /\ runs[slot[r]] = 0 /\ claim[slot[r]] # 0
      /\ \A q \in Replica : pc[q] = "slotOurs" /\ slot[q] = slot[r] => q = r
  BY Zenon, <1>1 DEF Punctual, OursOnce, TypeOK
<1>6. 0 + 1 <= 1
  OBVIOUS
<1>7. runs'[slot[r]] <= 1 /\ \A s \in Slot \ {slot[r]} : runs'[s] = runs[s]
  BY Zenon, <1>1, <1>5, <1>6 DEF TypeOK
<1>8. ASSUME NEW s \in Slot PROVE SlotOnce(s)'
  BY Zenon, <1>1, <1>5, <1>7 DEF Punctual, SlotOnce
<1>9. ASSUME NEW q \in Replica, pc'[q] = "slotOurs" PROVE OursOnce(q)'
  <2>1. q # r /\ pc[q] = "slotOurs" /\ slot'[q] = slot[q] /\ slot[q] \in Slot \ {slot[r]}
    BY Zenon, <1>2, <1>5, <1>9 DEF TypeOK
  <2>2. claim'[slot[q]] # 0 /\ runs'[slot[q]] = 0
    BY Zenon, <1>1, <1>7, <2>1 DEF Punctual, OursOnce
  <2>3. ASSUME NEW p \in Replica, pc'[p] = "slotOurs", slot'[p] = slot'[q] PROVE p = q
    <3>1. p # r /\ pc[p] = "slotOurs" /\ slot[p] = slot[q]
      BY Zenon, <1>2, <2>1, <2>3
    <3> QED
      BY Zenon, <2>1, <3>1 DEF Punctual, OursOnce
  <2> QED
    BY Zenon, <2>1, <2>2, <2>3 DEF OursOnce
<1>10. \A q \in Replica : OursOnce(q)'
  BY Zenon, <1>9 DEF OursOnce
<1> QED
  BY Zenon, <1>4, <1>8, <1>10 DEF Punctual

\* No step lets a replica fire early, claim late or run a slot twice.
LEMMA NextPunctual ==
    ASSUME TypeOK, mode = "fixed", FixedSlotTTL > MaxSkew + 2 * MaxDelay, Punctual, [Next]_vars
    PROVE  Punctual'
<1> USE DEF config, locker
<1>1. CASE Tick
  BY Zenon, <1>1, TickPunctual
<1>2. ASSUME NEW r \in Replica, NEW c \in {"idle", "rel", "relRep", "run", "join", "done", "crashed"},
             pc' = [pc EXCEPT ![r] = c], c = "idle" => due'[r] = NextFixedRun(r),
             UNCHANGED <<now, skew, claim, runs>>,
             slot' \in {slot, [slot EXCEPT ![r] = 0]},
             sent' \in {sent, [sent EXCEPT ![r] = 0], [sent EXCEPT ![r] = now]},
             due' \in {due, [due EXCEPT ![r] = 0], [due EXCEPT ![r] = NextFixedRun(r)]}
      PROVE  Punctual'
  <2>1. \A q \in Replica \ {r} : slot'[q] = slot[q] /\ sent'[q] = sent[q] /\ due'[q] = due[q]
    BY Zenon, <1>2 DEF TypeOK
  <2>2. c \notin {"lease", "leaseRep", "slot", "slotOurs", "slotTaken"}
    BY Zenon, <1>2
  <2> QED
    BY Zenon, <1>2, <2>1, <2>2, ReplicaLeaves
<1>3. ASSUME NEW r \in Replica, Schedule(r) PROVE Punctual'
  <2>1. CASE Fire(r) \/ ExecLease(r) \/ ClaimSlot(r) \/ ExecSlot(r) \/ StartRun(r)
    BY Zenon, <2>1, FirePunctual, LeasePunctual, ClaimPunctual, RunPunctual
  <2>2. CASE LeaseRefused(r) \/ Released(r)
    <3>1. due' = [due EXCEPT ![r] = NextFixedRun(r)]
      BY Zenon, <2>2 DEF LeaseRefused, Released, BackToIdle
    <3>2. due'[r] = NextFixedRun(r)
      BY Zenon, <3>1 DEF TypeOK
    <3> QED
      BY Zenon, <1>2, <2>2, <3>1, <3>2 DEF LeaseRefused, Released, BackToIdle
  <2>3. CASE SlotRefused(r) \/ Join(r)
    BY Zenon, <1>2, <2>3 DEF SlotRefused, Join, Send
  <2>4. CASE JobReturns(r) \/ ExecRelease(r) \/ ScheduleEnds(r)
    BY Zenon, <1>2, <2>4 DEF JobReturns, ExecRelease, Release, ScheduleEnds
  <2> QED
    BY Zenon, <1>3, <2>1, <2>2, <2>3, <2>4 DEF Schedule
<1>4. ASSUME NEW r \in Replica, KeepAlive(r) PROVE Punctual'
  BY Zenon, <1>4, ScheduleStays DEF KeepAlive, KeepAliveTick, ExecRenew, Renew, KeepAliveEnds, Renewed,
     RenewRetried, LeaseLost, jobVars
<1>5. ASSUME NEW r \in Replica, Environment(r) PROVE Punctual'
  <2>1. CASE Stop(r)
    BY Zenon, <2>1, ScheduleStays DEF Stop, jobVars
  <2>2. CASE Crash(r)
    BY Zenon, <1>2, <2>2 DEF Crash
  <2>3. CASE Restart(r)
    <3>1. due' = [due EXCEPT ![r] = NextFixedRun(r)] /\ due'[r] = NextFixedRun(r)
      BY Zenon, <2>3 DEF Restart, TypeOK
    <3> QED
      BY Zenon, <1>2, <2>3, <3>1 DEF Restart
  <2> QED
    BY Zenon, <1>5, <2>1, <2>2, <2>3 DEF Environment
<1>6. CASE UNCHANGED vars
  BY Zenon, <1>6, ScheduleStays DEF vars, jobVars
<1> QED
  BY Zenon, <1>1, <1>3, <1>4, <1>5, <1>6 DEF Next

\* On a fixed schedule every slot runs at most once, whatever the replicas, their
\* skew, lost answers, stops and crashes: fixedSlotTTL exceeds the skew of the
\* wall clocks and the two commands between a timer and its claim.
THEOREM FixedSlotsRunOnce == Spec => []FixedSlotRunsOnce
<1>1. Init => FixedInv
  <2> SUFFICES ASSUME Init, mode = "fixed" PROVE Punctual
    BY Zenon DEF FixedInv
  <2>1. ASSUME NEW r \in Replica PROVE OnSchedule(r) /\ OursOnce(r)
    <3>1. now \in Nat /\ skew[r] \in Nat /\ pc[r] = "idle" /\ due[r] = NextFixedRun(r)
      BY DEF Init
    <3> QED
      BY Zenon, <3>1, NextRunBegins DEF OnSchedule, OursOnce
  <2>2. ASSUME NEW s \in Slot PROVE SlotOnce(s)
    <3>1. 0 <= 1
      OBVIOUS
    <3> QED
      BY Zenon, <3>1 DEF Init, RedisInit, SlotOnce
  <2> QED
    BY Zenon, <2>1, <2>2 DEF Punctual
<1>2. TypeOK /\ FixedInv /\ [Next]_vars => FixedInv'
  <2> SUFFICES ASSUME TypeOK, FixedInv, [Next]_vars, mode' = "fixed", FixedSlotTTL > MaxSkew + 2 * MaxDelay
               PROVE  Punctual'
    BY Zenon DEF FixedInv
  <2>1. mode' = mode
    BY ZenonT(40) DEF Next, vars, config, Tick, Schedule, KeepAlive, Environment, Fire, ExecLease, ClaimSlot,
       LeaseRefused, ExecSlot, StartRun, SlotRefused, JobReturns, Join, ExecRelease, Released, ScheduleEnds,
       KeepAliveTick, ExecRenew, KeepAliveEnds, Renewed, RenewRetried, LeaseLost, Stop, Crash, Restart
  <2> QED
    BY Zenon, <2>1, NextPunctual DEF FixedInv
<1>3. FixedInv => FixedSlotRunsOnce
  BY Zenon DEF FixedInv, Punctual, SlotOnce, FixedSlotRunsOnce
<1> QED
  BY <1>1, <1>2, <1>3, TypeCorrect, PTL DEF Spec

-----------------------------------------------------------------------------
(* OverrunBounded.                                                         *)
(*                                                                         *)
(* Let P be the renewal period and D the longest command.  A run that has  *)
(* not been cancelled waits for, or is answering, a tick of a grid whose   *)
(* origin t is the start of the run, at most 2 D after Redis granted the   *)
(* lease, or the tick of the last successful renewal.  In the first case   *)
(* keepAlive gives up at the second tick of the grid at the latest, in the *)
(* second case at the third one.                                           *)

\* The tick the keepAlive goroutine of r waits for or answers.
CurrentTick(r) == IF ka[r] = "wait" THEN kaDue[r] ELSE kaSent[r]

SinceStart(r, t) ==
    /\ renewed[r] = t
    /\ until[r] + 2 * MaxDelay >= t + 3 * RenewPeriod
    /\ CurrentTick(r) \in {t + RenewPeriod, t + 2 * RenewPeriod}

SinceRenewal(r, t) ==
    /\ t <= renewed[r] /\ renewed[r] <= t + MaxDelay
    /\ until[r] >= t + 3 * RenewPeriod
    /\ CurrentTick(r) \in {t + RenewPeriod, t + 2 * RenewPeriod, t + 3 * RenewPeriod}

\* The lease of a replica that is not yet running.
Starting(r) ==
    /\ pc[r] \in AwaitsRedis => now <= sent[r] + MaxDelay /\ sent[r] <= now
    /\ pc[r] = "leaseRep" /\ token[r] # 0 => until[r] >= sent[r] + LockTTL
    /\ pc[r] \in {"slot", "slotOurs", "slotTaken"} => until[r] + MaxDelay >= sent[r] + LockTTL

\* The lease of a run in progress.
InProgress(r) ==
    pc[r] = "run" /\ ~cancelled[r] =>
        /\ ka[r] # "off"
        /\ ka[r] = "wait" => now <= kaDue[r]
        /\ ka[r] \in Renewing =>
            /\ kaSent[r] <= now /\ now <= kaSent[r] + MaxDelay
            /\ kaDue[r] = kaSent[r] + RenewPeriod
        /\ ka[r] = "renewed" => until[r] >= kaSent[r] + LockTTL
        /\ \E t \in Int : SinceStart(r, t) \/ SinceRenewal(r, t)

OnTime(r) == Starting(r) /\ InProgress(r) /\ until[r] <= now + LockTTL

Cadence == \A r \in Replica : OnTime(r)

\* What the steps below need of TypeOK.
LEMMA ReplicaTypes ==
    ASSUME TypeOK, NEW r \in Replica
    PROVE  /\ now \in Nat /\ sent[r] \in Nat /\ until[r] \in Nat
           /\ kaDue[r] \in Int /\ kaSent[r] \in Nat /\ renewed[r] \in Nat
  BY ConstantTypes DEF TypeOK

LEMMA Domains ==
    ASSUME TypeOK
    PROVE  /\ DOMAIN pc = Replica /\ DOMAIN token = Replica /\ DOMAIN sent = Replica
           /\ DOMAIN until = Replica /\ DOMAIN ka = Replica /\ DOMAIN kaDue = Replica
           /\ DOMAIN kaSent = Replica /\ DOMAIN renewed = Replica /\ DOMAIN cancelled = Replica
  BY Zenon DEF TypeOK

\* A step leaves the goroutines of r, and the clock, alone.
Untouched(r) ==
    /\ now' = now
    /\ pc'[r] = pc[r] /\ token'[r] = token[r] /\ sent'[r] = sent[r] /\ until'[r] = until[r]
    /\ ka'[r] = ka[r] /\ kaDue'[r] = kaDue[r] /\ kaSent'[r] = kaSent[r]
    /\ renewed'[r] = renewed[r] /\ cancelled'[r] = cancelled[r]

LEMMA OthersUntouched ==
    ASSUME TypeOK, NEW q \in Replica, NEW r \in Replica, q # r,
           Schedule(q) \/ KeepAlive(q) \/ Environment(q)
    PROVE  Untouched(r)
  <1> USE Domains DEF Untouched, jobVars, kaVars
  <1>1. CASE Fire(q)
    BY Zenon, <1>1 DEF Fire, Send
  <1>2. CASE ExecLease(q) \/ ClaimSlot(q)
    BY ZenonT(40), <1>2 DEF ExecLease, ClaimSlot, Send
  <1>3. CASE LeaseRefused(q) \/ Released(q) \/ ScheduleEnds(q)
    BY Zenon, <1>3 DEF LeaseRefused, Released, ScheduleEnds, BackToIdle
  <1>4. CASE ExecSlot(q) \/ JobReturns(q)
    BY Zenon, <1>4 DEF ExecSlot, JobReturns
  <1>5. CASE StartRun(q)
    BY ZenonT(40), <1>5 DEF StartRun
  <1>6. CASE SlotRefused(q) \/ Join(q) \/ ExecRelease(q)
    BY ZenonT(40), <1>6 DEF SlotRefused, Join, ExecRelease, Send
  <1>7. CASE KeepAliveTick(q) \/ KeepAliveEnds(q)
    BY ZenonT(40), <1>7 DEF KeepAliveTick, KeepAliveEnds, KeepAliveOver
  <1>8. CASE ExecRenew(q)
    <2>1. until'[r] = until[r]
      BY Zenon, <1>8 DEF ExecRenew
    <2> QED BY ZenonT(40), <1>8, <2>1 DEF ExecRenew
  <1>9. CASE Renewed(q) \/ RenewRetried(q)
    BY Zenon, <1>9 DEF Renewed, RenewRetried, AwaitTick
  <1>10. CASE LeaseLost(q)
    BY Zenon, <1>10 DEF LeaseLost, KeepAliveOver
  <1>11. CASE Stop(q) \/ Restart(q)
    BY Zenon, <1>11 DEF Stop, Restart
  <1>12. CASE Crash(q)
    BY Zenon, <1>12 DEF Crash, KeepAliveOver
  <1> QED
    BY Zenon, <1>1, <1>2, <1>3, <1>4, <1>5, <1>6, <1>7, <1>8, <1>9, <1>10, <1>11, <1>12
    DEF Schedule, KeepAlive, Environment

\* A step that leaves the goroutines of r alone keeps r on time.
LEMMA OthersOnTime ==
    ASSUME NEW r \in Replica, OnTime(r), Untouched(r)
    PROVE  OnTime(r)'
  <1>1. Starting(r)' /\ (until[r] <= now + LockTTL)'
    BY Zenon DEF Untouched, OnTime, Starting
  <1>2. InProgress(r)'
    BY Zenon DEF Untouched, OnTime, InProgress, SinceStart, SinceRenewal, CurrentTick
  <1> QED BY Zenon, <1>1, <1>2 DEF OnTime

LEMMA TickOnTimeForAll ==
    ASSUME TypeOK, Cadence, Tick, NEW r \in Replica
    PROVE  OnTime(r)'
  <1>1. now' = now + 1 /\ OnTime(r)
    BY Zenon DEF Tick, Cadence
  <1>2. UNCHANGED <<pc, token, sent, until, ka, kaDue, kaSent, renewed, cancelled>>
    BY Zenon DEF Tick, jobVars, kaVars
  <1>3. now \in Nat /\ sent[r] \in Nat /\ until[r] \in Nat /\ kaDue[r] \in Int /\ kaSent[r] \in Nat
    BY Zenon, ReplicaTypes
  <1>4. Starting(r)'
    <2>1. pc[r] \in AwaitsRedis => now + 1 <= sent[r] + MaxDelay /\ sent[r] <= now + 1
      BY Zenon, <1>1, <1>3, DelayNext, LaterStill DEF Tick, OnTime, Starting
    <2> QED BY Zenon, <1>1, <1>2, <2>1 DEF OnTime, Starting
  <1>5. (until[r] <= now + LockTTL)'
    BY Zenon, <1>1, <1>2, <1>3, GrantStill DEF OnTime
  <1>6. InProgress(r)'
    <2>1. ka[r] = "wait" => now + 1 <= kaDue[r]
      BY Zenon, <1>3, DueNext DEF Tick
    <2>2. ka[r] \in Renewing => now + 1 <= kaSent[r] + MaxDelay
      BY Zenon, <1>3, DelayNext DEF Tick
    <2>3. kaSent[r] <= now => kaSent[r] <= now + 1
      BY Zenon, <1>3, LaterStill
    <2>4. \A t : (SinceStart(r, t) => SinceStart(r, t)') /\ (SinceRenewal(r, t) => SinceRenewal(r, t)')
      BY Zenon, <1>2 DEF SinceStart, SinceRenewal, CurrentTick
    <2> QED BY Zenon, <1>1, <1>2, <2>1, <2>2, <2>3, <2>4 DEF OnTime, InProgress
  <1> QED BY Zenon, <1>4, <1>5, <1>6 DEF OnTime

\* A replica that has just sent a command outside a run is on time.
LEMMA SentOnTime ==
    ASSUME TypeOK, NEW r \in Replica, OnTime(r), now' = now, until'[r] = until[r], sent'[r] = now,
           pc'[r] \in {"lease", "rel"}
    PROVE  OnTime(r)'
  <1>1. now <= now + MaxDelay /\ now <= now
    BY Zenon, ReplicaTypes, Reflexive
  <1> QED BY Zenon, <1>1 DEF OnTime, Starting, InProgress

\* So is one that neither runs nor waits for an answer.
LEMMA IdleOnTime ==
    ASSUME TypeOK, NEW r \in Replica, OnTime(r), now' = now, until'[r] \in {0, until[r]},
           pc'[r] \in {"idle", "join", "done", "crashed"}
    PROVE  OnTime(r)'
  <1>1. 0 <= now + LockTTL
    BY Zenon, ReplicaTypes, Reflexive
  <1> QED BY Zenon, <1>1 DEF OnTime, Starting, InProgress, AwaitsRedis

LEMMA ScheduleOnTime ==
    ASSUME TypeOK, Cadence, Timings, NEW r \in Replica, Schedule(r)
    PROVE  OnTime(r)'
  <1>1. OnTime(r) /\ now \in Nat /\ sent[r] \in Nat /\ until[r] \in Nat
    BY Zenon, ReplicaTypes DEF Cadence
  <1>3. CASE Fire(r)
    <2>1. CASE CurrentSlot(r) \in OffDays
      BY Zenon, <1>1, <1>3, <2>1, OthersOnTime DEF Fire, Untouched, kaVars
    <2>2. CASE CurrentSlot(r) \notin OffDays
      BY Zenon, <1>1, <1>3, <2>2, SentOnTime, Domains DEF Fire, Send
    <2> QED BY Zenon, <2>1, <2>2
  <1>4. CASE ExecLease(r)
    <2>1. pc[r] = "lease" /\ pc'[r] = "leaseRep" /\ sent' = sent /\ now' = now
      BY Zenon, <1>4, Domains DEF ExecLease
    <2>2. now <= sent[r] + MaxDelay /\ sent[r] <= now
      BY Zenon, <1>1, <2>1 DEF OnTime, Starting, AwaitsRedis
    <2>3. token'[r] = LeaseReply /\ until'[r] = IF LeaseHeld THEN 0 ELSE now + LockTTL
      BY Zenon, <1>4, Domains DEF ExecLease
    <2>4. token'[r] # 0 => until'[r] >= sent[r] + LockTTL
      BY Zenon, <1>1, <2>2, <2>3, GrantSince DEF LeaseReply
    <2>5. until'[r] <= now + LockTTL
      <3>1. now + LockTTL <= now + LockTTL /\ 0 <= now + LockTTL
        BY <1>1, ConstantTypes
      <3> QED BY Zenon, <2>3, <3>1
    <2> QED BY Zenon, <2>1, <2>2, <2>4, <2>5 DEF OnTime, Starting, InProgress
  <1>5. CASE ClaimSlot(r)
    <2>1. pc[r] = "leaseRep" /\ token[r] # 0 /\ pc'[r] = "slot" /\ sent'[r] = now /\ now' = now /\ until' = until
      BY Zenon, <1>5, Domains DEF ClaimSlot, Send
    <2>2. now <= sent[r] + MaxDelay /\ until[r] >= sent[r] + LockTTL
      BY Zenon, <1>1, <2>1 DEF OnTime, Starting, AwaitsRedis
    <2>3. until[r] + MaxDelay >= now + LockTTL
      BY Zenon, <1>1, <2>2, GrantAfter
    <2>4. now <= now + MaxDelay /\ now <= now
      BY Zenon, <1>1, Reflexive
    <2> QED BY Zenon, <1>1, <2>1, <2>3, <2>4 DEF OnTime, Starting, InProgress
  <1>6. CASE LeaseRefused(r) \/ Released(r)
    BY Zenon, <1>1, <1>6, IdleOnTime, Domains DEF LeaseRefused, Released, BackToIdle
  <1>7. CASE ExecSlot(r)
    BY Zenon, <1>1, <1>7 DEF ExecSlot, TypeOK, OnTime, Starting, InProgress, AwaitsRedis
  <1>8. CASE StartRun(r)
    <2>1. now <= sent[r] + MaxDelay /\ until[r] + MaxDelay >= sent[r] + LockTTL
      BY Zenon, <1>1, <1>8 DEF StartRun, OnTime, Starting, AwaitsRedis
    <2>2. ka'[r] = "wait" /\ kaDue'[r] = now + RenewPeriod /\ renewed'[r] = now
          /\ pc'[r] = "run" /\ now' = now /\ until' = until
      BY Zenon, <1>8, Domains DEF StartRun
    <2>3. SinceStart(r, now)'
      <3>1. until[r] + 2 * MaxDelay >= now + 3 * RenewPeriod
        BY <1>1, <2>1, ConstantTypes, PeriodPositive DEF Timings
      <3> QED BY Zenon, <2>2, <3>1 DEF SinceStart, CurrentTick
    <2>4. PICK t \in Int : t = now
      BY <1>1
    <2>5. now <= now + RenewPeriod
      BY Zenon, <1>1, PeriodAhead
    <2> QED BY Zenon, <1>1, <2>2, <2>3, <2>4, <2>5 DEF OnTime, Starting, InProgress, AwaitsRedis, Renewing
  <1>9. CASE SlotRefused(r) \/ Join(r)
    BY Zenon, <1>1, <1>9, SentOnTime, Domains DEF SlotRefused, Join, Send
  <1>10. CASE JobReturns(r) \/ ScheduleEnds(r)
    BY Zenon, <1>1, <1>10, IdleOnTime, Domains DEF JobReturns, ScheduleEnds
  <1>11. CASE ExecRelease(r)
    BY Zenon, <1>1, <1>11 DEF ExecRelease, TypeOK, OnTime, Starting, InProgress, AwaitsRedis
  <1> QED
    BY Zenon, <1>3, <1>4, <1>5, <1>6, <1>7, <1>8, <1>9, <1>10, <1>11, Schedule(r) DEF Schedule

\* What every step of keepAlive has in common.
LEMMA KeepAliveFrame ==
    ASSUME TypeOK, NEW r \in Replica, KeepAlive(r)
    PROVE  /\ now' = now /\ pc' = pc /\ token' = token /\ sent' = sent
           /\ until'[r] = until[r] \/ until'[r] = now + LockTTL
           /\ cancelled[r] => cancelled'[r]
  <1>1. CASE KeepAliveTick(r) \/ KeepAliveEnds(r) \/ Renewed(r) \/ RenewRetried(r)
    BY Zenon, <1>1 DEF KeepAliveTick, KeepAliveEnds, Renewed, RenewRetried, jobVars
  <1>2. CASE ExecRenew(r)
    BY Zenon, <1>2, Domains DEF ExecRenew
  <1>3. CASE LeaseLost(r)
    BY Zenon, <1>3, Domains DEF LeaseLost, jobVars
  <1> QED BY Zenon, <1>1, <1>2, <1>3 DEF KeepAlive

LEMMA KeepAliveOnTime ==
    ASSUME TypeOK, Cadence, Timings, NEW r \in Replica, KeepAlive(r)
    PROVE  OnTime(r)'
  <1>1. OnTime(r) /\ now \in Nat /\ RenewPeriod \in Nat \ {0} /\ LockTTL \in Nat /\ MaxDelay \in Nat
    BY Zenon, PeriodPositive, ReplicaTypes, ConstantTypes DEF Cadence
  <1>2. sent[r] \in Nat /\ until[r] \in Nat /\ kaDue[r] \in Int /\ kaSent[r] \in Nat
        /\ renewed[r] \in Nat
    BY Zenon, ReplicaTypes
  <1>3. now' = now /\ pc' = pc /\ token' = token /\ sent' = sent
    BY Zenon, KeepAliveFrame
  <1>4. until'[r] \in Int /\ until'[r] >= until[r] /\ until'[r] <= now + LockTTL
    <2>1. until[r] <= now + LockTTL /\ (until'[r] = until[r] \/ until'[r] = now + LockTTL)
      BY Zenon, <1>1, KeepAliveFrame DEF OnTime
    <2>2. /\ until[r] >= until[r] /\ until[r] \in Int /\ now + LockTTL \in Int
          /\ now + LockTTL >= until[r] /\ now + LockTTL <= now + LockTTL
      BY <1>1, <1>2, <2>1
    <2> QED BY Zenon, <2>1, <2>2
  <1>5. Starting(r)'
    <2>1. PICK u \in Int : u = until'[r] /\ u >= until[r]
      BY Zenon, <1>4
    <2>2. until[r] >= sent[r] + LockTTL => u >= sent[r] + LockTTL
      BY <1>1, <1>2, <2>1
    <2>3. until[r] + MaxDelay >= sent[r] + LockTTL => u + MaxDelay >= sent[r] + LockTTL
      BY <1>1, <1>2, <2>1
    <2> QED BY Zenon, <1>1, <1>3, <2>1, <2>2, <2>3 DEF OnTime, Starting
  <1>6. SUFFICES ASSUME pc[r] = "run", ~cancelled[r], ~cancelled'[r]
                 PROVE  InProgress(r)'
    <2>1. CASE pc[r] # "run" \/ cancelled'[r]
      <3>1. InProgress(r)'
        BY Zenon, <1>3, <2>1 DEF InProgress
      <3> QED BY Zenon, <1>3, <1>4, <1>5, <3>1 DEF OnTime
    <2> QED BY Zenon, <1>3, <1>4, <1>5, <1>6, <2>1, KeepAliveFrame DEF OnTime
  <1>7. PICK t \in Int : SinceStart(r, t) \/ SinceRenewal(r, t)
    BY Zenon, <1>1, <1>6 DEF OnTime, InProgress
  <1>8. CASE KeepAliveTick(r)
    <2>1. kaDue[r] = now
      BY Zenon, <1>1, <1>2, <1>6, <1>8, SameTime DEF KeepAliveTick, OnTime, InProgress
    <2>2. ka'[r] = "renew" /\ kaSent'[r] = now /\ kaDue'[r] = now + RenewPeriod
      BY Zenon, <1>1, <1>8, <2>1, TickOnTime DEF KeepAliveTick, TypeOK
    <2>3. CurrentTick(r)' = CurrentTick(r)
      BY Zenon, <1>8, <2>1, <2>2 DEF KeepAliveTick, CurrentTick
    <2>4. SinceStart(r, t)' \/ SinceRenewal(r, t)'
      BY Zenon, <1>7, <1>8, <2>3 DEF KeepAliveTick, jobVars, SinceStart, SinceRenewal
    <2>5. now <= now /\ now <= now + MaxDelay
      BY Zenon, <1>1, Reflexive
    <2> QED BY Zenon, <1>3, <2>2, <2>4, <2>5 DEF InProgress, Renewing
  <1>9. CASE ExecRenew(r)
    <2>1. ka[r] = "renew" /\ ka'[r] \in {"renewed", "gone"} /\ UNCHANGED <<kaDue, kaSent, renewed>>
      BY Zenon, <1>9 DEF ExecRenew, TypeOK
    <2>2. ka'[r] = "renewed" => until'[r] = now + LockTTL
      BY Zenon, <1>9 DEF ExecRenew, TypeOK
    <2>3. CurrentTick(r)' = CurrentTick(r)
      BY Zenon, <2>1 DEF CurrentTick
    <2>4. SinceStart(r, t)' \/ SinceRenewal(r, t)'
      BY <1>1, <1>2, <1>4, <1>5, <1>7, <2>1, <2>3 DEF SinceStart, SinceRenewal
    <2>5. kaSent[r] <= now /\ now <= kaSent[r] + MaxDelay /\ kaDue[r] = kaSent[r] + RenewPeriod
      BY Zenon, <1>1, <1>6, <2>1 DEF OnTime, InProgress, Renewing
    <2>6. now + LockTTL >= kaSent[r] + LockTTL
      BY Zenon, <1>1, <1>2, <2>5, GrantSince
    <2> QED BY Zenon, <1>3, <2>1, <2>2, <2>4, <2>5, <2>6 DEF InProgress, Renewing
  <1>10. CASE KeepAliveEnds(r) \/ LeaseLost(r)
    BY Zenon, <1>6, <1>10 DEF KeepAliveEnds, LeaseLost, TypeOK
  <1>11. CASE Renewed(r)
    <2>1. kaSent[r] <= now /\ now <= kaSent[r] + MaxDelay /\ kaDue[r] = kaSent[r] + RenewPeriod
          /\ until[r] >= kaSent[r] + LockTTL
      BY Zenon, <1>1, <1>6, <1>11 DEF Renewed, OnTime, InProgress, Renewing
    <2>2. ka'[r] = "wait" /\ kaDue'[r] = kaDue[r] /\ renewed'[r] = now /\ until' = until
      BY Zenon, <1>11 DEF Renewed, AwaitTick, TypeOK, jobVars
    <2>3. PICK u \in Int : u = kaSent[r]
      BY <1>2
    <2>4. SinceRenewal(r, u)'
      BY ZenonT(40), <1>1, <1>2, <2>1, <2>2, <2>3 DEF SinceRenewal, CurrentTick, Timings
    <2>5. now <= kaDue[r]
      BY Zenon, <1>1, <1>2, <2>1, DelayBeforeDue
    <2> QED BY Zenon, <1>3, <2>2, <2>3, <2>4, <2>5 DEF InProgress, Renewing
  <1>12. CASE RenewRetried(r)
    <2>1. kaSent[r] <= now /\ now <= kaSent[r] + MaxDelay /\ kaDue[r] = kaSent[r] + RenewPeriod
      BY Zenon, <1>1, <1>6, <1>12 DEF RenewRetried, OnTime, InProgress, Renewing
    <2>2. ka'[r] = "wait" /\ kaDue'[r] = kaDue[r] /\ renewed'[r] = renewed[r] /\ until' = until
      BY Zenon, <1>12 DEF RenewRetried, AwaitTick, TypeOK, jobVars
    <2>3. now - renewed[r] < 2 * RenewPeriod
      BY Zenon, <1>12, TwoThirds DEF RenewRetried, Transient
    <2>4. CurrentTick(r) = kaSent[r] /\ CurrentTick(r)' = kaSent[r] + RenewPeriod
      BY Zenon, <1>12, <2>1, <2>2 DEF RenewRetried, CurrentTick, Renewing
    <2>5. SinceStart(r, t)' \/ SinceRenewal(r, t)'
      <3>1. CASE SinceStart(r, t)
        <4>2. now - t < 2 * RenewPeriod /\ kaSent[r] \in {t + RenewPeriod, t + 2 * RenewPeriod}
          BY Zenon, <2>3, <2>4, <3>1 DEF SinceStart
        <4>1. kaSent[r] + RenewPeriod = t + 2 * RenewPeriod
          BY Zenon, <1>1, <1>2, <2>1, <4>2, RetrySinceStart
        <4> QED BY Zenon, <2>2, <2>4, <3>1, <4>1 DEF SinceStart
      <3>2. CASE SinceRenewal(r, t)
        <4>1. kaSent[r] + RenewPeriod \in {t + 2 * RenewPeriod, t + 3 * RenewPeriod}
          BY ZenonT(40), <1>1, <1>2, <2>1, <2>3, <2>4, <3>2, RetrySinceRenewal DEF SinceRenewal
        <4> QED BY Zenon, <2>2, <2>4, <3>2, <4>1 DEF SinceRenewal
      <3> QED BY Zenon, <1>7, <3>1, <3>2
    <2>6. now <= kaDue[r]
      BY Zenon, <1>1, <1>2, <2>1, DelayBeforeDue
    <2> QED BY Zenon, <1>3, <2>2, <2>5, <2>6 DEF InProgress, Renewing
  <1> QED BY Zenon, <1>8, <1>9, <1>10, <1>11, <1>12, KeepAlive(r) DEF KeepAlive

LEMMA EnvironmentOnTime ==
    ASSUME TypeOK, Cadence, NEW r \in Replica, Environment(r)
    PROVE  OnTime(r)'
  <1>1. OnTime(r) /\ now \in Nat /\ until[r] \in Nat
    BY Zenon, ReplicaTypes DEF Cadence
  <1>2. CASE Stop(r)
    BY Zenon, <1>1, <1>2 DEF Stop, jobVars, TypeOK, OnTime, Starting, InProgress
  <1>3. CASE Crash(r) \/ Restart(r)
    BY Zenon, <1>1, <1>3, IdleOnTime, Domains DEF Crash, Restart
  <1> QED BY Zenon, <1>2, <1>3, Environment(r) DEF Environment

LEMMA NextCadence == Timings /\ TypeOK /\ Cadence /\ [Next]_vars => Cadence'
  <1> SUFFICES ASSUME Timings, TypeOK, Cadence, [Next]_vars, NEW r \in Replica
               PROVE  OnTime(r)'
    BY Zenon DEF Cadence
  <1>1. CASE Tick
    BY Zenon, <1>1, TickOnTimeForAll
  <1>2. ASSUME NEW q \in Replica, Schedule(q) \/ KeepAlive(q) \/ Environment(q)
        PROVE  OnTime(r)'
    <2>1. CASE r = q
      BY Zenon, <1>2, <2>1, ScheduleOnTime, KeepAliveOnTime, EnvironmentOnTime
    <2>2. CASE r # q
      BY Zenon, <1>2, <2>2, OthersUntouched, OthersOnTime DEF Cadence, Untouched
    <2> QED BY Zenon, <2>1, <2>2
  <1>3. CASE UNCHANGED vars
    BY Zenon, <1>3, OthersOnTime DEF Cadence, Untouched, vars, jobVars, kaVars
  <1> QED BY Zenon, <1>1, <1>2, <1>3 DEF Next

\* With commands no longer than a sixth of the ttl, a run that keepAlive has
\* not cancelled outlives its lease by less than one command.
THEOREM OverrunIsBounded == Spec => []OverrunBounded
  <1>1. CASE Timings
    <2>1. Init => Cadence
      BY CronAssumption DEF Init, Cadence, OnTime, Starting, InProgress, AwaitsRedis
    <2>2. TypeOK /\ Cadence => OverrunBounded
      <3> SUFFICES ASSUME TypeOK, Cadence, NEW r \in Replica, pc[r] = "run", ~cancelled[r]
                   PROVE  now <= until[r] + MaxDelay
        BY Zenon DEF OverrunBounded
      <3>1. InProgress(r) /\ now \in Nat /\ until[r] \in Nat /\ RenewPeriod \in Nat
            /\ kaDue[r] \in Int /\ kaSent[r] \in Nat
        BY Zenon, PeriodPositive, ReplicaTypes DEF Cadence, OnTime
      <3>2. PICK t \in Int : SinceStart(r, t) \/ SinceRenewal(r, t)
        BY Zenon, <3>1 DEF InProgress
      <3>3. now <= CurrentTick(r) + MaxDelay
        <4>1. ka[r] \in {"off", "wait"} \cup Renewing
          BY Zenon DEF TypeOK, Renewing
        <4>2. CASE ka[r] = "wait"
          <5>1. now <= kaDue[r]
            BY Zenon, <3>1, <4>2 DEF InProgress
          <5>2. CurrentTick(r) = kaDue[r]
            BY Zenon, <4>2 DEF CurrentTick
          <5>3. now <= kaDue[r] + MaxDelay
            BY Zenon, <3>1, <5>1, DueWithin
          <5> QED BY Zenon, <5>2, <5>3
        <4>3. CASE ka[r] \in Renewing
          <5>1. now <= kaSent[r] + MaxDelay
            BY Zenon, <3>1, <4>3 DEF InProgress
          <5>2. CurrentTick(r) = kaSent[r]
            BY Zenon, <4>3 DEF CurrentTick, Renewing
          <5> QED BY Zenon, <5>1, <5>2
        <4> QED BY Zenon, <3>1, <4>1, <4>2, <4>3 DEF InProgress
      <3>4. CurrentTick(r) \in Int
        BY <3>1 DEF CurrentTick
      <3>5. CASE SinceStart(r, t)
        BY Zenon, <1>1, <3>1, <3>3, <3>4, <3>5, OverrunSinceStart DEF SinceStart
      <3>6. CASE SinceRenewal(r, t)
        BY Zenon, <1>1, <3>1, <3>3, <3>4, <3>6, OverrunSinceRenewal DEF SinceRenewal
      <3> QED BY Zenon, <3>2, <3>5, <3>6
    <2> QED BY <1>1, <2>1, <2>2, NextCadence, TypeCorrect, PTL DEF Spec
  <1>2. CASE ~Timings
    <2>1. OverrunBounded
      BY Zenon, <1>2 DEF OverrunBounded, Timings
    <2> QED BY <2>1, PTL
  <1> QED BY Zenon, <1>1, <1>2
==============================================================================
