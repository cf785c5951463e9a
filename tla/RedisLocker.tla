----------------------------- MODULE RedisLocker -----------------------------
(***************************************************************************)
(* The three Lua scripts of cronjob.RedisLocker (base/cronjob/lock.go) on  *)
(* the keys of one job: its lease, one claim per scheduled slot, and the   *)
(* fence counter they share.  Redis runs a script atomically, and a key    *)
(* with a ttl is gone once its time has passed.                            *)
(***************************************************************************)
EXTENDS Integers

CONSTANTS
    LockTTL,    \* ttl of the lease key (ScheduleConfig.LockTTL)
    Slot        \* the slots that can be claimed

VARIABLES
    now,        \* the time Redis measures ttls with
    lease,      \* the last lease granted: its token and its expiry, 0 once deleted
    claim,      \* expiry of each slot key, 0 when it was never set
    fence       \* the :fence counter

locker == <<lease, claim, fence>>

\* The lease key exists.
LeaseHeld == now < lease.until

SlotHeld(s) == now < claim[s]

RedisInit ==
    /\ lease = [token |-> 0, until |-> 0]
    /\ claim = [s \in Slot |-> 0]
    /\ fence = 0

\* The token acquireScript draws: the fence counter, incremented.
NextToken == fence + 1

\* acquireScript on the lease key: the answer, 0 when the key exists.
LeaseReply == IF LeaseHeld THEN 0 ELSE NextToken

\* A SET without the check that the key exists.
OverwriteLease ==
    /\ fence' = fence + 1
    /\ lease' = [token |-> NextToken, until |-> now + LockTTL]
    /\ UNCHANGED claim

\* acquireScript on the lease key: the effect.
AcquireLease ==
    IF LeaseHeld
    THEN UNCHANGED locker
    ELSE /\ fence' = fence + 1
         /\ lease' = [token |-> NextToken, until |-> now + LockTTL]
         /\ UNCHANGED claim

\* acquireScript on the key of slot s: it draws from the same counter.
AcquireSlot(s, ttl) ==
    IF SlotHeld(s)
    THEN UNCHANGED locker
    ELSE /\ fence' = fence + 1
         /\ claim' = [claim EXCEPT ![s] = now + ttl]
         /\ UNCHANGED lease

\* What renewScript and releaseScript compare: the key exists and holds token.
Holds(token) == LeaseHeld /\ lease.token = token

\* renewScript: the expiry moves only while token holds the key.
Renew(token) ==
    /\ lease' = IF Holds(token) THEN [lease EXCEPT !.until = now + LockTTL] ELSE lease
    /\ UNCHANGED <<claim, fence>>

\* releaseScript: the key goes only while token holds it.
Release(token) ==
    /\ lease' = IF Holds(token) THEN [lease EXCEPT !.until = 0] ELSE lease
    /\ UNCHANGED <<claim, fence>>
=============================================================================
