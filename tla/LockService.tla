----------------------------- MODULE LockService -----------------------------
(***************************************************************************)
(* What cronjob.Locker promises of the lease key of one job (the interface *)
(* comment in base/cronjob/lock.go): the key has one holder at a time,     *)
(* and every successful Acquire hands out a token greater than all the     *)
(* earlier ones, so the token doubles as a fencing token.                  *)
(***************************************************************************)
EXTENDS Naturals

VARIABLES
    holder,    \* token of the current holder, 0 when the key is free
    granted    \* the greatest token handed out so far

lockVars == <<holder, granted>>

Init == holder = 0 /\ granted = 0

\* Acquire succeeds only on a free key, with a token never seen before.
Grant ==
    /\ holder = 0
    /\ holder' \in Nat
    /\ holder' > granted
    /\ granted' = holder'

\* The holder releases the key, or its ttl expires.
Free ==
    /\ holder # 0
    /\ holder' = 0
    /\ granted' = granted

Next == Grant \/ Free

Spec == Init /\ [][Next]_lockVars
=============================================================================
