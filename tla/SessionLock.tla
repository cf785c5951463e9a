---------------------------- MODULE SessionLock ----------------------------
(* base/session: sessions kept in Redis, created once under a lock, and the *)
(* same lock offered to callers (TryLock, Unlock, WithLock).  Redis is      *)
(* external: every command is atomic, a lock expires after its TTL whoever  *)
(* still works under it, and a stored session expires.                      *)
EXTENDS Naturals

CONSTANTS
    Users,         \* goroutines, of this or of other processes
    MaxEntries     \* bound: sessions and tokens generated

ASSUME SessionLockAssumption == MaxEntries \in Nat

VARIABLES
    entry,     \* the session stored under the key: [id, expired], id 0 for none
    lockOf,    \* lock key -> the token in Redis, 0 for none
    user,      \* user -> its call
    fresh,     \* the last id generated
    live,      \* sessions CreateOrGet answered since the stored one was replaced
    late       \* a session was saved by a call whose lock had expired
slVars == <<entry, lockOf, user, fresh, live, late>>

NoEntry == [id |-> 0, expired |-> FALSE]
Resting == [pc |-> "idle", op |-> "none", token |-> 0, lost |-> FALSE, seen |-> NoEntry]

(* withLock's key is the session's ("prefix:lock:key"), WithLock's and      *)
(* TryLock's the caller's own.                                              *)
LockKey(op) == IF op \in {"createOrGet", "force"} THEN "session" ELSE "caller"

SessionLockInit ==
    /\ entry = NoEntry /\ lockOf = [k \in {"session", "caller"} |-> 0]
    /\ user = [u \in Users |-> Resting] /\ fresh = 0
    /\ live = {} /\ late = FALSE

BeginCall(u, op) ==
    /\ user[u].pc = "idle"
    /\ user' = [user EXCEPT ![u] = [Resting EXCEPT !.pc = "acquire", !.op = op]]
    /\ UNCHANGED <<entry, lockOf, fresh, live, late>>

(* acquire, TryLock: SET NX of a new token.  withLock tries again after a   *)
(* delay, WithLock and TryLock answer false.                                *)
Acquire(u) ==
    /\ user[u].pc = "acquire" /\ fresh < MaxEntries
    /\ LET k == LockKey(user[u].op)
       IN IF lockOf[k] = 0
          THEN /\ fresh' = fresh + 1
               /\ lockOf' = [lockOf EXCEPT ![k] = fresh + 1]
               /\ user' = [user EXCEPT ![u].pc = "inside", ![u].token = fresh + 1]
          ELSE /\ user' = [user EXCEPT ![u] = IF k = "caller" THEN Resting ELSE @]
               /\ UNCHANGED <<lockOf, fresh>>
    /\ UNCHANGED <<entry, live, late>>

(* The context of a call ends while it waits for the lock, or the command   *)
(* fails: Redis may have set the lock, which then stays until its TTL.      *)
WaitCanceled(u) ==
    /\ user[u].pc = "acquire"
    /\ user' = [user EXCEPT ![u] = Resting]
    /\ LET k == LockKey(user[u].op)
       IN \/ UNCHANGED <<lockOf, fresh>>
          \/ /\ lockOf[k] = 0 /\ fresh < MaxEntries
             /\ fresh' = fresh + 1
             /\ lockOf' = [lockOf EXCEPT ![k] = fresh + 1]
    /\ UNCHANGED <<entry, live, late>>

(* CreateOrGet's fn: read, answer a session that lives, or else save one.   *)
ReadEntry(u) ==
    /\ user[u].pc = "inside" /\ user[u].op = "createOrGet"
    /\ IF entry.id # 0 /\ ~entry.expired
       THEN user' = [user EXCEPT ![u].pc = "release"] /\ live' = live \cup {entry.id}
       ELSE user' = [user EXCEPT ![u].pc = "save"] /\ UNCHANGED live
    /\ UNCHANGED <<entry, lockOf, fresh, late>>

SaveEntry(u) ==
    /\ \/ user[u].pc = "save"
       \/ user[u].pc = "inside" /\ user[u].op = "force"
    /\ fresh < MaxEntries
    /\ fresh' = fresh + 1
    /\ entry' = [id |-> fresh + 1, expired |-> FALSE]
    /\ live' = (IF user[u].op = "force" THEN {} ELSE live) \cup {fresh + 1}
    /\ late' = (late \/ user[u].lost)
    /\ user' = [user EXCEPT ![u].pc = "release"]
    /\ UNCHANGED lockOf

(* fn of WithLock, or the caller's work between TryLock and Unlock. *)
CallerWorks(u) ==
    /\ user[u].pc = "inside" /\ user[u].op = "withLock"
    /\ user' = [user EXCEPT ![u].pc = "release"]
    /\ UNCHANGED <<entry, lockOf, fresh, live, late>>

(* A driver call inside fn fails; the lock is released all the same.  A     *)
(* Save that fails may have stored its session, which nobody is answered.   *)
DriverFails(u) ==
    /\ user[u].pc \in {"inside", "save"} /\ user[u].op # "withLock"
    /\ user' = [user EXCEPT ![u].pc = "release"]
    /\ \/ UNCHANGED <<entry, fresh, live, late>>
       \/ /\ user[u].pc = "save" \/ user[u].op = "force"
          /\ fresh < MaxEntries
          /\ fresh' = fresh + 1
          /\ entry' = [id |-> fresh + 1, expired |-> FALSE]
          /\ live' = IF user[u].op = "force" THEN {} ELSE live
          /\ late' = (late \/ user[u].lost)
    /\ UNCHANGED lockOf

(* ReleaseLockToken, Unlock: the script that deletes the key only while it  *)
(* holds the caller's token.  Its error is dropped: the lock may stay.      *)
ReleaseAny(u) ==
    /\ user[u].pc = "release"
    /\ LET k == LockKey(user[u].op)
       IN lockOf' \in {lockOf, [lockOf EXCEPT ![k] = 0]}
    /\ user' = [user EXCEPT ![u] = Resting]
    /\ UNCHANGED <<entry, fresh, live, late>>
ReleaseLockToken(u) ==
    /\ user[u].pc = "release"
    /\ LET k == LockKey(user[u].op)
       IN lockOf' \in {lockOf, [lockOf EXCEPT ![k] = IF @ = user[u].token THEN 0 ELSE @]}
    /\ user' = [user EXCEPT ![u] = Resting]
    /\ UNCHANGED <<entry, fresh, live, late>>

(* Delete. *)
DeleteEntry(u) ==
    /\ user[u].pc = "idle" /\ entry.id # 0
    /\ entry' = NoEntry /\ live' = {}
    /\ UNCHANGED <<lockOf, user, fresh, late>>

(* CleanExpired: Get and, when the session read has expired, Del.  The two  *)
(* are not one command, and no lock is held.                                *)
CleanReads(u) ==
    /\ user[u].pc = "idle"
    /\ user' = [user EXCEPT ![u] = [Resting EXCEPT !.pc = "clean", !.seen = entry]]
    /\ UNCHANGED <<entry, lockOf, fresh, live, late>>
CleanDeletes(u) ==
    /\ user[u].pc = "clean"
    /\ IF user[u].seen.id # 0 /\ user[u].seen.expired
       THEN entry' = NoEntry /\ live' = {}
       ELSE UNCHANGED <<entry, live>>
    /\ user' = [user EXCEPT ![u] = Resting]
    /\ UNCHANGED <<lockOf, fresh, late>>

(* Redis and the clock. *)
LockExpires(k) ==
    /\ lockOf[k] # 0
    /\ user' = [u \in Users |-> IF user[u].token = lockOf[k] THEN [user[u] EXCEPT !.lost = TRUE] ELSE user[u]]
    /\ lockOf' = [lockOf EXCEPT ![k] = 0]
    /\ UNCHANGED <<entry, fresh, live, late>>
SessionExpires ==
    /\ entry.id # 0 /\ ~entry.expired
    /\ entry' = [entry EXCEPT !.expired = TRUE]
    /\ live' = {}
    /\ UNCHANGED <<lockOf, user, fresh, late>>

SessionLockNext ==
    \/ \E u \in Users :
         \/ \E op \in {"createOrGet", "force", "withLock"} : BeginCall(u, op)
         \/ Acquire(u) \/ WaitCanceled(u) \/ ReadEntry(u) \/ SaveEntry(u) \/ CallerWorks(u)
         \/ DriverFails(u) \/ ReleaseLockToken(u) \/ DeleteEntry(u) \/ CleanReads(u) \/ CleanDeletes(u)
    \/ \E k \in DOMAIN lockOf : LockExpires(k)
    \/ SessionExpires

SessionLockSpec == SessionLockInit /\ [][SessionLockNext]_slVars

(* Who works under a lock works alone, and CreateOrGet answers one session  *)
(* (Session.withLock, WithLock, releaseIfOwner): of two calls under the     *)
(* same lock one has outlived its lock, whatever earlier holders released;  *)
(* and while no call saves after its lock expired, the calls between two    *)
(* replacements of the stored session all answer the same session.          *)
SessionExclusive ==
    /\ \A u, v \in Users :
         (/\ u # v
          /\ {user[u].pc, user[v].pc} \subseteq {"inside", "save", "release"}
          /\ LockKey(user[u].op) = LockKey(user[v].op)) => user[u].lost \/ user[v].lost
    /\ ~late => \A s, t \in live : s = t
=============================================================================
