---------------------------- MODULE SessionStore ----------------------------
(***************************************************************************)
(* The sessions of one user in the stores of iam: Redis                    *)
(* (provider/redis/session.go), where each operation is made of commands   *)
(* that others interleave with, and memory (provider/memory/session.go),   *)
(* where each one holds the mutex.  The operators say what one command     *)
(* does; the modules that use the store say who sends it, and when.        *)
(*                                                                         *)
(* A session is created once under a fresh id and then only revoked: what  *)
(* Get reads can only have been revoked, or have expired, when it is used. *)
(***************************************************************************)
EXTENDS Integers, FiniteSets

CONSTANTS
    Sid,        \* ids of sessions: uuid.New
    Stores,     \* which stores are considered: "redis", "memory"
    Retention,  \* revokedRetention, and the 5 minutes of gc
    Slack       \* the minute a key is kept past what it is about

ASSUME StoreAssumption ==
    /\ Sid \subseteq Nat \ {0} /\ IsFiniteSet(Sid)
    /\ Stores \subseteq {"redis", "memory"}
    /\ Retention \in Nat /\ Slack \in Nat

VARIABLES
    store,      \* the store in use
    now,        \* the time, of all instances and of Redis
    sess,       \* each session as stored
    index,      \* the user's index in Redis: its ids, and when the key expires
    cutoff      \* RevokedBefore: the user's cut-off, 0 when never set

storeVars == <<sess, index, cutoff>>

\* st: "none" before Save and after its removal; hold: when the key expires.
NoSession == [st |-> "none", auth |-> 0, exp |-> 0, hold |-> 0]

StoreTypeOK ==
    /\ store \in Stores
    /\ now \in Nat
    /\ sess \in [Sid -> [st : {"none", "active", "revoked"}, auth : Nat, exp : Nat, hold : Nat]]
    /\ index \in [ids : SUBSET Sid, until : Nat]
    /\ cutoff \in Nat

StoreInit ==
    /\ store \in Stores
    /\ now = 1
    /\ sess = [s \in Sid |-> NoSession]
    /\ index = [ids |-> {}, until |-> 0]
    /\ cutoff = 0

Later(a, b) == IF a >= b THEN a ELSE b

\* The store has the session: Redis drops the key at its time.
Stored(s) == sess[s].st # "none" /\ (store = "redis" => now < sess[s].hold)

\* Get finds it: the memory store drops an expired session when it reads it,
\* unless it was revoked.
Found(s) == Stored(s) /\ (store = "memory" => now <= sess[s].exp \/ sess[s].st = "revoked")

GetEffect(s) ==
    /\ sess' = IF Stored(s) /\ ~Found(s) THEN [sess EXCEPT ![s].st = "none"] ELSE sess
    /\ UNCHANGED <<index, cutoff>>

Indexed == IF now < index.until THEN index.ids ELSE {}

\* Save.  The commands of its pipeline go to two slots: when one of them fails,
\* only the session, or only its index entry, may be there.
Save(s, auth, exp, done) ==
    /\ sess' = [sess EXCEPT ![s] = [st |-> IF "session" \in done THEN "active" ELSE "none",
                                    auth |-> auth, exp |-> exp, hold |-> exp]]
    /\ index' = IF store = "redis" /\ "index" \in done
                THEN [ids |-> Indexed \cup {s}, until |-> exp + Slack] ELSE index
    /\ UNCHANGED cutoff

\* markRevoked and revokedTTL.
Revoked(s) ==
    [sess[s] EXCEPT !.st = "revoked", !.hold = IF store = "redis" THEN Later(@, now + Retention) ELSE @]

\* Revoke of the sessions of ids that exist; what it writes does not depend on
\* what happened since it read them.
Revoke(ids) ==
    /\ sess' = [s \in Sid |-> IF s \in ids /\ Stored(s) THEN Revoked(s) ELSE sess[s]]
    /\ UNCHANGED <<index, cutoff>>

\* prune
Prune(ids) ==
    /\ index' = [index EXCEPT !.ids = Indexed \ ids]
    /\ UNCHANGED <<sess, cutoff>>

\* The key of the cut-off outlives every session.
SetCutoff(t) ==
    /\ cutoff' = t
    /\ UNCHANGED <<sess, index>>

\* RevokeAllForUser of the memory store.
RevokeAllInMemory ==
    /\ cutoff' = now
    /\ sess' = [s \in Sid |-> IF sess[s].st = "active" THEN Revoked(s) ELSE sess[s]]
    /\ UNCHANGED index

\* gc of the memory store.
Gc ==
    /\ store = "memory"
    /\ LET old == {s \in Sid : sess[s].st # "none" /\ now > sess[s].exp + Retention}
       IN  /\ old # {}
           /\ sess' = [s \in Sid |-> IF s \in old THEN [sess[s] EXCEPT !.st = "none"] ELSE sess[s]]
    /\ UNCHANGED <<store, now, index, cutoff>>
=============================================================================
