---------------------------- MODULE StorageProofs ----------------------------
(***************************************************************************)
(* Proofs about base/session and sqln: the locks that guard sessions and   *)
(* callers' work (SessionLock), the cache of query results (QueryCache)    *)
(* and the transactions (Transaction).                                     *)
(***************************************************************************)
EXTENDS SessionLock, QueryCache, Transaction, TLAPS

-----------------------------------------------------------------------------
(* SessionLock.                                                              *)

StoredSession == [id : Nat, expired : BOOLEAN]
LockCall == [pc : {"idle", "acquire", "inside", "save", "release", "clean"},
             op : {"none", "createOrGet", "force", "withLock"},
             token : Nat, lost : BOOLEAN, seen : StoredSession]
LockKeys == {"session", "caller"}

LockTypes ==
    /\ entry \in StoredSession /\ lockOf \in [LockKeys -> Nat]
    /\ user \in [Users -> LockCall] /\ fresh \in Nat
    /\ live \in SUBSET Nat /\ late \in BOOLEAN

InLock(c) == c.pc \in {"inside", "save", "release"}

\* A call has a token from the moment it has the lock, and until the lock
\* expires that token is the one in Redis.
HolderOK(c) ==
    /\ c.token <= fresh
    /\ InLock(c) <=> c.token # 0
    /\ InLock(c) /\ ~c.lost => lockOf[LockKey(c.op)] = c.token
    /\ c.pc = "save" => c.op = "createOrGet"

\* No token is given twice.
LockInv ==
    /\ LockTypes
    /\ \A k \in LockKeys : lockOf[k] <= fresh
    /\ \A u \in Users : HolderOK(user[u])
    /\ \A u, v \in Users : u # v /\ user[u].token = user[v].token => user[u].token = 0

Replaceable == entry.id = 0 \/ entry.expired

\* A session is saved by CreateOrGet only where none lives.
OneSession ==
    /\ live \subseteq {entry.id}
    /\ Replaceable => live = {}
    /\ \A u \in Users : user[u].pc = "save" /\ ~user[u].lost => Replaceable

SessionLockInv == LockInv /\ (~late => OneSession)

LEMMA LockConstants ==
    /\ Resting \in LockCall /\ NoEntry \in StoredSession
    /\ Resting.token = 0 /\ Resting.pc = "idle" /\ ~Resting.lost
  BY DEF Resting, NoEntry, LockCall, StoredSession

\* One call moves on, and keeps the lock it has or stays without.
LEMMA CallMoves ==
    ASSUME LockInv, LockTypes', NEW u \in Users, NEW r,
           user' = [user EXCEPT ![u] = r], lockOf' = lockOf, fresh <= fresh',
           r.token = user[u].token, InLock(r) <=> InLock(user[u]),
           InLock(r) => r.op = user[u].op /\ r.lost = user[u].lost,
           r.pc = "save" => r.op = "createOrGet"
    PROVE  LockInv'
<1>1. LockTypes /\ fresh \in Nat /\ fresh' \in Nat
  BY Zenon DEF LockInv, LockTypes
<1>2. \A n \in Nat : n <= fresh => n <= fresh'
  BY <1>1
<1>3. /\ user'[u] = r /\ \A v \in Users \ {u} : user'[v] = user[v]
      /\ \A v \in Users : user[v].token \in Nat
      /\ \A k \in LockKeys : lockOf[k] \in Nat
  <2>1. user'[u] = r /\ \A v \in Users \ {u} : user'[v] = user[v]
    BY Zenon, <1>1 DEF LockTypes
  <2>2. \A v \in Users : user[v].token \in Nat
    BY <1>1 DEF LockTypes, LockCall
  <2>3. \A k \in LockKeys : lockOf[k] \in Nat
    BY Zenon, <1>1 DEF LockTypes
  <2> QED
    BY Zenon, <2>1, <2>2, <2>3
<1>4. \A k \in LockKeys : lockOf'[k] <= fresh'
  BY Zenon, <1>2, <1>3 DEF LockInv
<1>5. \A v \in Users : user'[v].token = user[v].token
  BY Zenon, <1>3
<1>6. ASSUME NEW v \in Users PROVE HolderOK(user[v])'
  <2>1. HolderOK(user[v])
    BY Zenon DEF LockInv
  <2>2. user'[v].token <= fresh'
    BY Zenon, <1>2, <1>3, <1>5, <2>1 DEF HolderOK
  <2>3. CASE v = u
    BY Zenon, <1>3, <2>1, <2>2, <2>3 DEF HolderOK, InLock
  <2>4. CASE v # u
    BY Zenon, <1>3, <2>1, <2>2, <2>4 DEF HolderOK, InLock
  <2> QED
    BY Zenon, <2>3, <2>4
<1>7. \A v, w \in Users : v # w /\ user'[v].token = user'[w].token => user'[v].token = 0
  <2>1. \A v, w \in Users : v # w /\ user[v].token = user[w].token => user[v].token = 0
    BY Zenon DEF LockInv
  <2>2. ASSUME NEW v \in Users, NEW w \in Users, v # w, user'[v].token = user'[w].token
        PROVE  user'[v].token = 0
    <3>1. user[v].token = user[w].token /\ user'[v].token = user[v].token
      BY Zenon, <1>5, <2>2
    <3> QED
      BY Zenon, <2>1, <2>2, <3>1
  <2> QED
    BY Zenon, <2>2
<1> QED
  BY Zenon, <1>4, <1>6, <1>7 DEF LockInv

\* A new token is stored under a free key: no call that still has its lock
\* has this one.
LEMMA FreshToken ==
    ASSUME LockInv, LockTypes', NEW u \in Users, NEW r, NEW k \in LockKeys,
           user' = [user EXCEPT ![u] = r], lockOf[k] = 0, fresh' = fresh + 1,
           lockOf' = [lockOf EXCEPT ![k] = fresh + 1],
           \/ ~InLock(r) /\ r.token = 0 /\ r.pc # "save"
           \/ r.pc = "inside" /\ r.token = fresh + 1 /\ LockKey(r.op) = k
    PROVE  LockInv'
<1>1. LockTypes /\ fresh \in Nat /\ fresh' \in Nat
  BY Zenon DEF LockInv, LockTypes
<1>2. /\ \A n \in Nat : n <= fresh => n <= fresh' /\ n # fresh'
      /\ fresh' <= fresh' /\ 0 <= fresh' /\ fresh' # 0
  BY <1>1
<1>3. user'[u] = r /\ \A v \in Users \ {u} : user'[v] = user[v]
  BY Zenon, <1>1 DEF LockTypes
<1>4. \A v \in Users : user[v].token \in Nat /\ LockKey(user[v].op) \in LockKeys
  BY <1>1 DEF LockTypes, LockCall, LockKey, LockKeys
<1>5. \A l \in LockKeys : lockOf[l] \in Nat
  BY Zenon, <1>1 DEF LockTypes
<1>6. lockOf'[k] = fresh' /\ \A l \in LockKeys \ {k} : lockOf'[l] = lockOf[l]
  BY Zenon, <1>1 DEF LockTypes
<1>7. \A l \in LockKeys : lockOf'[l] <= fresh'
  BY Zenon, <1>2, <1>5, <1>6 DEF LockInv
<1>8. ASSUME NEW v \in Users \ {u} PROVE HolderOK(user[v])' /\ user[v].token # fresh'
  <2>1. HolderOK(user[v]) /\ user'[v] = user[v]
    BY Zenon, <1>3 DEF LockInv
  <2>2. user'[v].token <= fresh' /\ user[v].token # fresh'
    BY Zenon, <1>2, <1>4, <2>1 DEF HolderOK
  <2>3. InLock(user[v]) /\ ~user[v].lost => LockKey(user[v].op) # k
    BY Zenon, <2>1 DEF HolderOK
  <2> QED
    BY Zenon, <1>4, <1>6, <2>1, <2>2, <2>3 DEF HolderOK, InLock
<1>9. HolderOK(user[u])'
  <2>1. CASE ~InLock(r) /\ r.token = 0 /\ r.pc # "save"
    BY Zenon, <1>2, <1>3, <2>1 DEF HolderOK, InLock
  <2>2. CASE r.pc = "inside" /\ r.token = fresh + 1 /\ LockKey(r.op) = k
    BY Zenon, <1>2, <1>3, <1>6, <2>2 DEF HolderOK, InLock
  <2> QED
    BY Zenon, <2>1, <2>2
<1>10. \A v, w \in Users : v # w /\ user'[v].token = user'[w].token => user'[v].token = 0
  <2>1. r.token = 0 \/ r.token = fresh'
    BY Zenon
  <2>2. \A v \in Users \ {u} : user'[v].token = r.token => r.token = 0
    BY Zenon, <1>3, <1>8, <2>1
  <2>3. ASSUME NEW v \in Users \ {u}, NEW w \in Users \ {u}, v # w, user'[v].token = user'[w].token
        PROVE  user'[v].token = 0
    <3>1. user'[v] = user[v] /\ user'[w] = user[w]
      BY Zenon, <1>3
    <3>2. user[v].token = user[w].token /\ v \in Users /\ w \in Users
      BY Zenon, <2>3, <3>1
    <3>3. \A x, y \in Users : x # y /\ user[x].token = user[y].token => user[x].token = 0
      BY Zenon DEF LockInv
    <3> QED
      BY Zenon, <2>3, <3>1, <3>2, <3>3
  <2>4. ASSUME NEW v \in Users, NEW w \in Users, v # w, user'[v].token = user'[w].token PROVE user'[v].token = 0
    <3>1. CASE v = u
      <4>1. user'[v] = r /\ w \in Users \ {u}
        BY Zenon, <1>3, <2>4, <3>1
      <4> QED
        BY Zenon, <2>2, <2>4, <4>1
    <3>2. CASE w = u
      BY Zenon, <1>3, <2>2, <2>4, <3>2
    <3>3. CASE v # u /\ w # u
      BY Zenon, <2>3, <2>4, <3>3
    <3> QED
      BY Zenon, <3>1, <3>2, <3>3
  <2> QED
    BY Zenon, <2>4
<1> QED
  BY Zenon, <1>7, <1>8, <1>9, <1>10 DEF LockInv

\* The script deletes the key only while it holds the caller's token, which is
\* nobody else's.
LEMMA TokenReleased ==
    ASSUME LockInv, LockTypes', NEW u \in Users, ReleaseLockToken(u)
    PROVE  LockInv'
<1>1. LockTypes /\ fresh \in Nat /\ fresh' = fresh /\ InLock(user[u])
  BY Zenon DEF LockInv, LockTypes, ReleaseLockToken, InLock
<1>2. user'[u] = Resting /\ \A v \in Users \ {u} : user'[v] = user[v]
  BY Zenon, <1>1 DEF LockTypes, ReleaseLockToken
<1>3. PICK k : k = LockKey(user[u].op)
  BY Zenon
<1>4. 0 <= fresh
  BY <1>1
<1>5. /\ user[u].token # 0
      /\ lockOf' = lockOf \/ lockOf' = [lockOf EXCEPT ![k] = IF lockOf[k] = user[u].token THEN 0 ELSE lockOf[k]]
  BY Zenon, <1>1, <1>3 DEF ReleaseLockToken, LockInv, HolderOK
<1>6. \A l \in LockKeys : lockOf'[l] = lockOf[l] \/ (lockOf'[l] = 0 /\ lockOf[l] = user[u].token)
  BY Zenon, <1>1, <1>5 DEF LockTypes
<1>7. \A l \in LockKeys : lockOf'[l] <= fresh'
  BY Zenon, <1>1, <1>4, <1>6 DEF LockInv
<1>8. ASSUME NEW v \in Users \ {u} PROVE HolderOK(user[v])'
  <2>1. HolderOK(user[v]) /\ user'[v] = user[v] /\ (user[v].token = user[u].token => user[v].token = 0)
    BY Zenon, <1>2 DEF LockInv
  <2>2. LockKey(user[v].op) \in LockKeys
    BY Zenon DEF LockKey, LockKeys
  <2>3. InLock(user[v]) /\ ~user[v].lost => lockOf'[LockKey(user[v].op)] = user[v].token
    BY Zenon, <1>5, <1>6, <2>1, <2>2 DEF HolderOK
  <2> QED
    BY Zenon, <1>1, <2>1, <2>3 DEF HolderOK, InLock
<1>9. HolderOK(user[u])'
  BY Zenon, <1>1, <1>2, <1>4, LockConstants DEF HolderOK, InLock
<1>10. \A v, w \in Users : v # w /\ user'[v].token = user'[w].token => user'[v].token = 0
  BY ZenonT(40), <1>2, LockConstants DEF LockInv
<1> QED
  BY Zenon, <1>7, <1>8, <1>9, <1>10 DEF LockInv

\* A lock that expires is lost to the call that has it.
LEMMA LockLost ==
    ASSUME LockInv, LockTypes', NEW k \in LockKeys, LockExpires(k)
    PROVE  LockInv'
<1>1. LockTypes /\ fresh \in Nat /\ fresh' = fresh
  BY Zenon DEF LockInv, LockTypes, LockExpires
<1>2. ASSUME NEW v \in Users
      PROVE  /\ user'[v].token = user[v].token /\ user'[v].pc = user[v].pc /\ user'[v].op = user[v].op
             /\ user[v].lost => user'[v].lost
             /\ user[v].token = lockOf[k] => user'[v].lost
  <2>1. user'[v] = IF user[v].token = lockOf[k] THEN [user[v] EXCEPT !.lost = TRUE] ELSE user[v]
    BY Zenon DEF LockExpires
  <2>2. user[v] \in LockCall
    BY Zenon, <1>1 DEF LockTypes
  <2> QED
    BY <2>1, <2>2 DEF LockCall
<1>3. lockOf'[k] = 0 /\ \A l \in LockKeys \ {k} : lockOf'[l] = lockOf[l]
  BY Zenon, <1>1 DEF LockTypes, LockExpires
<1>4. 0 <= fresh
  BY <1>1
<1>5. \A l \in LockKeys : lockOf'[l] <= fresh'
  BY Zenon, <1>1, <1>3, <1>4 DEF LockInv
<1>6. ASSUME NEW v \in Users PROVE HolderOK(user[v])'
  <2>1. HolderOK(user[v])
    BY Zenon DEF LockInv
  <2>2. LockKey(user[v].op) \in LockKeys
    BY Zenon DEF LockKey, LockKeys
  <2>3. InLock(user[v])' /\ ~user'[v].lost => lockOf'[LockKey(user[v].op)] = user[v].token
    BY Zenon, <1>2, <1>3, <2>1, <2>2 DEF HolderOK, InLock
  <2> QED
    BY Zenon, <1>1, <1>2, <2>1, <2>3 DEF HolderOK, InLock
<1>7. \A v, w \in Users : v # w /\ user'[v].token = user'[w].token => user'[v].token = 0
  <2>1. \A v, w \in Users : v # w /\ user[v].token = user[w].token => user[v].token = 0
    BY Zenon DEF LockInv
  <2>2. \A v \in Users : user'[v].token = user[v].token
    BY Zenon, <1>2
  <2> QED
    BY Zenon, <2>1, <2>2
<1> QED
  BY Zenon, <1>5, <1>6, <1>7 DEF LockInv

\* What a step makes of one call.
LEMMA CallFields ==
    ASSUME LockTypes, NEW u \in Users, NEW p \in {"save", "release"}, NEW r, r = [user[u] EXCEPT !.pc = p]
    PROVE  /\ r \in LockCall /\ r.pc = p /\ r.op = user[u].op
           /\ r.token = user[u].token /\ r.lost = user[u].lost
<1>1. user[u] \in LockCall
  BY Zenon DEF LockTypes
<1> QED
  BY <1>1 DEF LockCall

LEMMA EnteredFields ==
    ASSUME LockTypes, NEW u \in Users, NEW r, r = [user[u] EXCEPT !.pc = "inside", !.token = fresh + 1]
    PROVE  r \in LockCall /\ r.pc = "inside" /\ r.op = user[u].op /\ r.token = fresh + 1
<1>1. user[u] \in LockCall /\ fresh + 1 \in Nat
  BY DEF LockTypes
<1> QED
  BY <1>1 DEF LockCall

\* Setting the call of one user.
LEMMA CallSet ==
    ASSUME LockTypes, NEW u \in Users, NEW r \in LockCall, user' = [user EXCEPT ![u] = r]
    PROVE  /\ user' \in [Users -> LockCall] /\ user'[u] = r
           /\ \A v \in Users \ {u} : user'[v] = user[v]
  BY Zenon DEF LockTypes

\* What every step leaves typed, and how it moves a call.
LEMMA LockTypesStep ==
    ASSUME LockTypes, [SessionLockNext]_slVars
    PROVE  LockTypes'
<1> USE LockConstants
<1>1. fresh + 1 \in Nat /\ [id |-> fresh + 1, expired |-> FALSE] \in StoredSession
  <2>1. fresh + 1 \in Nat
    BY DEF LockTypes
  <2> QED
    BY <2>1 DEF StoredSession
<1>2. CASE UNCHANGED slVars
  BY Zenon, <1>2 DEF slVars, LockTypes
<1>3. ASSUME NEW u \in Users, NEW op \in {"createOrGet", "force", "withLock"}, BeginCall(u, op)
      PROVE  LockTypes'
  <2>1. [Resting EXCEPT !.pc = "acquire", !.op = op] \in LockCall
    BY DEF Resting, NoEntry, LockCall, StoredSession
  <2> QED
    BY Zenon, <1>3, <2>1, CallSet DEF BeginCall, LockTypes
<1>4. ASSUME NEW u \in Users, Acquire(u) \/ WaitCanceled(u) PROVE LockTypes'
  <2>1. user' \in [Users -> LockCall]
    <3>1. user[u] \in LockCall
      BY Zenon DEF LockTypes
    <3>2. \/ user' = [user EXCEPT ![u] = Resting] \/ user' = [user EXCEPT ![u] = user[u]]
          \/ user' = [user EXCEPT ![u] = [user[u] EXCEPT !.pc = "inside", !.token = fresh + 1]]
      BY Zenon, <1>4 DEF Acquire, WaitCanceled
    <3> QED
      BY Zenon, <3>1, <3>2, CallSet, EnteredFields
  <2>2. \/ UNCHANGED <<lockOf, fresh>>
        \/ fresh' = fresh + 1 /\ lockOf' = [lockOf EXCEPT ![LockKey(user[u].op)] = fresh + 1]
    BY Zenon, <1>4 DEF Acquire, WaitCanceled
  <2>3. UNCHANGED <<entry, live, late>>
    BY Zenon, <1>4 DEF Acquire, WaitCanceled
  <2> QED
    BY Zenon, <1>1, <2>1, <2>2, <2>3 DEF LockTypes
<1>5. ASSUME NEW u \in Users, ReadEntry(u) \/ CallerWorks(u) PROVE LockTypes'
  <2>1. PICK p \in {"save", "release"} : user' = [user EXCEPT ![u] = [user[u] EXCEPT !.pc = p]]
    BY Zenon, <1>5 DEF ReadEntry, CallerWorks
  <2>2. entry.id \in Nat
    BY DEF LockTypes, StoredSession
  <2>3. live' \in {live, live \cup {entry.id}} /\ UNCHANGED <<entry, lockOf, fresh, late>>
    BY Zenon, <1>5 DEF ReadEntry, CallerWorks
  <2> QED
    BY Zenon, <2>1, <2>2, <2>3, CallSet, CallFields DEF LockTypes
<1>6. ASSUME NEW u \in Users, SaveEntry(u) \/ DriverFails(u) PROVE LockTypes'
  <2>1. user' = [user EXCEPT ![u] = [user[u] EXCEPT !.pc = "release"]] /\ lockOf' = lockOf
    BY Zenon, <1>6 DEF SaveEntry, DriverFails
  <2>2. user[u].lost \in BOOLEAN
    BY DEF LockTypes, LockCall
  <2>3. \/ UNCHANGED <<entry, fresh, live, late>>
        \/ /\ fresh' = fresh + 1 /\ entry' = [id |-> fresh + 1, expired |-> FALSE]
           /\ live' \in {live, {}, {fresh + 1}, live \cup {fresh + 1}, {} \cup {fresh + 1}} /\ late' = (late \/ user[u].lost)
    BY Zenon, <1>6 DEF SaveEntry, DriverFails
  <2>4. user' \in [Users -> LockCall]
    <3>1. PICK r : r = [user[u] EXCEPT !.pc = "release"]
      BY Zenon
    <3>2. r \in LockCall /\ user' = [user EXCEPT ![u] = r]
      BY Zenon, <2>1, <3>1, CallFields
    <3> QED
      BY Zenon, <3>2, CallSet
  <2>5. live' \in SUBSET Nat /\ late' \in BOOLEAN /\ fresh' \in Nat
    BY Zenon, <1>1, <2>2, <2>3 DEF LockTypes
  <2>6. entry' \in StoredSession
    BY Zenon, <1>1, <2>3 DEF LockTypes
  <2> QED
    BY Zenon, <2>1, <2>4, <2>5, <2>6 DEF LockTypes
<1>7. ASSUME NEW u \in Users, ReleaseLockToken(u) PROVE LockTypes'
  <2>1. lockOf' \in [LockKeys -> Nat]
    <3>1. 0 \in Nat
      OBVIOUS
    <3> QED
      BY Zenon, <1>7, <3>1 DEF ReleaseLockToken, LockTypes
  <2> QED
    BY Zenon, <1>7, <2>1, CallSet DEF ReleaseLockToken, LockTypes
<1>8. ASSUME NEW u \in Users, DeleteEntry(u) \/ CleanReads(u) \/ CleanDeletes(u) PROVE LockTypes'
  <2>1. [Resting EXCEPT !.pc = "clean", !.seen = entry] \in LockCall
    BY DEF Resting, NoEntry, LockCall, LockTypes, StoredSession
  <2>2. /\ user' = user \/ user' = [user EXCEPT ![u] = Resting]
           \/ user' = [user EXCEPT ![u] = [Resting EXCEPT !.pc = "clean", !.seen = entry]]
        /\ UNCHANGED <<entry, live>> \/ (entry' = NoEntry /\ live' = {})
        /\ UNCHANGED <<lockOf, fresh, late>>
    BY Zenon, <1>8 DEF DeleteEntry, CleanReads, CleanDeletes
  <2> QED
    BY Zenon, <2>1, <2>2, CallSet DEF LockTypes
<1>9. ASSUME NEW k \in LockKeys, LockExpires(k) PROVE LockTypes'
  <2>1. \A u \in Users : [user[u] EXCEPT !.lost = TRUE] \in LockCall /\ user[u] \in LockCall
    BY DEF LockTypes, LockCall
  <2>2. user' \in [Users -> LockCall]
    BY Zenon, <1>9, <2>1 DEF LockExpires
  <2>3. 0 \in Nat
    OBVIOUS
  <2> QED
    BY Zenon, <1>9, <2>2, <2>3 DEF LockExpires, LockTypes
<1>10. CASE SessionExpires
  <2>1. [entry EXCEPT !.expired = TRUE] \in StoredSession
    BY DEF LockTypes, StoredSession
  <2> QED
    BY Zenon, <1>10, <2>1 DEF SessionExpires, LockTypes
<1>11. DOMAIN lockOf = LockKeys
  BY Zenon DEF LockTypes
<1> QED
  BY Zenon, <1>2, <1>3, <1>4, <1>5, <1>6, <1>7, <1>8, <1>9, <1>10, <1>11 DEF SessionLockNext

LEMMA LockStep ==
    ASSUME LockInv, LockTypes', [SessionLockNext]_slVars
    PROVE  LockInv'
<1> USE LockConstants
<1>1. LockTypes /\ fresh \in Nat
  BY Zenon DEF LockInv, LockTypes
<1>2. fresh <= fresh /\ fresh <= fresh + 1
  BY <1>1
<1>3. \A u \in Users : HolderOK(user[u])
  BY Zenon DEF LockInv
<1>4. CASE UNCHANGED <<lockOf, user, fresh>>
  BY Zenon, <1>4 DEF LockInv, HolderOK, InLock
<1>5. ASSUME NEW u \in Users, NEW r, user' = [user EXCEPT ![u] = r], UNCHANGED <<lockOf, fresh>>,
             ~InLock(user[u]), r.token = 0, ~InLock(r)
      PROVE  LockInv'
  <2>1. user[u].token = 0 /\ r.pc # "save"
    BY Zenon, <1>3, <1>5 DEF HolderOK, InLock
  <2> QED
    BY Zenon, <1>2, <1>5, <2>1, CallMoves
<1>6. ASSUME NEW u \in Users, NEW op \in {"createOrGet", "force", "withLock"}, BeginCall(u, op)
      PROVE  LockInv'
  <2>1. PICK r : r = [Resting EXCEPT !.pc = "acquire", !.op = op]
    BY Zenon
  <2>2. r.token = 0 /\ r.pc = "acquire"
    BY <2>1 DEF Resting
  <2>3. ~InLock(user[u]) /\ ~InLock(r)
    BY Zenon, <1>6, <2>2 DEF BeginCall, InLock
  <2>4. user' = [user EXCEPT ![u] = r] /\ UNCHANGED <<lockOf, fresh>>
    BY Zenon, <1>6, <2>1 DEF BeginCall
  <2> QED
    BY Zenon, <1>5, <2>2, <2>3, <2>4
<1>7. ASSUME NEW u \in Users, CleanReads(u) PROVE LockInv'
  <2>1. PICK r : r = [Resting EXCEPT !.pc = "clean", !.seen = entry]
    BY Zenon
  <2>2. r.token = 0 /\ r.pc = "clean"
    BY <2>1 DEF Resting
  <2>3. ~InLock(user[u]) /\ ~InLock(r)
    BY Zenon, <1>7, <2>2 DEF CleanReads, InLock
  <2>4. user' = [user EXCEPT ![u] = r] /\ UNCHANGED <<lockOf, fresh>>
    BY Zenon, <1>7, <2>1 DEF CleanReads
  <2> QED
    BY Zenon, <1>5, <2>2, <2>3, <2>4
<1>8. ASSUME NEW u \in Users, CleanDeletes(u) PROVE LockInv'
  <2>1. ~InLock(user[u]) /\ ~InLock(Resting)
    BY Zenon, <1>8 DEF CleanDeletes, InLock
  <2>2. user' = [user EXCEPT ![u] = Resting] /\ UNCHANGED <<lockOf, fresh>>
    BY Zenon, <1>8 DEF CleanDeletes
  <2> QED
    BY Zenon, <1>5, <2>1, <2>2
<1>9. ASSUME NEW u \in Users, Acquire(u) \/ WaitCanceled(u) PROVE LockInv'
  <2>1. user[u].pc = "acquire"
    BY Zenon, <1>9 DEF Acquire, WaitCanceled
  <2>2. ~InLock(user[u]) /\ user[u].token = 0 /\ ~InLock(Resting)
    BY Zenon, <1>3, <2>1 DEF HolderOK, InLock
  <2>3. PICK k \in LockKeys : k = LockKey(user[u].op)
    BY Zenon DEF LockKey, LockKeys
  <2>4. CASE UNCHANGED <<lockOf, fresh>> /\ user' = [user EXCEPT ![u] = Resting]
    BY Zenon, <1>5, <2>2, <2>4
  <2>5. CASE UNCHANGED <<lockOf, fresh>> /\ user' = [user EXCEPT ![u] = user[u]]
    BY Zenon, <1>5, <2>2, <2>5
  <2>6. CASE /\ lockOf[k] = 0 /\ fresh' = fresh + 1 /\ lockOf' = [lockOf EXCEPT ![k] = fresh + 1]
             /\ user' = [user EXCEPT ![u] = Resting]
    BY Zenon, <2>2, <2>6, FreshToken
  <2>7. CASE /\ lockOf[k] = 0 /\ fresh' = fresh + 1 /\ lockOf' = [lockOf EXCEPT ![k] = fresh + 1]
             /\ user' = [user EXCEPT ![u] = [user[u] EXCEPT !.pc = "inside", !.token = fresh + 1]]
    <3>1. PICK r : r = [user[u] EXCEPT !.pc = "inside", !.token = fresh + 1]
      BY Zenon
    <3>2. r.pc = "inside" /\ r.op = user[u].op /\ r.token = fresh + 1
      BY Zenon, <1>1, <3>1, EnteredFields
    <3> QED
      BY Zenon, <2>3, <2>7, <3>1, <3>2, FreshToken
  <2> QED
    BY Zenon, <1>9, <2>3, <2>4, <2>5, <2>6, <2>7 DEF Acquire, WaitCanceled
<1>10. ASSUME NEW u \in Users, NEW p \in {"save", "release"}, user' = [user EXCEPT ![u] = [user[u] EXCEPT !.pc = p]],
              InLock(user[u]), p = "save" => user[u].op = "createOrGet",
              lockOf' = lockOf, fresh' \in {fresh, fresh + 1}
       PROVE  LockInv'
  <2>1. PICK r : r = [user[u] EXCEPT !.pc = p]
    BY Zenon
  <2>2. r.pc = p /\ r.op = user[u].op /\ r.token = user[u].token /\ r.lost = user[u].lost
    <3>1. LockTypes
      BY Zenon, <1>1
    <3> HIDE LockConstants
    <3> QED
      BY ZenonT(40), <2>1, <3>1, CallFields
  <2>3. InLock(r)
    BY Zenon, <2>2 DEF InLock
  <2> QED
    BY Zenon, <1>2, <1>10, <2>1, <2>2, <2>3, CallMoves
<1>11. ASSUME NEW u \in Users, ReadEntry(u) \/ CallerWorks(u) \/ SaveEntry(u) \/ DriverFails(u) PROVE LockInv'
  <2>1. InLock(user[u]) /\ lockOf' = lockOf /\ fresh' \in {fresh, fresh + 1}
    BY Zenon, <1>11 DEF ReadEntry, CallerWorks, SaveEntry, DriverFails, InLock
  <2>2. PICK p \in {"save", "release"} :
            user' = [user EXCEPT ![u] = [user[u] EXCEPT !.pc = p]] /\ (p = "save" => user[u].op = "createOrGet")
    BY Zenon, <1>11 DEF ReadEntry, CallerWorks, SaveEntry, DriverFails
  <2> QED
    BY Zenon, <1>10, <2>1, <2>2
<1>12. CASE SessionExpires \/ \E u \in Users : DeleteEntry(u)
  BY Zenon, <1>4, <1>12 DEF SessionExpires, DeleteEntry
<1>13. CASE UNCHANGED slVars
  BY Zenon, <1>4, <1>13 DEF slVars
<1>14. DOMAIN lockOf = LockKeys
  BY Zenon, <1>1 DEF LockTypes
<1> QED
  BY Zenon, <1>6, <1>7, <1>8, <1>9, <1>11, <1>12, <1>13, <1>14, TokenReleased, LockLost DEF SessionLockNext

\* Of two calls under one lock at most one still has it.
LEMMA LockAlone ==
    ASSUME LockInv, NEW u \in Users, NEW v \in Users, u # v, InLock(user[u]), InLock(user[v]),
           LockKey(user[u].op) = LockKey(user[v].op)
    PROVE  user[u].lost \/ user[v].lost
<1>1. HolderOK(user[u]) /\ HolderOK(user[v]) /\ (user[u].token = user[v].token => user[u].token = 0)
  BY Zenon DEF LockInv
<1> QED
  BY Zenon, <1>1 DEF HolderOK

\* A call saves a session only where none lives, or after its lock expired.
LEMMA OneSessionStep ==
    ASSUME LockInv, LockTypes', ~late => OneSession, [SessionLockNext]_slVars, ~late'
    PROVE  OneSession'
<1>1. LockTypes /\ fresh \in Nat
  BY Zenon DEF LockInv, LockTypes
<1>2. OneSession
  BY Zenon DEF SessionLockNext, BeginCall, Acquire, WaitCanceled, ReadEntry, SaveEntry, CallerWorks, DriverFails,
               ReleaseLockToken, DeleteEntry, CleanReads, CleanDeletes, LockExpires, SessionExpires, slVars
<1>3. ASSUME UNCHANGED <<entry, live>> \/ (entry' = NoEntry /\ live' = {}),
             \A u \in Users : user'[u].pc = "save" /\ ~user'[u].lost => Replaceable \/ (user[u].pc = "save" /\ ~user[u].lost)
      PROVE  OneSession'
  <2>1. NoEntry.id = 0
    BY DEF NoEntry
  <2> QED
    BY Zenon, <1>2, <1>3, <2>1 DEF OneSession, Replaceable
<1>4. ASSUME NEW u \in Users, NEW r, user' = [user EXCEPT ![u] = r], r.pc # "save"
      PROVE  \A v \in Users : user'[v].pc = "save" /\ ~user'[v].lost => user[v].pc = "save" /\ ~user[v].lost
  BY Zenon, <1>1, <1>4 DEF LockTypes
<1>5. ASSUME NEW u \in Users, NEW op \in {"createOrGet", "force", "withLock"}, BeginCall(u, op) PROVE OneSession'
  <2>1. [Resting EXCEPT !.pc = "acquire", !.op = op].pc # "save"
    BY DEF Resting
  <2> QED
    BY Zenon, <1>3, <1>4, <1>5, <2>1 DEF BeginCall
<1>6. ASSUME NEW u \in Users, Acquire(u) \/ WaitCanceled(u) \/ CallerWorks(u) \/ ReleaseLockToken(u) PROVE OneSession'
  <2>2. PICK r : user' = [user EXCEPT ![u] = r] /\ r.pc # "save"
    <3>1. Resting.pc # "save" /\ [user[u] EXCEPT !.pc = "inside", !.token = fresh + 1].pc # "save"
          /\ [user[u] EXCEPT !.pc = "release"].pc # "save"
      BY Zenon, <1>1, CallFields, EnteredFields, LockConstants
    <3>2. user[u].pc = "acquire" => user[u].pc # "save"
      BY Zenon
    <3> QED
      BY Zenon, <1>6, <3>1, <3>2 DEF Acquire, WaitCanceled, CallerWorks, ReleaseLockToken
  <2>3. UNCHANGED <<entry, live>>
    BY Zenon, <1>6 DEF Acquire, WaitCanceled, CallerWorks, ReleaseLockToken
  <2> QED
    BY Zenon, <1>3, <1>4, <2>2, <2>3
<1>7. ASSUME NEW u \in Users, CleanReads(u) \/ CleanDeletes(u) \/ DeleteEntry(u) PROVE OneSession'
  <2>1. [Resting EXCEPT !.pc = "clean", !.seen = entry].pc # "save" /\ Resting.pc # "save"
    BY DEF Resting
  <2>2. UNCHANGED <<entry, live>> \/ (entry' = NoEntry /\ live' = {})
    BY Zenon, <1>7 DEF CleanReads, CleanDeletes, DeleteEntry
  <2>3. CASE user' = user
    BY Zenon, <1>3, <2>2, <2>3
  <2>4. CASE user' # user
    BY Zenon, <1>3, <1>4, <1>7, <2>1, <2>2, <2>4 DEF CleanReads, CleanDeletes, DeleteEntry
  <2> QED
    BY Zenon, <2>3, <2>4
<1>8. ASSUME NEW u \in Users, ReadEntry(u) PROVE OneSession'
  <2>1. CASE Replaceable
    BY Zenon, <1>2, <1>3, <1>8, <2>1 DEF ReadEntry, Replaceable
  <2>2. CASE ~Replaceable
    <3>1. user' = [user EXCEPT ![u] = [user[u] EXCEPT !.pc = "release"]] /\ live' = live \cup {entry.id} /\ entry' = entry
      BY Zenon, <1>8, <2>2 DEF ReadEntry, Replaceable
    <3>2. [user[u] EXCEPT !.pc = "release"].pc # "save"
      BY Zenon, <1>1, CallFields
    <3>3. \A v \in Users : user'[v].pc = "save" /\ ~user'[v].lost => user[v].pc = "save" /\ ~user[v].lost
      BY Zenon, <1>4, <3>1, <3>2
    <3> QED
      BY Zenon, <1>2, <2>2, <3>1, <3>3 DEF OneSession, Replaceable
  <2> QED
    BY Zenon, <2>1, <2>2
<1>9. ASSUME NEW u \in Users, SaveEntry(u) \/ DriverFails(u) PROVE OneSession'
  <2>1. user' = [user EXCEPT ![u] = [user[u] EXCEPT !.pc = "release"]] /\ InLock(user[u])
    BY Zenon, <1>9 DEF SaveEntry, DriverFails, InLock
  <2>2. [user[u] EXCEPT !.pc = "release"].pc # "save" /\ [user[u] EXCEPT !.pc = "release"] \in LockCall
    BY Zenon, <1>1, CallFields
  <2>3. \A v \in Users : user'[v].pc = "save" /\ ~user'[v].lost => v # u /\ user[v].pc = "save" /\ ~user[v].lost
    BY Zenon, <1>1, <2>1, <2>2, CallSet
  <2>4. CASE UNCHANGED <<entry, live>>
    BY Zenon, <1>3, <2>3, <2>4
  <2>5. CASE ~UNCHANGED <<entry, live>>
    <3>1. /\ user[u].pc = "save" \/ user[u].op = "force"
          /\ ~user[u].lost /\ entry' = [id |-> fresh + 1, expired |-> FALSE]
          /\ \/ live' = (IF user[u].op = "force" THEN {} ELSE live) \cup {fresh + 1}
             \/ live' = IF user[u].op = "force" THEN {} ELSE live
      <4>1. CASE SaveEntry(u)
        <5>1. ~user[u].lost
          BY Zenon, <4>1 DEF SaveEntry
        <5> QED
          BY Zenon, <4>1, <5>1 DEF SaveEntry
      <4>2. CASE DriverFails(u)
        <5>1. ~user[u].lost
          BY Zenon, <2>5, <4>2 DEF DriverFails
        <5> QED
          BY Zenon, <2>5, <4>2, <5>1 DEF DriverFails
      <4> QED
        BY Zenon, <1>9, <4>1, <4>2
    <3>2. HolderOK(user[u]) /\ \A v \in Users : HolderOK(user[v])
      BY Zenon DEF LockInv
    <3>3. LockKey(user[u].op) = "session" /\ (user[u].op # "force" => live = {})
      BY Zenon, <1>2, <3>1, <3>2 DEF HolderOK, LockKey, OneSession
    <3>4. ASSUME NEW v \in Users, user'[v].pc = "save", ~user'[v].lost PROVE FALSE
      <4>1. v # u /\ user[v].pc = "save" /\ ~user[v].lost
        BY Zenon, <2>3, <3>4
      <4>2. InLock(user[v]) /\ LockKey(user[v].op) = "session"
        BY Zenon, <3>2, <4>1 DEF HolderOK, InLock, LockKey
      <4> QED
        BY Zenon, <2>1, <3>1, <3>3, <4>1, <4>2, LockAlone
    <3>5. entry'.id = fresh + 1 /\ ~entry'.expired /\ fresh + 1 # 0
      BY <1>1, <3>1
    <3>6. live' \subseteq {fresh + 1}
      BY Zenon, <3>1, <3>3
    <3> QED
      BY Zenon, <3>4, <3>5, <3>6 DEF OneSession, Replaceable
  <2> QED
    BY Zenon, <2>4, <2>5
<1>10. ASSUME NEW k \in LockKeys, LockExpires(k) PROVE OneSession'
  <2>1. ASSUME NEW v \in Users PROVE user'[v].pc = user[v].pc /\ (user[v].lost => user'[v].lost)
    <3>1. user'[v] = IF user[v].token = lockOf[k] THEN [user[v] EXCEPT !.lost = TRUE] ELSE user[v]
      BY Zenon, <1>10 DEF LockExpires
    <3>2. user[v] \in LockCall
      BY Zenon, <1>1 DEF LockTypes
    <3> QED
      BY <3>1, <3>2 DEF LockCall
  <2> QED
    BY Zenon, <1>3, <1>10, <2>1 DEF LockExpires
<1>11. CASE SessionExpires
  <2>1. entry'.expired = TRUE
    BY <1>1, <1>11 DEF SessionExpires, LockTypes, StoredSession
  <2> QED
    BY Zenon, <1>11, <2>1 DEF SessionExpires, OneSession, Replaceable
<1>12. CASE UNCHANGED slVars
  BY Zenon, <1>3, <1>12 DEF slVars
<1>13. DOMAIN lockOf = LockKeys
  BY Zenon, <1>1 DEF LockTypes
<1> QED
  BY Zenon, <1>5, <1>6, <1>7, <1>8, <1>9, <1>10, <1>11, <1>12, <1>13 DEF SessionLockNext

\* Whatever locks expire and whatever Redis commands fail, two calls under one
\* lock never both have it, and CreateOrGet answers one session for as long as
\* no call saves after it lost its lock.
THEOREM SessionsExclusive == SessionLockSpec => []SessionExclusive
<1>1. SessionLockInit => SessionLockInv
  <2> SUFFICES ASSUME SessionLockInit PROVE SessionLockInv
    OBVIOUS
  <2>1. LockTypes /\ 0 <= 0
    <3>1. 0 \in Nat /\ 0 <= 0
      OBVIOUS
    <3> QED
      BY Zenon, <3>1, LockConstants DEF SessionLockInit, LockTypes, LockKeys
  <2>2. \A u \in Users : user[u] = Resting
    BY Zenon DEF SessionLockInit
  <2>3. \A k \in LockKeys : lockOf[k] = 0
    BY Zenon DEF SessionLockInit, LockKeys
  <2>4. LockInv
    BY Zenon, <2>1, <2>2, <2>3, LockConstants DEF SessionLockInit, LockInv, HolderOK, InLock
  <2>5. OneSession
    BY Zenon, <2>2, LockConstants DEF SessionLockInit, OneSession
  <2> QED
    BY Zenon, <2>4, <2>5 DEF SessionLockInv
<1>2. SessionLockInv /\ [SessionLockNext]_slVars => SessionLockInv'
  <2> SUFFICES ASSUME LockInv, ~late => OneSession, [SessionLockNext]_slVars PROVE SessionLockInv'
    BY Zenon DEF SessionLockInv
  <2>1. LockTypes'
    BY Zenon, LockTypesStep DEF LockInv
  <2> QED
    BY Zenon, <2>1, LockStep, OneSessionStep DEF SessionLockInv
<1>3. SessionLockInv => SessionExclusive
  <2> SUFFICES ASSUME LockInv, ~late => OneSession PROVE SessionExclusive
    BY Zenon DEF SessionLockInv
  <2>1. ASSUME NEW u \in Users, NEW v \in Users, u # v,
               {user[u].pc, user[v].pc} \subseteq {"inside", "save", "release"},
               LockKey(user[u].op) = LockKey(user[v].op)
        PROVE  user[u].lost \/ user[v].lost
    <3>1. InLock(user[u]) /\ InLock(user[v])
      BY Zenon, <2>1 DEF InLock
    <3> QED
      BY Zenon, <2>1, <3>1, LockAlone
  <2>2. ASSUME ~late PROVE \A s, t \in live : s = t
    BY Zenon, <2>2 DEF OneSession
  <2> QED
    BY Zenon, <2>1, <2>2 DEF SessionExclusive
<1> QED
  BY <1>1, <1>2, <1>3, PTL DEF SessionLockSpec

-----------------------------------------------------------------------------
(* QueryCache.                                                               *)

CachedRows == [version : Int, scope : Scopes \cup {Nobody}]
Active == {"direct", "get", "do", "lead", "wait", "store", "land", "returned"}
Keyed == {"get", "do", "lead", "wait", "store", "land"}
Leading == {"lead", "store", "land"}
QueryCall == [pc : Active \cup {"idle", "members", "del"}, scope : Scopes \cup {Nobody}, primary : BOOLEAN,
              rows : CachedRows, since : Int, keys : SUBSET Scopes]
Database == [primary : Int, replica : Int, next : Int, aborted : SUBSET Int, writer : Caller \cup {Nobody}]

QueryTypes ==
    /\ db \in Database
    /\ redis \in [entries : [Scopes -> CachedRows], index : SUBSET Scopes]
    /\ flight \in [Scopes -> Caller \cup {Nobody}]
    /\ call \in [Caller -> QueryCall]

\* The version a transaction writes is above the committed ones, and neither
\* the primary nor the replica shows one that was rolled back.
Versions ==
    /\ db.replica <= db.primary /\ db.primary < db.next
    /\ db.primary \notin db.aborted /\ db.replica \notin db.aborted
    /\ \A v \in db.aborted : v < db.next
    /\ db.writer # Nobody => db.primary < db.next - 1 /\ db.next - 1 \notin db.aborted

Served(c, r) ==
    /\ r.rows.scope = r.scope
    /\ IF InTx(c) THEN r.rows.version = db.next - 1 ELSE Committed(r.rows.version)
    /\ r.primary => r.rows.version >= r.since

\* A call that has a key reads the replica outside a transaction, leads the
\* flight of its scope or waits for it, and holds committed rows of that scope.
QueryOK(c, r) ==
    /\ r.pc \in Active => r.scope \in Scopes
    /\ r.pc \in Keyed => ~InTx(c) /\ ~r.primary
    /\ InTx(c) => r.pc \in {"idle", "direct", "returned"}
    /\ r.pc \in Leading => flight[r.scope] = c
    /\ r.pc = "wait" => r.keys = {r.scope}
    /\ r.pc \in {"store", "land"} => r.rows.scope = r.scope /\ Committed(r.rows.version)
    /\ r.pc = "direct" /\ r.primary => r.since <= db.primary
    /\ r.pc = "returned" => Served(c, r)

FlightsLed ==
    \A s \in Scopes : flight[s] # Nobody =>
        flight[s] \in Caller /\ call[flight[s]].pc \in Leading /\ call[flight[s]].scope = s

EntriesOK ==
    \A s \in Scopes : redis.entries[s] # NoRows =>
        Committed(redis.entries[s].version) /\ redis.entries[s].scope = s

QueryCacheInv ==
    /\ QueryTypes /\ Versions /\ FlightsLed /\ EntriesOK
    /\ \A c \in Caller : QueryOK(c, call[c])

LEMMA QueryConstants == Idle \in QueryCall /\ Idle.pc = "idle" /\ NoRows \in CachedRows
<1>1. NoRows \in CachedRows
  BY DEF NoRows, CachedRows
<1> QED
  BY <1>1 DEF Idle, QueryCall, Active

LEMMA SetCall ==
    ASSUME QueryTypes, NEW c \in Caller, NEW r \in QueryCall, call' = [call EXCEPT ![c] = r]
    PROVE  /\ call' \in [Caller -> QueryCall] /\ call'[c] = r
           /\ \A d \in Caller \ {c} : call'[d] = call[d]
  BY Zenon DEF QueryTypes

\* One call moves on and stays, or stays not, the leader of its flight.
LEMMA OneQuery ==
    ASSUME QueryCacheInv, NEW c \in Caller, NEW r \in QueryCall, call' = [call EXCEPT ![c] = r],
           UNCHANGED <<db, flight>>, redis' \in [entries : [Scopes -> CachedRows], index : SUBSET Scopes], EntriesOK',
           QueryOK(c, r), r.pc \in Leading <=> call[c].pc \in Leading, r.pc \in Leading => r.scope = call[c].scope
    PROVE  QueryCacheInv'
<1>1. QueryTypes /\ Versions /\ FlightsLed /\ \A d \in Caller : QueryOK(d, call[d])
  BY Zenon DEF QueryCacheInv
<1>2. call' \in [Caller -> QueryCall] /\ call'[c] = r /\ \A d \in Caller \ {c} : call'[d] = call[d]
  BY Zenon, <1>1, SetCall
<1>3. QueryTypes'
  BY Zenon, <1>1, <1>2 DEF QueryTypes
<1>4. Versions'
  BY Zenon, <1>1 DEF Versions
<1>5. ASSUME NEW s \in Scopes, flight'[s] # Nobody
      PROVE  flight'[s] \in Caller /\ call'[flight'[s]].pc \in Leading /\ call'[flight'[s]].scope = s
  <2>1. flight[s] \in Caller /\ call[flight[s]].pc \in Leading /\ call[flight[s]].scope = s /\ flight' = flight
    BY Zenon, <1>1, <1>5 DEF FlightsLed
  <2>2. CASE flight[s] = c
    BY Zenon, <1>2, <2>1, <2>2
  <2>3. CASE flight[s] # c
    BY Zenon, <1>2, <2>1, <2>3
  <2> QED
    BY Zenon, <2>2, <2>3
<1>6. ASSUME NEW d \in Caller PROVE QueryOK(d, call[d])'
  <2>1. QueryOK(d, call'[d])
    BY Zenon, <1>1, <1>2
  <2> QED
    BY Zenon, <2>1 DEF QueryOK, Served, InTx, Committed
<1> QED
  BY Zenon, <1>3, <1>4, <1>5, <1>6 DEF QueryCacheInv, FlightsLed

LEMMA CacheSame ==
    ASSUME QueryCacheInv, UNCHANGED <<db, redis>>
    PROVE  redis' \in [entries : [Scopes -> CachedRows], index : SUBSET Scopes] /\ EntriesOK'
  BY Zenon DEF QueryCacheInv, QueryTypes, EntriesOK, Committed

\* The rows a fetch returns: the transaction's own, or committed ones.
LEMMA FetchedRows ==
    ASSUME QueryCacheInv, NEW c \in Caller, call[c].pc \in Active, NEW R, R = Fetch(c, ReadDB(c, call[c].primary))
    PROVE  /\ R \in CachedRows /\ R.scope = call[c].scope
           /\ IF InTx(c) THEN R.version = db.next - 1 ELSE Committed(R.version)
           /\ call[c].primary => R.version >= db.primary
<1>1. QueryTypes /\ Versions /\ call[c] \in QueryCall
  BY Zenon DEF QueryCacheInv, QueryTypes
<1>2. /\ db.primary \in Int /\ db.replica \in Int /\ db.next \in Int /\ db.writer \in Caller \cup {Nobody}
      /\ call[c].scope \in Scopes \cup {Nobody}
  BY <1>1 DEF QueryTypes, Database, QueryCall
<1>3. PICK n : R = [scope |-> call[c].scope, version |-> n] /\
         n = IF InTx(c) THEN db.next - 1 ELSE IF ReadDB(c, call[c].primary) = "primary" THEN db.primary ELSE db.replica
  BY Zenon DEF Fetch
<1>4. n \in Int /\ (InTx(c) => n = db.next - 1)
  BY <1>2, <1>3
<1>5. R \in CachedRows /\ R.scope = call[c].scope /\ R.version = n
  BY <1>2, <1>3, <1>4 DEF CachedRows
<1>6. ~InTx(c) => n \in {db.primary, db.replica} /\ (call[c].primary => n = db.primary)
  BY Zenon, <1>3 DEF ReadDB
<1>7. Committed(db.primary) /\ Committed(db.replica)
  <2>1. db.primary <= db.primary
    BY <1>2
  <2> QED
    BY Zenon, <1>1, <2>1 DEF Versions, Committed
<1>8. ~InTx(c) => Committed(n)
  BY Zenon, <1>6, <1>7
<1>9. call[c].primary => n >= db.primary
  <2>1. InTx(c) => db.primary < db.next - 1
    BY Zenon, <1>1, QueryCacheAssumption DEF Versions, InTx
  <2>2. CASE InTx(c)
    BY <1>2, <1>4, <2>1, <2>2
  <2>3. CASE ~InTx(c) /\ call[c].primary
    BY <1>2, <1>6, <2>3
  <2> QED
    BY Zenon, <2>2, <2>3
<1> QED
  BY Zenon, <1>4, <1>5, <1>8, <1>9

\* A call becomes idle; nothing is asked of it.
LEMMA CallEnds ==
    ASSUME QueryCacheInv, NEW c \in Caller, call[c].pc \notin Leading, call' = [call EXCEPT ![c] = Idle],
           UNCHANGED <<db, flight>>, redis' \in [entries : [Scopes -> CachedRows], index : SUBSET Scopes], EntriesOK'
    PROVE  QueryCacheInv'
<1>1. QueryOK(c, Idle) /\ Idle.pc \notin Leading
  BY Zenon, QueryConstants DEF QueryOK, Active, Keyed, Leading
<1> QED
  BY Zenon, <1>1, OneQuery, QueryConstants

\* The steps of a query that the caller takes alone.
LEMMA AloneStep ==
    ASSUME QueryCacheInv, NEW c \in Caller, Query(c) \/ FetchDirect(c) \/ GetKeyed(c) \/ LeaderFetches(c) \/ Returned(c)
    PROVE  QueryCacheInv'
<1> USE DEF Active, Keyed, Leading
<1>1. QueryTypes /\ Versions /\ EntriesOK /\ QueryOK(c, call[c]) /\ call[c] \in QueryCall
  BY Zenon DEF QueryCacheInv, QueryTypes
<1>2. UNCHANGED <<db, redis, flight>>
  BY Zenon DEF Query, FetchDirect, GetKeyed, LeaderFetches, Returned
<1>3. redis' \in [entries : [Scopes -> CachedRows], index : SUBSET Scopes] /\ EntriesOK'
  BY Zenon, <1>2, CacheSame
<1>4. CASE Query(c)
  <2>1. PICK s \in Scopes, p \in BOOLEAN :
          /\ call[c].pc = "idle"
          /\ call' = [call EXCEPT ![c] = [Idle EXCEPT !.scope = s, !.primary = p,
                        !.since = IF p THEN db.primary ELSE 0, !.pc = IF CacheKey(c, p) THEN "get" ELSE "direct"]]
    BY Zenon, <1>4 DEF Query
  <2>2. PICK n, q : n = (IF p THEN db.primary ELSE 0) /\ q = IF CacheKey(c, p) THEN "get" ELSE "direct"
    BY Zenon
  <2>3. PICK r : r = [Idle EXCEPT !.scope = s, !.primary = p, !.since = n, !.pc = q]
    BY Zenon
  <2>4. n \in Int /\ db.primary <= db.primary /\ q \in {"get", "direct"}
    BY <1>1, <2>2 DEF QueryTypes, Database
  <2>5. r \in QueryCall /\ r.pc = q /\ r.scope = s /\ r.primary = p /\ r.since = n
    BY <2>3, <2>4, QueryConstants DEF QueryCall, Idle
  <2>6. /\ q = "get" => ~p /\ ~InTx(c)
        /\ p => n = db.primary
    BY Zenon, <2>2 DEF CacheKey
  <2>7. QueryOK(c, r)
    BY Zenon, <2>4, <2>5, <2>6 DEF QueryOK
  <2>8. call' = [call EXCEPT ![c] = r]
    BY Zenon, <2>1, <2>2, <2>3
  <2> QED
    BY Zenon, <1>2, <1>3, <2>1, <2>4, <2>5, <2>7, <2>8, OneQuery
<1>5. CASE FetchDirect(c)
  <2>1. PICK R : R = Fetch(c, ReadDB(c, call[c].primary))
    BY Zenon
  <2>2. call[c].pc = "direct"
    BY Zenon, <1>5 DEF FetchDirect
  <2>3. /\ R \in CachedRows /\ R.scope = call[c].scope
        /\ IF InTx(c) THEN R.version = db.next - 1 ELSE Committed(R.version)
        /\ call[c].primary => R.version >= db.primary
    BY Zenon, <2>1, <2>2, FetchedRows
  <2>4. CASE call' = [call EXCEPT ![c] = Idle]
    BY Zenon, <1>2, <1>3, <2>2, <2>4, CallEnds
  <2>5. CASE call' = Return(c, R)
    <3>1. PICK r : r = [call[c] EXCEPT !.pc = "returned", !.rows = R]
      BY Zenon
    <3>2. /\ r \in QueryCall /\ r.pc = "returned" /\ r.scope = call[c].scope /\ r.primary = call[c].primary
          /\ r.rows = R /\ r.since = call[c].since
      BY <1>1, <2>3, <3>1 DEF QueryCall
    <3>3. call[c].primary => R.version >= call[c].since
      <4>1. call[c].primary => call[c].since <= db.primary
        BY Zenon, <1>1, <2>2 DEF QueryOK
      <4>2. R.version \in Int /\ db.primary \in Int /\ call[c].since \in Int
        BY <1>1, <2>3 DEF CachedRows, QueryTypes, Database, QueryCall
      <4> QED
        BY <2>3, <4>1, <4>2
    <3>4. QueryOK(c, r)
      BY Zenon, <1>1, <2>2, <2>3, <3>2, <3>3 DEF QueryOK, Served
    <3>5. call' = [call EXCEPT ![c] = r]
      BY Zenon, <2>5, <3>1 DEF Return
    <3> QED
      BY Zenon, <1>2, <1>3, <2>2, <3>2, <3>4, <3>5, OneQuery
  <2> QED
    BY Zenon, <1>5, <2>1, <2>4, <2>5 DEF FetchDirect
<1>6. CASE GetKeyed(c)
  <2>1. PICK R : R = redis.entries[call[c].scope]
    BY Zenon
  <2>2. call[c].pc = "get" /\ call[c].scope \in Scopes /\ ~InTx(c) /\ ~call[c].primary
    BY Zenon, <1>1, <1>6 DEF GetKeyed, QueryOK
  <2>3. CASE call' = [call EXCEPT ![c].pc = "do"]
    <3>1. PICK r : r = [call[c] EXCEPT !.pc = "do"]
      BY Zenon
    <3>2. r \in QueryCall /\ r.pc = "do" /\ r.scope = call[c].scope /\ r.primary = call[c].primary
      BY <1>1, <3>1 DEF QueryCall
    <3>3. QueryOK(c, r)
      BY Zenon, <2>2, <3>2 DEF QueryOK
    <3> QED
      BY Zenon, <1>2, <1>3, <2>2, <2>3, <3>1, <3>2, <3>3, OneQuery
  <2>4. CASE R # NoRows /\ call' = Return(c, R)
    <3>1. PICK r : r = [call[c] EXCEPT !.pc = "returned", !.rows = R]
      BY Zenon
    <3>2. R \in CachedRows /\ Committed(R.version) /\ R.scope = call[c].scope
      <4>1. redis.entries \in [Scopes -> CachedRows]
        BY <1>1 DEF QueryTypes
      <4> QED
        BY Zenon, <1>1, <2>1, <2>2, <2>4, <4>1 DEF EntriesOK
    <3>3. /\ r \in QueryCall /\ r.pc = "returned" /\ r.scope = call[c].scope /\ r.primary = call[c].primary
          /\ r.rows = R
      BY <1>1, <3>1, <3>2 DEF QueryCall
    <3>4. QueryOK(c, r)
      BY Zenon, <2>2, <3>2, <3>3 DEF QueryOK, Served
    <3>5. call' = [call EXCEPT ![c] = r]
      BY Zenon, <2>4, <3>1 DEF Return
    <3> QED
      BY Zenon, <1>2, <1>3, <2>2, <3>3, <3>4, <3>5, OneQuery
  <2> QED
    BY Zenon, <1>6, <2>1, <2>3, <2>4 DEF GetKeyed
<1>7. CASE LeaderFetches(c)
  <2>1. PICK R : R = Fetch(c, ReadDB(c, call[c].primary))
    BY Zenon
  <2>2. call[c].pc = "lead" /\ call[c].scope \in Scopes /\ ~InTx(c) /\ ~call[c].primary /\ flight[call[c].scope] = c
    BY Zenon, <1>1, <1>7 DEF LeaderFetches, QueryOK
  <2>3. R \in CachedRows /\ R.scope = call[c].scope /\ Committed(R.version)
    BY Zenon, <2>1, <2>2, FetchedRows
  <2>4. PICK r : r = [call[c] EXCEPT !.pc = "store", !.rows = R]
    BY Zenon
  <2>5. /\ r \in QueryCall /\ r.pc = "store" /\ r.scope = call[c].scope /\ r.primary = call[c].primary
        /\ r.rows = R
    BY <1>1, <2>3, <2>4 DEF QueryCall
  <2>6. QueryOK(c, r)
    BY Zenon, <2>2, <2>3, <2>5 DEF QueryOK
  <2>7. call' = [call EXCEPT ![c] = r]
    BY Zenon, <1>7, <2>1, <2>4 DEF LeaderFetches
  <2> QED
    BY Zenon, <1>2, <1>3, <2>2, <2>5, <2>6, <2>7, OneQuery
<1>8. CASE Returned(c)
  BY Zenon, <1>2, <1>3, <1>8, CallEnds DEF Returned
<1> QED
  BY Zenon, <1>4, <1>5, <1>6, <1>7, <1>8

\* The steps that touch the flight or the cache.
LEMMA DoStep ==
    ASSUME QueryCacheInv, NEW c \in Caller, Do(c)
    PROVE  QueryCacheInv'
<1> USE DEF Active, Keyed, Leading
<1>1. /\ QueryTypes /\ Versions /\ FlightsLed /\ QueryOK(c, call[c]) /\ call[c] \in QueryCall
      /\ \A d \in Caller : QueryOK(d, call[d])
  BY Zenon DEF QueryCacheInv, QueryTypes
<1>2. UNCHANGED <<db, redis>> /\ call[c].pc = "do" /\ call[c].scope \in Scopes /\ ~InTx(c) /\ ~call[c].primary
  BY Zenon, <1>1 DEF Do, QueryOK
<1>3. redis' \in [entries : [Scopes -> CachedRows], index : SUBSET Scopes] /\ EntriesOK'
  BY Zenon, <1>2, CacheSame
<1>4. PICK s \in Scopes : s = call[c].scope
  BY Zenon, <1>2
<1>5. CASE flight[s] # Nobody
  <2>1. PICK r : r = [call[c] EXCEPT !.pc = "wait", !.keys = {s}]
    BY Zenon
  <2>2. r \in QueryCall /\ r.pc = "wait" /\ r.scope = call[c].scope /\ r.primary = call[c].primary /\ r.keys = {s}
    BY <1>1, <2>1 DEF QueryCall
  <2>3. QueryOK(c, r)
    BY Zenon, <1>2, <1>4, <2>2 DEF QueryOK
  <2>4. call' = [call EXCEPT ![c] = r] /\ flight' = flight
    BY Zenon, <1>4, <1>5, <2>1 DEF Do, FlightOf
  <2> QED
    BY Zenon, <1>2, <1>3, <2>2, <2>3, <2>4, OneQuery
<1>6. CASE flight[s] = Nobody
  <2>1. PICK r : r = [call[c] EXCEPT !.pc = "lead"]
    BY Zenon
  <2>2. r \in QueryCall /\ r.pc = "lead" /\ r.scope = call[c].scope /\ r.primary = call[c].primary
    BY <1>1, <2>1 DEF QueryCall
  <2>3. call' = [call EXCEPT ![c] = r] /\ flight' = [flight EXCEPT ![s] = c]
    BY Zenon, <1>4, <1>6, <2>1 DEF Do, FlightOf
  <2>4. call' \in [Caller -> QueryCall] /\ call'[c] = r /\ \A d \in Caller \ {c} : call'[d] = call[d]
    BY Zenon, <1>1, <2>2, <2>3, SetCall
  <2>5. /\ flight' \in [Scopes -> Caller \cup {Nobody}] /\ flight'[s] = c
        /\ \A t \in Scopes \ {s} : flight'[t] = flight[t]
    BY Zenon, <1>1, <2>3 DEF QueryTypes
  <2>6. QueryTypes' /\ Versions'
    BY Zenon, <1>1, <1>2, <1>3, <2>4, <2>5 DEF QueryTypes, Versions
  <2>7. ASSUME NEW t \in Scopes, flight'[t] # Nobody
        PROVE  flight'[t] \in Caller /\ call'[flight'[t]].pc \in Leading /\ call'[flight'[t]].scope = t
    <3>1. CASE t = s
      BY Zenon, <1>4, <2>2, <2>4, <2>5, <3>1
    <3>2. CASE t # s
      <4>1. flight'[t] = flight[t] /\ flight[t] \in Caller /\ call[flight[t]].pc \in Leading /\ call[flight[t]].scope = t
        BY Zenon, <1>1, <2>5, <2>7, <3>2 DEF FlightsLed
      <4>2. flight[t] # c
        BY Zenon, <1>2, <4>1
      <4> QED
        BY Zenon, <2>4, <4>1, <4>2
    <3> QED
      BY Zenon, <3>1, <3>2
  <2>8. ASSUME NEW d \in Caller PROVE QueryOK(d, call[d])'
    <3>1. CASE d = c
      BY Zenon, <1>2, <1>4, <2>2, <2>4, <2>5, <3>1 DEF QueryOK, InTx
    <3>2. CASE d # c
      <4>1. QueryOK(d, call[d]) /\ call'[d] = call[d]
        BY Zenon, <1>1, <2>4, <3>2
      <4>2. call[d].pc \in Leading => call[d].scope \in Scopes /\ flight[call[d].scope] = d
        BY Zenon, <4>1 DEF QueryOK
      <4>3. call[d].pc \in Leading => flight'[call[d].scope] = d
        BY Zenon, <1>6, <2>5, <4>2, QueryCacheAssumption
      <4> QED
        BY Zenon, <1>2, <4>1, <4>3 DEF QueryOK, Served, InTx, Committed
    <3> QED
      BY Zenon, <3>1, <3>2
  <2> QED
    BY Zenon, <1>3, <2>6, <2>7, <2>8 DEF QueryCacheInv, FlightsLed
<1> QED
  BY Zenon, <1>5, <1>6

LEMMA CacheStep ==
    ASSUME QueryCacheInv, NEW c \in Caller, StoreInCache(c) \/ DelMembers(c) \/ DelKeys(c)
    PROVE  QueryCacheInv'
<1> USE DEF Active, Keyed, Leading
<1>1. QueryTypes /\ EntriesOK /\ QueryOK(c, call[c]) /\ call[c] \in QueryCall
  BY Zenon DEF QueryCacheInv, QueryTypes
<1>2. redis.entries \in [Scopes -> CachedRows] /\ redis.index \in SUBSET Scopes /\ UNCHANGED <<db, flight>>
  <2>1. redis.entries \in [Scopes -> CachedRows] /\ redis.index \in SUBSET Scopes
    BY <1>1 DEF QueryTypes
  <2> QED
    BY Zenon, <2>1 DEF StoreInCache, DelMembers, DelKeys
<1>3. CASE StoreInCache(c)
  <2>1. PICK r : r = [call[c] EXCEPT !.pc = "land"]
    BY Zenon
  <2>2. /\ r \in QueryCall /\ r.pc = "land" /\ r.scope = call[c].scope /\ r.primary = call[c].primary
        /\ r.rows = call[c].rows
    BY <1>1, <2>1 DEF QueryCall
  <2>3. /\ call[c].pc = "store" /\ call[c].scope \in Scopes /\ ~InTx(c) /\ ~call[c].primary
        /\ flight[call[c].scope] = c /\ call[c].rows.scope = call[c].scope /\ Committed(call[c].rows.version)
    BY Zenon, <1>1, <1>3 DEF StoreInCache, QueryOK
  <2>4. QueryOK(c, r)
    BY Zenon, <2>2, <2>3 DEF QueryOK
  <2>5. redis' \in [entries : [Scopes -> CachedRows], index : SUBSET Scopes] /\ EntriesOK'
    <3>1. CASE redis' = redis
      BY Zenon, <1>2, <3>1, CacheSame
    <3>2. CASE redis' = [redis EXCEPT !.entries[call[c].scope] = call[c].rows, !.index = @ \cup {call[c].scope}]
      <4>1. PICK E, X : E = [redis.entries EXCEPT ![call[c].scope] = call[c].rows] /\ X = redis.index \cup {call[c].scope}
        BY Zenon
      <4>2. call[c].rows \in CachedRows
        BY <1>1 DEF QueryCall
      <4>3. /\ E \in [Scopes -> CachedRows] /\ X \in SUBSET Scopes /\ E[call[c].scope] = call[c].rows
            /\ \A s \in Scopes \ {call[c].scope} : E[s] = redis.entries[s]
        BY Zenon, <1>2, <2>3, <4>1, <4>2
      <4>4. redis'.entries = E /\ redis' = [entries |-> E, index |-> X]
        BY <1>1, <3>2, <4>1 DEF QueryTypes
      <4>5. ASSUME NEW s \in Scopes, redis'.entries[s] # NoRows
            PROVE  Committed(redis'.entries[s].version) /\ redis'.entries[s].scope = s
        <5>1. CASE s = call[c].scope
          BY Zenon, <2>3, <4>3, <4>4, <5>1
        <5>2. CASE s # call[c].scope
          BY Zenon, <1>1, <4>3, <4>4, <4>5, <5>2 DEF EntriesOK
        <5> QED
          BY Zenon, <5>1, <5>2
      <4>6. EntriesOK'
        BY Zenon, <1>2, <4>5 DEF EntriesOK, Committed
      <4>7. redis' \in [entries : [Scopes -> CachedRows], index : SUBSET Scopes]
        BY <4>3, <4>4
      <4> QED
        BY Zenon, <4>6, <4>7
    <3> QED
      BY Zenon, <1>3, <3>1, <3>2 DEF StoreInCache
  <2>6. call' = [call EXCEPT ![c] = r]
    BY Zenon, <1>3, <2>1 DEF StoreInCache
  <2> QED
    BY Zenon, <1>2, <2>2, <2>3, <2>4, <2>5, <2>6, OneQuery
<1>4. CASE DelMembers(c)
  <2>1. redis' \in [entries : [Scopes -> CachedRows], index : SUBSET Scopes] /\ EntriesOK' /\ call[c].pc = "members"
    BY Zenon, <1>2, <1>4, CacheSame DEF DelMembers
  <2>2. CASE call' = [call EXCEPT ![c] = Idle]
    BY Zenon, <1>2, <2>1, <2>2, CallEnds
  <2>3. CASE call' = [call EXCEPT ![c].pc = "del", ![c].keys = redis.index]
    <3>1. PICK r : r = [call[c] EXCEPT !.pc = "del", !.keys = redis.index]
      BY Zenon
    <3>2. r \in QueryCall /\ r.pc = "del"
      BY <1>1, <1>2, <3>1 DEF QueryCall
    <3>3. ~InTx(c)
      BY Zenon, <1>1, <2>1 DEF QueryOK
    <3>4. QueryOK(c, r)
      BY Zenon, <3>2, <3>3 DEF QueryOK
    <3>5. call' = [call EXCEPT ![c] = r]
      BY Zenon, <2>3, <3>1
    <3>6. r.pc \notin Leading /\ call[c].pc \notin Leading
      BY Zenon, <2>1, <3>2
    <3> HIDE DEF Active, Keyed, Leading
    <3> QED
      BY Zenon, <1>2, <2>1, <3>2, <3>4, <3>5, <3>6, OneQuery
  <2> QED
    BY Zenon, <1>4, <2>2, <2>3 DEF DelMembers
<1>5. CASE DelKeys(c)
  <2>1. PICK E : E = [s \in Scopes |-> IF s \in call[c].keys THEN NoRows ELSE redis.entries[s]]
    BY Zenon
  <2>2. E \in [Scopes -> CachedRows] /\ \A s \in Scopes : E[s] = NoRows \/ E[s] = redis.entries[s]
    BY Zenon, <1>2, <2>1, QueryConstants
  <2>3. redis' = [entries |-> E, index |-> {}] /\ call[c].pc = "del" /\ call' = [call EXCEPT ![c] = Idle]
    BY Zenon, <1>5, <2>1 DEF DelKeys
  <2>4. redis'.entries = E /\ redis' \in [entries : [Scopes -> CachedRows], index : SUBSET Scopes]
    BY <2>2, <2>3
  <2>5. EntriesOK'
    BY Zenon, <1>1, <1>2, <2>2, <2>4 DEF EntriesOK, Committed
  <2> QED
    BY Zenon, <1>2, <2>3, <2>4, <2>5, CallEnds
<1> QED
  BY Zenon, <1>3, <1>4, <1>5

\* The flight a caller leads is the one of its scope, and it is one.
LEMMA LedByScope ==
    ASSUME QueryCacheInv, NEW c \in Caller, call[c].pc \in Leading
    PROVE  LedBy(c) = call[c].scope /\ call[c].scope \in Scopes /\ flight[call[c].scope] = c
<1>1. call[c].scope \in Scopes /\ flight[call[c].scope] = c
  BY Zenon DEF QueryCacheInv, QueryOK, Leading, Active
<1>2. LedBy(c) \in Scopes /\ flight[LedBy(c)] = c
  BY Zenon, <1>1 DEF LedBy
<1>3. call[c].scope = LedBy(c)
  BY Zenon, <1>2, QueryCacheAssumption DEF QueryCacheInv, FlightsLed
<1> QED
  BY Zenon, <1>1, <1>3

\* The flight ends for its leader and the callers that wait for it.
LEMMA FlightEnds ==
    ASSUME QueryCacheInv, NEW c \in Caller, call[c].pc \in Leading, UNCHANGED <<db, redis>>,
           flight' = [flight EXCEPT ![LedBy(c)] = Nobody], call' \in [Caller -> QueryCall],
           \A d \in Caller : IF d = c \/ d \in Followers(LedBy(c))
                             THEN call'[d].pc \notin Leading /\ QueryOK(d, call'[d])
                             ELSE call'[d] = call[d]
    PROVE  QueryCacheInv'
<1>1. QueryTypes /\ Versions /\ FlightsLed /\ \A d \in Caller : QueryOK(d, call[d])
  BY Zenon DEF QueryCacheInv
<1>2. PICK s \in Scopes : s = LedBy(c) /\ s = call[c].scope /\ flight[s] = c
  BY Zenon, LedByScope
<1>3. /\ flight' \in [Scopes -> Caller \cup {Nobody}] /\ flight'[s] = Nobody
      /\ \A t \in Scopes \ {s} : flight'[t] = flight[t]
  BY Zenon, <1>1, <1>2 DEF QueryTypes
<1>4. redis' \in [entries : [Scopes -> CachedRows], index : SUBSET Scopes] /\ EntriesOK'
  BY Zenon, CacheSame
<1>5. QueryTypes' /\ Versions'
  BY Zenon, <1>1, <1>3, <1>4 DEF QueryTypes, Versions
<1>6. ASSUME NEW t \in Scopes, flight'[t] # Nobody
      PROVE  flight'[t] \in Caller /\ call'[flight'[t]].pc \in Leading /\ call'[flight'[t]].scope = t
  <2>1. t # s /\ flight'[t] = flight[t]
    BY Zenon, <1>3, <1>6
  <2>2. flight[t] \in Caller /\ call[flight[t]].pc \in Leading /\ call[flight[t]].scope = t
    BY Zenon, <1>1, <1>6, <2>1 DEF FlightsLed
  <2>3. flight[t] # c /\ flight[t] \notin Followers(LedBy(c))
    BY Zenon, <1>2, <2>1, <2>2 DEF Followers, Leading
  <2> QED
    BY Zenon, <2>1, <2>2, <2>3
<1>7. ASSUME NEW d \in Caller PROVE QueryOK(d, call[d])'
  <2>1. CASE d = c \/ d \in Followers(LedBy(c))
    <3>1. call'[d].pc \notin Leading /\ QueryOK(d, call'[d])
      BY Zenon, <2>1
    <3> QED
      BY Zenon, <3>1 DEF QueryOK, Served, InTx, Committed
  <2>2. CASE ~(d = c \/ d \in Followers(LedBy(c)))
    <3>1. call'[d] = call[d] /\ QueryOK(d, call[d]) /\ d # c
      BY Zenon, <1>1, <2>2
    <3>2. call[d].pc \in Leading => call[d].scope \in Scopes /\ flight[call[d].scope] = d
      BY Zenon, <3>1 DEF QueryOK, Leading, Active
    <3>3. call[d].pc \in Leading => flight'[call[d].scope] = d
      BY Zenon, <1>2, <1>3, <3>1, <3>2
    <3> QED
      BY Zenon, <3>1, <3>3 DEF QueryOK, Served, InTx, Committed
  <2> QED
    BY Zenon, <2>1, <2>2
<1> QED
  BY Zenon, <1>4, <1>5, <1>6, <1>7 DEF QueryCacheInv, FlightsLed

LEMMA LandStep ==
    ASSUME QueryCacheInv, NEW c \in Caller, LeaderFails(c) \/ FlightLands(c)
    PROVE  QueryCacheInv'
<1>1. QueryTypes /\ \A d \in Caller : QueryOK(d, call[d]) /\ call[d] \in QueryCall
  BY Zenon DEF QueryCacheInv, QueryTypes
<1>2. /\ call[c].pc \in Leading /\ UNCHANGED <<db, redis>>
      /\ flight' = [flight EXCEPT ![LedBy(c)] = Nobody]
  BY Zenon DEF LeaderFails, FlightLands, Leading
<1>3. CASE LeaderFails(c)
  <2>1. call' \in [Caller -> QueryCall]
    BY Zenon, <1>1, <1>3, QueryConstants DEF LeaderFails
  <2>2. \A d \in Caller : QueryOK(d, Idle) /\ Idle.pc \notin Leading
    BY Zenon, QueryConstants DEF QueryOK, Active, Keyed, Leading
  <2>3. \A d \in Caller : call'[d] = IF d = c \/ d \in Followers(LedBy(c)) THEN Idle ELSE call[d]
    BY Zenon, <1>3 DEF LeaderFails
  <2>4. \A d \in Caller : IF d = c \/ d \in Followers(LedBy(c))
                          THEN call'[d].pc \notin Leading /\ QueryOK(d, call'[d])
                          ELSE call'[d] = call[d]
    BY Zenon, <2>2, <2>3
  <2> QED
    BY Zenon, <1>2, <2>1, <2>4, FlightEnds
<1>4. CASE FlightLands(c)
  <2>1. PICK R : R = call[c].rows
    BY Zenon
  <2>2. R \in CachedRows
    BY <1>1, <2>1 DEF QueryCall
  <2>3. call[c].pc = "land" /\ R.scope = call[c].scope /\ Committed(R.version) /\ ~InTx(c) /\ ~call[c].primary
    BY Zenon, <1>1, <1>4, <2>1 DEF FlightLands, QueryOK, Keyed
  <2>4. ASSUME NEW d \in Caller
        PROVE  /\ [call[d] EXCEPT !.pc = "returned", !.rows = R] \in QueryCall
               /\ [call[d] EXCEPT !.pc = "returned", !.rows = R].pc = "returned"
               /\ [call[d] EXCEPT !.pc = "returned", !.rows = R].rows = R
               /\ [call[d] EXCEPT !.pc = "returned", !.rows = R].scope = call[d].scope
               /\ [call[d] EXCEPT !.pc = "returned", !.rows = R].primary = call[d].primary
    <3>1. call[d] \in QueryCall
      BY Zenon, <1>1
    <3> QED
      BY <2>2, <3>1 DEF QueryCall, Active
  <2>5. \A d \in Caller : call'[d] = IF d = c \/ d \in Followers(LedBy(c))
                                     THEN [call[d] EXCEPT !.pc = "returned", !.rows = R] ELSE call[d]
    BY Zenon, <1>4, <2>1 DEF FlightLands
  <2>6. call' \in [Caller -> QueryCall]
    BY Zenon, <1>1, <1>4, <2>1, <2>4 DEF FlightLands
  <2>7. LedBy(c) = call[c].scope /\ call[c].scope \in Scopes
    BY Zenon, <1>2, LedByScope
  <2>8. ASSUME NEW d \in Caller, d = c \/ d \in Followers(LedBy(c))
        PROVE  call[d].scope = call[c].scope /\ ~InTx(d) /\ ~call[d].primary
    <3>1. CASE d = c
      BY Zenon, <2>3, <3>1
    <3>2. CASE d \in Followers(LedBy(c))
      BY Zenon, <1>1, <2>7, <3>2 DEF Followers, QueryOK, Keyed
    <3> QED
      BY Zenon, <2>8, <3>1, <3>2
  <2>9. ASSUME NEW d \in Caller, d = c \/ d \in Followers(LedBy(c))
        PROVE  call'[d].pc \notin Leading /\ QueryOK(d, call'[d])
    <3>1. /\ call'[d].pc = "returned" /\ call'[d].rows = R /\ call'[d].scope = call[d].scope
          /\ call'[d].primary = call[d].primary
      BY Zenon, <2>4, <2>5, <2>9
    <3>2. call[d].scope = call[c].scope /\ ~InTx(d) /\ ~call[d].primary
      BY Zenon, <2>8, <2>9
    <3> QED
      BY Zenon, <2>3, <2>7, <3>1, <3>2 DEF QueryOK, Served, Keyed, Leading
  <2>10. \A d \in Caller : IF d = c \/ d \in Followers(LedBy(c))
                           THEN call'[d].pc \notin Leading /\ QueryOK(d, call'[d])
                           ELSE call'[d] = call[d]
    BY Zenon, <2>5, <2>9
  <2> QED
    BY Zenon, <1>2, <2>6, <2>10, FlightEnds
<1> QED
  BY Zenon, <1>3, <1>4

\* A write, its end and the replica: what was committed stays so, and what a
\* call was promised of its transaction or of its primary stays true.
LEMMA DatabaseMoves ==
    ASSUME QueryCacheInv, db' \in Database, Versions', UNCHANGED <<redis, flight>>, db.primary <= db'.primary,
           \A v \in Int : Committed(v) => Committed(v)',
           NEW c \in Caller \cup {Nobody}, c # Nobody => call[c].pc = "idle",
           \A d \in Caller \ {c} : (InTx(d)' <=> InTx(d)) /\ (InTx(d) => db'.next = db.next),
           NEW r \in QueryCall, IF c = Nobody THEN call' = call ELSE call' = [call EXCEPT ![c] = r],
           r.pc \in {"idle", "members"}, r.pc = "members" => db'.writer # c
    PROVE  QueryCacheInv'
<1> USE DEF Active, Keyed, Leading
<1>1. /\ QueryTypes /\ Versions /\ FlightsLed /\ EntriesOK /\ db \in Database
      /\ \A d \in Caller : QueryOK(d, call[d]) /\ call[d] \in QueryCall
  BY Zenon DEF QueryCacheInv, QueryTypes
<1>2. /\ db.primary \in Int /\ db'.primary \in Int
      /\ \A s \in Scopes : redis.entries[s].version \in Int
      /\ \A d \in Caller : call[d].rows.version \in Int /\ call[d].since \in Int
  <2>1. db.primary \in Int /\ db'.primary \in Int
    BY <1>1 DEF Database
  <2>2. redis.entries \in [Scopes -> CachedRows]
    BY <1>1 DEF QueryTypes
  <2>3. \A s \in Scopes : redis.entries[s].version \in Int
    BY <2>2 DEF CachedRows
  <2>4. \A d \in Caller : call[d].rows.version \in Int /\ call[d].since \in Int
    BY <1>1 DEF QueryCall, CachedRows
  <2> QED
    BY Zenon, <2>1, <2>3, <2>4
<1>3. call' \in [Caller -> QueryCall] /\ (\A d \in Caller \ {c} : call'[d] = call[d]) /\ (c # Nobody => call'[c] = r)
  <2>1. CASE c = Nobody
    BY Zenon, <1>1, <2>1 DEF QueryTypes
  <2>2. CASE c # Nobody
    BY Zenon, <1>1, <2>2, SetCall
  <2> QED
    BY Zenon, <2>1, <2>2
<1>4. QueryTypes'
  BY Zenon, <1>1, <1>3 DEF QueryTypes
<1>5. FlightsLed'
  <2>1. ASSUME NEW s \in Scopes, flight[s] # Nobody
        PROVE  flight[s] \in Caller /\ call'[flight[s]].pc \in Leading /\ call'[flight[s]].scope = s
    <3>1. flight[s] \in Caller /\ call[flight[s]].pc \in Leading /\ call[flight[s]].scope = s
      BY Zenon, <1>1, <2>1 DEF FlightsLed
    <3>2. flight[s] # c
      BY Zenon, <2>1, <3>1
    <3> QED
      BY Zenon, <1>3, <3>1, <3>2
  <2> QED
    BY Zenon, <2>1 DEF FlightsLed
<1>6. EntriesOK'
  BY Zenon, <1>1, <1>2 DEF EntriesOK
<1>7. ASSUME NEW d \in Caller PROVE QueryOK(d, call[d])'
  <2>1. CASE d = c
    <3>1. call'[d] = r /\ (InTx(d)' => r.pc = "idle")
      BY Zenon, <1>3, <2>1, QueryCacheAssumption DEF InTx
    <3> QED
      BY Zenon, <3>1 DEF QueryOK
  <2>2. CASE d # c
    <3>1. /\ call'[d] = call[d] /\ QueryOK(d, call[d]) /\ (InTx(d)' <=> InTx(d)) /\ (InTx(d) => db'.next = db.next)
      BY Zenon, <1>1, <1>3, <2>2
    <3>2. call[d].since <= db.primary => call[d].since <= db'.primary
      BY <1>2
    <3>3. Committed(call[d].rows.version) => Committed(call[d].rows.version)'
      BY Zenon, <1>2, <3>1
    <3>4. Served(d, call[d]) => Served(d, call[d])'
      BY Zenon, <3>1, <3>3 DEF Served
    <3> QED
      BY Zenon, <3>1, <3>2, <3>3, <3>4 DEF QueryOK
  <2> QED
    BY Zenon, <2>1, <2>2
<1> QED
  BY Zenon, <1>4, <1>5, <1>6, <1>7 DEF QueryCacheInv

LEMMA DatabaseStep ==
    ASSUME QueryCacheInv, \/ \E c \in Caller : Write(c) \/ Rollback(c) \/ Commit(c)
                          \/ Replicate
    PROVE  QueryCacheInv'
<1>1. QueryTypes /\ Versions /\ db \in Database /\ \A d \in Caller : QueryOK(d, call[d]) /\ call[d] \in QueryCall
  BY Zenon DEF QueryCacheInv, QueryTypes
<1>2. PICK p, q, n, A, w : db = [primary |-> p, replica |-> q, next |-> n, aborted |-> A, writer |-> w]
  BY <1>1 DEF Database
<1>3. /\ db.primary = p /\ db.replica = q /\ db.next = n /\ db.aborted = A /\ db.writer = w
      /\ p \in Int /\ q \in Int /\ n \in Int /\ A \in SUBSET Int /\ w \in Caller \cup {Nobody}
  BY <1>1, <1>2 DEF Database
<1>4. /\ q <= p /\ p < n /\ p \notin A /\ q \notin A /\ (\A v \in A : v < n)
      /\ w # Nobody => p < n - 1 /\ n - 1 \notin A
  BY Zenon, <1>1, <1>3 DEF Versions
<1>5. ASSUME NEW p2 \in Int, NEW q2 \in Int, NEW n2 \in Int, NEW A2 \in SUBSET Int, NEW w2 \in Caller \cup {Nobody},
             db' = [primary |-> p2, replica |-> q2, next |-> n2, aborted |-> A2, writer |-> w2]
      PROVE  /\ db' \in Database
             /\ db'.primary = p2 /\ db'.replica = q2 /\ db'.next = n2 /\ db'.aborted = A2 /\ db'.writer = w2
  BY <1>5 DEF Database
<1>6. ASSUME NEW c \in Caller, Write(c) PROVE QueryCacheInv'
  <2>1. w = Nobody /\ call[c].pc = "idle" /\ UNCHANGED <<redis, flight, call>>
    BY Zenon, <1>3, <1>6 DEF Write
  <2>2. db' = [primary |-> p, replica |-> q, next |-> n + 1, aborted |-> A, writer |-> c]
    BY <1>2, <1>6 DEF Write
  <2>3. PICK m \in Int : m = n + 1
    BY <1>3
  <2>4. /\ db' \in Database
        /\ db'.primary = p /\ db'.replica = q /\ db'.next = m /\ db'.aborted = A /\ db'.writer = c
    BY Zenon, <1>3, <1>5, <2>2, <2>3
  <2>5. p <= p /\ p < m /\ (\A v \in A : v < m) /\ p < m - 1 /\ m - 1 \notin A
    BY <1>3, <1>4, <2>3
  <2>6. Versions'
    BY Zenon, <1>4, <2>4, <2>5 DEF Versions
  <2>7. \A v \in Int : Committed(v) => Committed(v)'
    BY Zenon, <1>3, <2>4 DEF Committed
  <2>8. \A d \in Caller \ {c} : ~InTx(d) /\ ~InTx(d)'
    BY Zenon, <1>3, <2>1, <2>4, QueryCacheAssumption DEF InTx
  <2>9. PICK r \in QueryCall : call' = [call EXCEPT ![c] = r] /\ r.pc = "idle"
    BY Zenon, <1>1, <2>1 DEF QueryTypes
  <2> QED
    BY Zenon, <1>3, <2>1, <2>4, <2>5, <2>6, <2>7, <2>8, <2>9, QueryCacheAssumption, DatabaseMoves
<1>7. ASSUME NEW c \in Caller, Rollback(c) PROVE QueryCacheInv'
  <2>1. w = c /\ call[c].pc = "idle" /\ UNCHANGED <<redis, flight, call>>
    BY Zenon, <1>3, <1>7 DEF Rollback, InTx
  <2>2. db' = [primary |-> p, replica |-> q, next |-> n, aborted |-> A \cup {n - 1}, writer |-> Nobody]
    BY <1>2, <1>7 DEF Rollback
  <2>3. PICK m \in Int : m = n - 1 /\ m < n
    BY <1>3
  <2>4. PICK B \in SUBSET Int : B = A \cup {m}
    BY Zenon, <1>3, <2>3
  <2>5. /\ db' \in Database
        /\ db'.primary = p /\ db'.replica = q /\ db'.next = n /\ db'.aborted = B /\ db'.writer = Nobody
    BY Zenon, <1>3, <1>5, <2>2, <2>3, <2>4
  <2>6. p <= p /\ p < m /\ \A v \in Int : v <= p => v # m
    BY <1>3, <1>4, <2>1, <2>3, QueryCacheAssumption
  <2>7. Versions'
    BY Zenon, <1>3, <1>4, <2>3, <2>4, <2>5, <2>6 DEF Versions
  <2>8. \A v \in Int : Committed(v) => Committed(v)'
    BY Zenon, <1>3, <2>4, <2>5, <2>6 DEF Committed
  <2>9. \A d \in Caller \ {c} : ~InTx(d) /\ ~InTx(d)'
    BY Zenon, <1>3, <2>1, <2>5, QueryCacheAssumption DEF InTx
  <2>10. call' = [call EXCEPT ![c] = call[c]] /\ call[c] \in QueryCall
    BY Zenon, <1>1, <2>1 DEF QueryTypes
  <2> QED
    BY Zenon, <1>3, <2>1, <2>5, <2>6, <2>7, <2>8, <2>9, <2>10, QueryCacheAssumption, DatabaseMoves
<1>8. ASSUME NEW c \in Caller, Commit(c) PROVE QueryCacheInv'
  <2>1. w = c /\ call[c].pc = "idle" /\ UNCHANGED <<redis, flight>>
    BY Zenon, <1>3, <1>8 DEF Commit, InTx
  <2>2. db' = [primary |-> n - 1, replica |-> q, next |-> n, aborted |-> A, writer |-> Nobody]
    BY <1>2, <1>8 DEF Commit
  <2>3. PICK m \in Int : m = n - 1 /\ m < n /\ p < m /\ m \notin A
    BY <1>3, <1>4, <2>1, QueryCacheAssumption
  <2>4. /\ db' \in Database
        /\ db'.primary = m /\ db'.replica = q /\ db'.next = n /\ db'.aborted = A /\ db'.writer = Nobody
    BY Zenon, <1>3, <1>5, <2>2, <2>3
  <2>5. p <= m /\ q <= m /\ \A v \in Int : v <= p => v <= m
    BY <1>3, <1>4, <2>3
  <2>6. Versions'
    BY Zenon, <1>4, <2>3, <2>4, <2>5 DEF Versions
  <2>7. \A v \in Int : Committed(v) => Committed(v)'
    BY Zenon, <1>3, <2>4, <2>5 DEF Committed
  <2>8. \A d \in Caller \ {c} : ~InTx(d) /\ ~InTx(d)'
    BY Zenon, <1>3, <2>1, <2>4, QueryCacheAssumption DEF InTx
  <2>9. PICK r : r = [call[c] EXCEPT !.pc = "members"]
    BY Zenon
  <2>10. r \in QueryCall /\ r.pc = "members"
    <3>1. call[c] \in QueryCall
      BY Zenon, <1>1
    <3> QED
      BY <2>9, <3>1 DEF QueryCall
  <2>11. call' = [call EXCEPT ![c] = r]
    BY Zenon, <1>8, <2>9 DEF Commit
  <2> QED
    BY Zenon, <1>3, <2>1, <2>4, <2>5, <2>6, <2>7, <2>8, <2>10, <2>11, QueryCacheAssumption, DatabaseMoves
<1>9. CASE Replicate
  <2>1. PICK v \in (q + 1 .. p) \ A : db' = [db EXCEPT !.replica = v]
    BY Zenon, <1>3, <1>9 DEF Replicate
  <2>2. v \in Int /\ v <= p /\ p <= p /\ v \notin A
    BY <1>3, <2>1
  <2>3. db' = [primary |-> p, replica |-> v, next |-> n, aborted |-> A, writer |-> w]
    BY <1>2, <2>1
  <2>4. /\ db' \in Database
        /\ db'.primary = p /\ db'.replica = v /\ db'.next = n /\ db'.aborted = A /\ db'.writer = w
    BY Zenon, <1>3, <1>5, <2>2, <2>3
  <2>5. Versions'
    BY Zenon, <1>4, <2>2, <2>4 DEF Versions
  <2>6. \A u \in Int : Committed(u) => Committed(u)'
    BY Zenon, <1>3, <2>4 DEF Committed
  <2>7. \A d \in Caller : (InTx(d)' <=> InTx(d)) /\ (InTx(d) => db'.next = db.next)
    BY Zenon, <1>3, <2>4 DEF InTx
  <2>8. UNCHANGED <<redis, flight, call>>
    BY Zenon, <1>9 DEF Replicate
  <2> QED
    BY Zenon, <1>3, <2>2, <2>4, <2>5, <2>6, <2>7, <2>8, QueryConstants, DatabaseMoves
<1> QED
  BY Zenon, <1>6, <1>7, <1>8, <1>9

LEMMA EntryExpiresStep ==
    ASSUME QueryCacheInv, EntryExpires
    PROVE  QueryCacheInv'
<1>1. QueryTypes /\ EntriesOK
  BY Zenon DEF QueryCacheInv
<1>2. redis.entries \in [Scopes -> CachedRows] /\ redis.index \in SUBSET Scopes
  BY <1>1 DEF QueryTypes
<1>3. PICK s \in Scopes : redis' = [redis EXCEPT !.entries[s] = NoRows]
  BY Zenon DEF EntryExpires
<1>4. PICK E : E = [redis.entries EXCEPT ![s] = NoRows]
  BY Zenon
<1>5. E \in [Scopes -> CachedRows] /\ \A t \in Scopes : E[t] = NoRows \/ E[t] = redis.entries[t]
  BY Zenon, <1>2, <1>4, QueryConstants
<1>6. redis'.entries = E /\ redis' = [entries |-> E, index |-> redis.index]
  BY <1>1, <1>3, <1>4 DEF QueryTypes
<1>7. redis' \in [entries : [Scopes -> CachedRows], index : SUBSET Scopes]
  BY <1>2, <1>5, <1>6
<1>8. UNCHANGED <<db, flight, call>>
  BY Zenon DEF EntryExpires
<1>9. EntriesOK'
  BY Zenon, <1>1, <1>5, <1>6, <1>8 DEF EntriesOK, Committed
<1>10. QueryTypes'
  BY Zenon, <1>1, <1>7, <1>8 DEF QueryTypes
<1> QED
  BY Zenon, <1>8, <1>9, <1>10 DEF QueryCacheInv, Versions, FlightsLed, QueryOK, Served, InTx, Committed

\* With any callers, scopes and writes, in any order of flights, transactions,
\* evictions and replication, a query is answered rows of its scope that are
\* committed or its own transaction's, and one that asked for the primary
\* never misses a commit that came before it.
THEOREM QueriesServed == QueryCacheSpec => []RowsServed
<1>1. QueryCacheInit => QueryCacheInv
  <2> SUFFICES ASSUME QueryCacheInit PROVE QueryCacheInv
    OBVIOUS
  <2>1. db \in Database /\ db.primary = 0 /\ db.replica = 0 /\ db.next = 1 /\ db.aborted = {} /\ db.writer = Nobody
    BY DEF QueryCacheInit, Database
  <2>2. 0 <= 0 /\ 0 < 1
    OBVIOUS
  <2>3. Versions
    BY Zenon, <2>1, <2>2 DEF Versions
  <2>4. PICK E : E = [s \in Scopes |-> NoRows]
    BY Zenon
  <2>5. E \in [Scopes -> CachedRows] /\ \A s \in Scopes : E[s] = NoRows
    BY Zenon, <2>4, QueryConstants
  <2>6. redis \in [entries : [Scopes -> CachedRows], index : SUBSET Scopes] /\ redis.entries = E
    BY <2>4, <2>5 DEF QueryCacheInit
  <2>7. call \in [Caller -> QueryCall] /\ \A c \in Caller : call[c] = Idle
    BY Zenon, QueryConstants DEF QueryCacheInit
  <2>8. flight \in [Scopes -> Caller \cup {Nobody}] /\ \A s \in Scopes : flight[s] = Nobody
    BY Zenon DEF QueryCacheInit
  <2>9. \A c \in Caller : QueryOK(c, call[c])
    BY Zenon, <2>7, QueryConstants DEF QueryOK, Active, Keyed, Leading
  <2> QED
    BY Zenon, <2>1, <2>3, <2>5, <2>6, <2>7, <2>8, <2>9 DEF QueryCacheInv, QueryTypes, EntriesOK, FlightsLed
<1>2. QueryCacheInv /\ [QueryCacheNext]_qcVars => QueryCacheInv'
  <2> SUFFICES ASSUME QueryCacheInv, [QueryCacheNext]_qcVars PROVE QueryCacheInv'
    OBVIOUS
  <2>1. CASE UNCHANGED qcVars
    BY Zenon, <2>1 DEF qcVars, QueryCacheInv, QueryTypes, Versions, FlightsLed, EntriesOK, QueryOK, Served, InTx, Committed
  <2> QED
    BY Zenon, <2>1, AloneStep, DoStep, CacheStep, LandStep, DatabaseStep, EntryExpiresStep DEF QueryCacheNext
<1>3. QueryCacheInv => RowsServed
  BY Zenon DEF QueryCacheInv, EntriesOK, QueryOK, Served, RowsServed
<1> QED
  BY <1>1, <1>2, <1>3, PTL DEF QueryCacheSpec

-----------------------------------------------------------------------------
(* Transaction: what Execute promises, for any programs of the callers.    *)
(*                                                                         *)
(* A step moves one call, the innermost, or pushes a new one above it.     *)
(* The frames below stay as they are: each is bound to an open transaction *)
(* of its pool, its own or one further down, and every other transaction   *)
(* of its call is rolled back.  A pool has one open transaction, so the    *)
(* innermost binding TxFor picks is the only one.                          *)

Pools == UNION {{p[k].db : k \in {k \in 1 .. Len(p) : p[k].op \in {"execute", "write"}}} : p \in Programs}
FrameRecord == [at : Nat, call : Nat, attempt : Nat, tx : Nat]
TxRecord == [db : Pools, call : Nat, writes : SUBSET [at : Nat, db : Pools],
             status : {"open", "committed", "rolledBack", "lost"}]
CallResult == {"open", "nil", "err", "lost", "panic"}

TransactionTypes ==
    /\ program \in Programs \cup {<<>>} /\ pc \in Nat \ {0}
    /\ stack \in Seq(FrameRecord) /\ txs \in Seq(TxRecord) /\ results \in Seq(CallResult)
    /\ mode \in {"start", "run", "fail", "panic", "attemptFailed"}
    /\ fault \in [retryable : BOOLEAN, lost : BOOLEAN]

\* The transactions a call has opened, and its last.
OwnTx(c) == {t \in 1 .. Len(txs) : txs[t].call = c}
LastTx(c, t) == t \in OwnTx(c) /\ \A u \in OwnTx(c) : u <= t

\* The frame of a call whose function runs, or called another: its pool's
\* transaction is bound by it or by a frame below.
Working(i) == i # Len(stack) \/ mode = "run"
Bound(i, pool) == stack[i].tx # 0 /\ txs[stack[i].tx].db = pool
FrameOK(i) ==
    /\ stack[i].call \in 1 .. Len(results) /\ results[stack[i].call] = "open"
    /\ stack[i].at \in 1 .. Len(program) /\ program[stack[i].at].op = "execute"
    /\ stack[i].tx # 0 => /\ LastTx(stack[i].call, stack[i].tx)
                          /\ txs[stack[i].tx].status = "open"
    /\ Working(i) /\ stack[i].tx = 0 => OwnTx(stack[i].call) = {}
    /\ Working(i) => \E j \in 1 .. i : Bound(j, program[stack[i].at].db)

\* What a call that has not returned left behind: its attempts are rolled back,
\* and a commit that was lost is the last and will not be repeated.
OpenOK(i) ==
    \A t \in OwnTx(stack[i].call) :
      /\ txs[t].status \in {"open", "rolledBack", "lost"}
      /\ txs[t].status = "open" => t = stack[i].tx
      /\ txs[t].status = "lost" => /\ i = Len(stack) /\ mode = "attemptFailed" /\ fault.lost /\ ~fault.retryable
                                   /\ LastTx(stack[i].call, t)

\* What a call that returned leaves behind.
ReturnedOK(c) ==
    \A t \in OwnTx(c) :
      /\ txs[t].status # "open"
      /\ txs[t].status = "committed" => LastTx(c, t) /\ results[c] = "nil"
      /\ results[c] = "nil" /\ LastTx(c, t) => txs[t].status = "committed"
      /\ txs[t].status = "lost" => LastTx(c, t) /\ results[c] = "lost"

TxOK(t) == txs[t].call \in 1 .. Len(results) /\ \A w \in txs[t].writes : w.db = txs[t].db

\* One frame a call, and one transaction a pool, among the frames 1 .. k.
OneEach(k) ==
    \A i, j \in 1 .. k :
      /\ stack[i].call = stack[j].call => i = j
      /\ stack[i].tx # 0 /\ Bound(j, txs[stack[i].tx].db) => i = j

TransactionInv ==
    /\ TransactionTypes /\ OneEach(Len(stack))
    /\ mode = "start" => stack = <<>> /\ txs = <<>> /\ results = <<>>
    /\ mode = "attemptFailed" => stack # <<>> /\ Top.tx = 0
    /\ \A i \in 1 .. Len(stack) : FrameOK(i) /\ OpenOK(i)
    /\ \A c \in 1 .. Len(results) : results[c] # "open" => ReturnedOK(c)
    /\ \A t \in 1 .. Len(txs) : TxOK(t)
    /\ \A w \in auto : ~w.inside

\* Sequences: appending, dropping and replacing the last element.
LEMMA SeqAt == ASSUME NEW S, NEW s \in Seq(S), NEW i \in 1 .. Len(s) PROVE s[i] \in S
  OBVIOUS

LEMMA SeqPut ==
    ASSUME NEW S, NEW s \in Seq(S), NEW i \in 1 .. Len(s), NEW x \in S, NEW q, q = [s EXCEPT ![i] = x]
    PROVE  q \in Seq(S) /\ Len(q) = Len(s) /\ q[i] = x /\ \A j \in 1 .. Len(s) : j # i => q[j] = s[j]
  OBVIOUS

LEMMA SeqPush ==
    ASSUME NEW S, NEW s \in Seq(S), NEW x \in S
    PROVE  /\ Append(s, x) \in Seq(S) /\ Len(Append(s, x)) = Len(s) + 1
           /\ 1 .. Len(Append(s, x)) = (1 .. Len(s)) \cup {Len(s) + 1} /\ Len(s) + 1 \notin 1 .. Len(s)
           /\ Append(s, x)[Len(s) + 1] = x /\ \A i \in 1 .. Len(s) : Append(s, x)[i] = s[i]
<1>1. Len(s) \in Nat /\ Append(s, x) \in Seq(S) /\ Len(Append(s, x)) = Len(s) + 1
  OBVIOUS
<1>2. Append(s, x)[Len(s) + 1] = x /\ \A i \in 1 .. Len(s) : Append(s, x)[i] = s[i]
  OBVIOUS
<1>3. 1 .. (Len(s) + 1) = (1 .. Len(s)) \cup {Len(s) + 1} /\ Len(s) + 1 \notin 1 .. Len(s)
  BY <1>1
<1> QED
  BY Zenon, <1>1, <1>2, <1>3

LEMMA SeqPrefix ==
    ASSUME NEW S, NEW s \in Seq(S), NEW n \in 0 .. Len(s)
    PROVE  /\ SubSeq(s, 1, n) \in Seq(S) /\ Len(SubSeq(s, 1, n)) = n
           /\ \A i \in 1 .. n : SubSeq(s, 1, n)[i] = s[i]
<1>1. SubSeq(s, 1, n) \in Seq(S)
  OBVIOUS
<1>2. Len(SubSeq(s, 1, n)) = n
  OBVIOUS
<1>3. \A i \in 1 .. n : SubSeq(s, 1, n)[i] = s[i]
  OBVIOUS
<1> QED
  BY Zenon, <1>1, <1>2, <1>3

LEMMA SeqPop ==
    ASSUME NEW S, NEW s \in Seq(S), s # <<>>
    PROVE  LET q == SubSeq(s, 1, Len(s) - 1)
           IN  /\ q \in Seq(S) /\ Len(q) = Len(s) - 1 /\ Len(s) \in 1 .. Len(s)
               /\ 1 .. Len(q) = (1 .. Len(s)) \ {Len(s)} /\ \A i \in 1 .. Len(q) : q[i] = s[i]
<1>1. Len(s) \in Nat \ {0}
  OBVIOUS
<1>2. PICK n : n = Len(s) - 1
  BY Zenon
<1>3. n \in 0 .. Len(s)
  BY <1>1, <1>2
<1>4. /\ SubSeq(s, 1, n) \in Seq(S) /\ Len(SubSeq(s, 1, n)) = n
      /\ \A i \in 1 .. n : SubSeq(s, 1, n)[i] = s[i]
  BY Zenon, <1>3, SeqPrefix
<1>5. 1 .. (Len(s) - 1) = (1 .. Len(s)) \ {Len(s)} /\ Len(s) \in 1 .. Len(s)
  BY <1>1
<1> QED
  BY Zenon, <1>2, <1>4, <1>5

LEMMA SeqTop ==
    ASSUME NEW S, NEW s \in Seq(S), s # <<>>, NEW x \in S
    PROVE  LET q == Append(SubSeq(s, 1, Len(s) - 1), x)
           IN  /\ q \in Seq(S) /\ Len(q) = Len(s) /\ Len(s) \in 1 .. Len(s)
               /\ q[Len(s)] = x /\ \A i \in (1 .. Len(s)) \ {Len(s)} : q[i] = s[i]
<1>1. PICK o \in Seq(S) : /\ o = SubSeq(s, 1, Len(s) - 1) /\ Len(o) = Len(s) - 1 /\ Len(s) \in 1 .. Len(s)
                          /\ 1 .. Len(o) = (1 .. Len(s)) \ {Len(s)} /\ \A i \in 1 .. Len(o) : o[i] = s[i]
  BY Zenon, SeqPop
<1>2. Len(o) + 1 = Len(s)
  <2>1. Len(s) \in Nat
    OBVIOUS
  <2> QED
    BY <1>1, <2>1
<1>3. /\ Append(o, x) \in Seq(S) /\ Append(o, x)[Len(o) + 1] = x /\ Len(Append(o, x)) = Len(o) + 1
      /\ \A i \in 1 .. Len(o) : Append(o, x)[i] = o[i]
  BY SeqPush
<1>4. Len(Append(o, x)) = Len(s) /\ Append(o, x)[Len(s)] = x
  BY Zenon, <1>2, <1>3
<1> QED
  BY Zenon, <1>1, <1>3, <1>4

\* A frame below another one.
LEMMA FramesBelow ==
    ASSUME NEW n \in Nat
    PROVE  \A i \in 1 .. n : \A j \in 1 .. i : j \in 1 .. n /\ (i # n => j # n)
  OBVIOUS

\* The innermost binding of a pool is its only one.
LEMMA TxForBinds ==
    ASSUME TransactionInv, NEW F, Len(F) \in Nat, 1 .. Len(F) \subseteq 1 .. Len(stack),
           \A i \in 1 .. Len(F) : F[i] = stack[i], NEW pool
    PROVE  /\ TxFor(F, pool) = 0 => \A i \in 1 .. Len(F) : ~Bound(i, pool)
           /\ TxFor(F, pool) # 0 => \E i \in 1 .. Len(F) : Bound(i, pool) /\ TxFor(F, pool) = stack[i].tx
<1> DEFINE own == {i \in Bindings(F) : txs[F[i].tx].db = pool}
<1>2. \A i : i \in own <=> i \in 1 .. Len(F) /\ Bound(i, pool)
  BY Zenon DEF Bindings, Bound
<1>3. TxFor(F, pool) = IF own = {} THEN 0 ELSE F[CHOOSE i \in own : \A j \in own : j <= i].tx
  BY Zenon DEF TxFor
<1> HIDE DEF own
<1>4. CASE own = {}
  BY Zenon, <1>2, <1>3, <1>4
<1>5. CASE own # {}
  <2>1. PICK i \in own : TRUE
    BY Zenon, <1>5
  <2>2. ASSUME NEW j \in own PROVE j = i
    <3>1. i \in 1 .. Len(stack) /\ j \in 1 .. Len(stack) /\ Bound(i, pool) /\ Bound(j, pool)
      BY Zenon, <1>2, <2>1
    <3>2. stack[i].tx # 0 /\ Bound(j, txs[stack[i].tx].db)
      BY Zenon, <3>1 DEF Bound
    <3> QED
      BY Zenon, <3>1, <3>2 DEF TransactionInv, OneEach
  <2>3. \A j \in own : j <= i
    <3>1. i \in Nat
      BY <1>2, <2>1
    <3>2. i <= i
      BY <3>1
    <3> QED
      BY Zenon, <2>2, <3>2
  <2>4. (CHOOSE k \in own : \A j \in own : j <= k) \in own
    BY Zenon, <2>1, <2>3
  <2>5. TxFor(F, pool) = F[i].tx
    BY Zenon, <1>3, <1>5, <2>2, <2>4
  <2>6. i \in 1 .. Len(F) /\ Bound(i, pool) /\ F[i].tx = stack[i].tx /\ stack[i].tx # 0
    BY Zenon, <1>2, <2>1 DEF Bound
  <2> QED
    BY Zenon, <2>5, <2>6
<1> QED
  BY Zenon, <1>4, <1>5

\* What a step does to the transactions: those of call c may get another one or
\* another status.
TxsMove(c) ==
    /\ txs' \in Seq(TxRecord) /\ program' = program
    /\ \A t \in 1 .. Len(txs) : /\ t \in 1 .. Len(txs') /\ txs'[t].call = txs[t].call /\ txs'[t].db = txs[t].db
                                /\ txs[t].call # c => txs'[t].status = txs[t].status
    /\ \A t \in 1 .. Len(txs') : /\ t \in 1 .. Len(txs) \/ (txs'[t].call = c /\ c \in 1 .. Len(results'))
                                 /\ \A w \in txs'[t].writes : w.db = txs'[t].db

\* The other calls keep theirs.
LEMMA OthersKeep ==
    ASSUME NEW c, TxsMove(c), NEW d, d # c
    PROVE  OwnTx(d)' = OwnTx(d) /\ \A t \in OwnTx(d) : txs'[t].status = txs[t].status /\ (LastTx(d, t)' <=> LastTx(d, t))
<1>1. \A t : t \in OwnTx(d)' <=> t \in OwnTx(d)
  BY Zenon DEF OwnTx, TxsMove
<1>2. OwnTx(d)' = OwnTx(d)
  BY Zenon, <1>1 DEF OwnTx
<1>3. \A t \in OwnTx(d) : txs'[t].status = txs[t].status
  BY Zenon DEF OwnTx, TxsMove
<1> QED
  BY Zenon, <1>2, <1>3 DEF LastTx

LEMMA ReturnedStays ==
    ASSUME TransactionInv, NEW c, TxsMove(c), NEW d \in 1 .. Len(results), d # c, results[d] # "open", results'[d] = results[d]
    PROVE  ReturnedOK(d)'
<1>1. ReturnedOK(d)
  BY Zenon DEF TransactionInv
<1> QED
  BY Zenon, <1>1, OthersKeep DEF ReturnedOK

\* A frame below the one that moves.
LEMMA FrameStays ==
    ASSUME TransactionInv, NEW c, TxsMove(c), NEW i \in 1 .. Len(stack), Working(i), stack[i].call # c,
           \A j \in 1 .. i : stack'[j] = stack[j], stack'[i] = stack[i],
           stack[i].call \in 1 .. Len(results'), results'[stack[i].call] = "open",
           \A j \in 1 .. i : j \in 1 .. Len(stack)
    PROVE  FrameOK(i)' /\ OpenOK(i)'
<1>1. FrameOK(i) /\ OpenOK(i) /\ \A j \in 1 .. Len(stack) : FrameOK(j)
  BY Zenon DEF TransactionInv
<1>2. PICK f : f = stack[i] /\ f = stack'[i]
  BY Zenon
<1>3. OwnTx(f.call)' = OwnTx(f.call) /\ \A t \in OwnTx(f.call) : txs'[t].status = txs[t].status
      /\ (LastTx(f.call, t)' <=> LastTx(f.call, t))
  BY Zenon, <1>2, OthersKeep
<1>4. \E j \in 1 .. i : Bound(j, program[f.at].db)'
  <2>1. PICK j \in 1 .. i : Bound(j, program[f.at].db)
    BY Zenon, <1>1, <1>2 DEF FrameOK
  <2>2. stack[j].tx \in 1 .. Len(txs)
    BY Zenon, <1>1, <2>1 DEF FrameOK, Bound, LastTx, OwnTx
  <2>3. txs'[stack[j].tx].db = txs[stack[j].tx].db /\ stack'[j] = stack[j] /\ program' = program
    BY Zenon, <2>1, <2>2 DEF TxsMove
  <2> QED
    BY Zenon, <2>1, <2>3 DEF Bound
<1>5. f.tx # 0 => LastTx(f.call, f.tx)' /\ txs'[f.tx].status = "open"
  BY Zenon, <1>1, <1>2, <1>3 DEF FrameOK, LastTx
<1>6. f.tx = 0 => OwnTx(f.call)' = {}
  BY Zenon, <1>1, <1>2, <1>3 DEF FrameOK
<1>7. f.at \in 1 .. Len(program') /\ program'[f.at].op = "execute"
  BY Zenon, <1>1, <1>2 DEF FrameOK, TxsMove
<1>8. FrameOK(i)'
  BY Zenon, <1>2, <1>4, <1>5, <1>6, <1>7 DEF FrameOK
<1>9. \A t \in OwnTx(f.call) : txs[t].status \in {"open", "rolledBack"} /\ (txs[t].status = "open" => t = f.tx)
  <2>1. ASSUME NEW t \in OwnTx(f.call), txs[t].status = "lost" PROVE FALSE
    BY Zenon, <1>1, <1>2, <2>1 DEF OpenOK, Working
  <2> QED
    BY Zenon, <1>1, <1>2, <2>1 DEF OpenOK
<1>10. OpenOK(i)'
  BY Zenon, <1>2, <1>3, <1>9 DEF OpenOK
<1> QED
  BY Zenon, <1>8, <1>10

\* A step of call c that leaves the frames 1 .. k as they are, and every other
\* call's result.
StepOf(c, k) ==
    /\ TxsMove(c) /\ TransactionTypes' /\ k \in Nat /\ mode' # "start" /\ \A w \in auto' : ~w.inside
    /\ \A i \in 1 .. k : i \in 1 .. Len(stack) /\ Working(i) /\ stack'[i] = stack[i] /\ stack[i].call # c
    /\ \A d \in 1 .. Len(results) : d \in 1 .. Len(results') /\ (d # c => results'[d] = results[d])
    /\ \A d \in 1 .. Len(results') : d \in 1 .. Len(results) \/ d = c

LEMMA StepKeeps ==
    ASSUME TransactionInv, NEW c, NEW k, StepOf(c, k)
    PROVE  /\ \A i \in 1 .. k : FrameOK(i)' /\ OpenOK(i)' /\ \A pool : Bound(i, pool)' <=> Bound(i, pool)
           /\ \A d \in 1 .. Len(results') : d # c /\ results'[d] # "open" => ReturnedOK(d)'
           /\ \A t \in 1 .. Len(txs') : TxOK(t)'
           /\ OneEach(k)'
<1>1. \A i \in 1 .. k : i \in 1 .. Len(stack) /\ Working(i) /\ stack'[i] = stack[i] /\ stack[i].call # c
  BY Zenon DEF StepOf
<1>2. TxsMove(c) /\ k \in Nat
  BY Zenon DEF StepOf
<1>3. \A i \in 1 .. k : \A j \in 1 .. i : j \in 1 .. k
  BY Zenon, <1>2, FramesBelow
<1>4. \A i \in 1 .. Len(stack) : FrameOK(i)
  BY Zenon DEF TransactionInv
<1>5. ASSUME NEW i \in 1 .. k PROVE FrameOK(i)' /\ OpenOK(i)'
  <2>1. i \in 1 .. Len(stack) /\ Working(i) /\ stack'[i] = stack[i] /\ stack[i].call # c
    BY Zenon, <1>1
  <2>2. \A j \in 1 .. i : stack'[j] = stack[j] /\ j \in 1 .. Len(stack)
    BY Zenon, <1>1, <1>3
  <2>3. stack[i].call \in 1 .. Len(results') /\ results'[stack[i].call] = "open"
    BY Zenon, <1>4, <2>1 DEF FrameOK, StepOf
  <2> QED
    BY Zenon, <1>2, <2>1, <2>2, <2>3, FrameStays
<1>6. \A i \in 1 .. k : stack'[i].tx # 0 => stack'[i].tx \in 1 .. Len(txs)
  BY ZenonT(40), <1>1, <1>4 DEF FrameOK, LastTx, OwnTx
<1>7. \A i \in 1 .. k : stack'[i].tx # 0 => txs'[stack'[i].tx].db = txs[stack'[i].tx].db
  BY Zenon, <1>2, <1>6 DEF TxsMove
<1>8. ASSUME NEW i \in 1 .. k, NEW pool PROVE Bound(i, pool)' <=> Bound(i, pool)
  BY Zenon, <1>1, <1>7 DEF Bound
<1>9. ASSUME NEW d \in 1 .. Len(results'), d # c, results'[d] # "open" PROVE ReturnedOK(d)'
  <2>1. d \in 1 .. Len(results) /\ results'[d] = results[d]
    BY Zenon, <1>9 DEF StepOf
  <2> QED
    BY Zenon, <1>2, <1>9, <2>1, ReturnedStays
<1>10. ASSUME NEW t \in 1 .. Len(txs') PROVE TxOK(t)'
  <2>1. \A w \in txs'[t].writes : w.db = txs'[t].db
    BY Zenon, <1>2 DEF TxsMove
  <2>2. txs'[t].call \in 1 .. Len(results')
    BY Zenon, <1>2 DEF TxsMove, StepOf, TransactionInv, TxOK
  <2> QED
    BY Zenon, <2>1, <2>2 DEF TxOK
<1>11. ASSUME NEW i \in 1 .. k, NEW j \in 1 .. k
       PROVE /\ stack'[i].call = stack'[j].call => i = j
             /\ stack'[i].tx # 0 /\ Bound(j, txs[stack[i].tx].db)' => i = j
  <2>1. i \in 1 .. Len(stack) /\ j \in 1 .. Len(stack) /\ stack'[i] = stack[i] /\ stack'[j] = stack[j]
    BY Zenon, <1>1
  <2>2. stack[i].call = stack[j].call => i = j
    BY Zenon, <2>1 DEF TransactionInv, OneEach
  <2>3. stack[i].tx # 0 /\ Bound(j, txs[stack[i].tx].db) => i = j
    BY Zenon, <2>1 DEF TransactionInv, OneEach
  <2>4. Bound(j, txs[stack[i].tx].db)' /\ stack'[i].tx # 0 => Bound(j, txs[stack[i].tx].db)
    BY Zenon, <1>1, <1>7, <2>1 DEF Bound
  <2> QED
    BY Zenon, <2>1, <2>2, <2>3, <2>4
<1>12. OneEach(k)'
  BY Zenon, <1>11 DEF OneEach
<1> QED
  BY Zenon, <1>5, <1>8, <1>9, <1>10, <1>12

\* A step after which only the frames 1 .. k are left: call c has returned, or
\* no call moved.
LEMMA CallReturns ==
    ASSUME TransactionInv, NEW c, NEW k, StepOf(c, k), Len(stack') = k, mode' # "attemptFailed",
           c \in 1 .. Len(results') => ReturnedOK(c)'
    PROVE  TransactionInv'
<1>1. \A i \in 1 .. k : FrameOK(i)' /\ OpenOK(i)'
  BY Zenon, StepKeeps
<1>2. \A d \in 1 .. Len(results') : results'[d] # "open" => ReturnedOK(d)'
  <2> SUFFICES ASSUME NEW d \in 1 .. Len(results'), results'[d] # "open" PROVE ReturnedOK(d)'
    BY Zenon
  <2>1. CASE d # c
    BY Zenon, <2>1, StepKeeps
  <2>2. CASE d = c
    BY Zenon, <2>2
  <2> QED
    BY Zenon, <2>1, <2>2
<1>3. OneEach(k)' /\ \A t \in 1 .. Len(txs') : TxOK(t)'
  BY Zenon, StepKeeps
<1>4. TransactionTypes' /\ mode' # "start" /\ \A w \in auto' : ~w.inside
  BY Zenon DEF StepOf, TransactionInv
<1> QED
  BY Zenon, <1>1, <1>2, <1>3, <1>4 DEF TransactionInv

\* A step after which call c has the frame above 1 .. k.
LEMMA CallGoesOn ==
    ASSUME TransactionInv, NEW c, NEW k, StepOf(c, k), NEW n, n = k + 1, Len(stack') = n,
           mode' = "attemptFailed" => stack'[n].tx = 0,
           stack'[n].call = c, results'[c] = "open", FrameOK(n)', OpenOK(n)',
           NEW pool, stack'[n].tx # 0 => txs'[stack'[n].tx].db = pool /\ \A i \in 1 .. k : ~Bound(i, pool)
    PROVE  TransactionInv'
<1>1. \A i \in 1 .. k : FrameOK(i)' /\ OpenOK(i)' /\ \A p : Bound(i, p)' <=> Bound(i, p)
  BY Zenon, StepKeeps
<1>2. k \in Nat
  BY Zenon DEF StepOf
<1>3. 1 .. n = (1 .. k) \cup {n} /\ n # 0
  BY <1>2
<1>4. \A i \in 1 .. Len(stack') : FrameOK(i)' /\ OpenOK(i)'
  BY Zenon, <1>1, <1>3
<1>5. \A d \in 1 .. Len(results') : results'[d] # "open" => ReturnedOK(d)'
  BY Zenon, StepKeeps
<1>6. OneEach(k)' /\ \A t \in 1 .. Len(txs') : TxOK(t)'
  BY Zenon, StepKeeps
<1>7. \A i \in 1 .. k : stack'[i].call # c
  BY Zenon DEF StepOf
<1>8. ASSUME NEW i \in 1 .. n, NEW j \in 1 .. n
      PROVE /\ stack'[i].call = stack'[j].call => i = j
            /\ stack'[i].tx # 0 /\ Bound(j, txs[stack[i].tx].db)' => i = j
  <2>1. CASE i = n /\ j = n
    BY Zenon, <2>1
  <2>2. CASE i = n /\ j \in 1 .. k
    <3>1. stack'[i].tx # 0 => txs'[stack'[i].tx].db = pool /\ ~Bound(j, pool)'
      BY Zenon, <1>1, <2>2
    <3> QED
      BY Zenon, <1>7, <2>2, <3>1 DEF Bound
  <2>3. CASE i \in 1 .. k /\ j = n
    <3>1. stack'[j].tx # 0 => txs'[stack'[j].tx].db = pool /\ ~Bound(i, pool)'
      BY Zenon, <1>1, <2>3
    <3> QED
      BY Zenon, <1>7, <2>3, <3>1 DEF Bound
  <2>4. CASE i \in 1 .. k /\ j \in 1 .. k
    BY Zenon, <1>6, <2>4 DEF OneEach
  <2> QED
    BY Zenon, <1>3, <2>1, <2>2, <2>3, <2>4
<1>9. OneEach(n)'
  BY Zenon, <1>8 DEF OneEach
<1>10. TransactionTypes' /\ mode' # "start" /\ \A w \in auto' : ~w.inside
  BY Zenon DEF StepOf, TransactionInv
<1>11. mode' = "attemptFailed" => stack' # <<>> /\ Top'.tx = 0
  <2>1. Len(<<>>) = 0
    OBVIOUS
  <2> QED
    BY Zenon, <1>3, <2>1 DEF Top
<1> QED
  BY Zenon, <1>4, <1>5, <1>6, <1>9, <1>10, <1>11 DEF TransactionInv

\* The transactions after one of them got another status.
LEMMA StatusMoves ==
    ASSUME TransactionInv, NEW t \in 1 .. Len(txs), NEW s \in {"open", "committed", "rolledBack", "lost"},
           txs' = [txs EXCEPT ![t].status = s], program' = program, NEW c, c = txs[t].call
    PROVE  /\ TxsMove(c) /\ txs'[t].status = s
           /\ \A u \in 1 .. Len(txs) : u # t => txs'[u].status = txs[u].status
           /\ OwnTx(c)' = OwnTx(c)
           /\ \A u : LastTx(c, u)' <=> LastTx(c, u)
<1>1. txs \in Seq(TxRecord)
  BY Zenon DEF TransactionInv, TransactionTypes
<1>2. txs[t] \in TxRecord
  BY Zenon, <1>1, SeqAt
<1>3. PICK r : r = [txs[t] EXCEPT !.status = s]
  BY Zenon
<1>4. r \in TxRecord /\ r.status = s /\ r.db = txs[t].db /\ r.call = txs[t].call /\ r.writes = txs[t].writes
  BY <1>2, <1>3 DEF TxRecord
<1>5. txs' = [txs EXCEPT ![t] = r]
  BY Zenon, <1>3
<1>6. txs' \in Seq(TxRecord) /\ Len(txs') = Len(txs)
  BY SMTT(30), <1>1, <1>4, <1>5, SeqPut
<1>7. txs'[t] = r /\ \A u \in 1 .. Len(txs) : u # t => txs'[u] = txs[u]
  BY <1>1, <1>4, <1>5, SeqPut
<1>8. \A u \in 1 .. Len(txs) : txs'[u].call = txs[u].call /\ txs'[u].db = txs[u].db /\ txs'[u].writes = txs[u].writes
  BY Zenon, <1>4, <1>7
<1>9. TxsMove(c)
  <2>1. \A u \in 1 .. Len(txs) : txs[u].call # c => txs'[u].status = txs[u].status
    BY Zenon, <1>7
  <2>2. \A u \in 1 .. Len(txs) : \A w \in txs'[u].writes : w.db = txs'[u].db
    BY Zenon, <1>8 DEF TransactionInv, TxOK
  <2> QED
    BY Zenon, <1>6, <1>8, <2>1, <2>2 DEF TxsMove
<1>10. OwnTx(c)' = OwnTx(c)
  BY Zenon, <1>6, <1>8 DEF OwnTx
<1>11. \A u : LastTx(c, u)' <=> LastTx(c, u)
  BY Zenon, <1>10 DEF LastTx
<1> QED
  BY Zenon, <1>4, <1>7, <1>9, <1>10, <1>11

\* The innermost frame and those below it.
LEMMA TopFacts ==
    ASSUME TransactionInv, stack # <<>>, NEW n, n = Len(stack)
    PROVE  \E k \in Nat : /\ n = k + 1 /\ 1 .. n = (1 .. k) \cup {n} /\ n \notin 1 .. k /\ n \in 1 .. Len(stack)
                          /\ Outer \in Seq(FrameRecord) /\ Len(Outer) = k /\ Top \in FrameRecord /\ stack[n] = Top
                          /\ \A i \in 1 .. k : /\ Outer[i] = stack[i] /\ Working(i) /\ i \in 1 .. Len(stack)
                                               /\ stack[i].call # Top.call
                          /\ FrameOK(n) /\ OpenOK(n)
<1>1. stack \in Seq(FrameRecord)
  BY Zenon DEF TransactionInv, TransactionTypes
<1>2. Len(stack) \in Nat \ {0}
  BY <1>1
<1>3. PICK k : k = n - 1
  BY Zenon
<1>4. k \in Nat /\ n = k + 1 /\ 1 .. n = (1 .. k) \cup {n} /\ n \notin 1 .. k /\ n \in 1 .. n
  BY <1>2, <1>3
<1>5. Outer \in Seq(FrameRecord) /\ Len(Outer) = k /\ \A i \in 1 .. Len(Outer) : Outer[i] = stack[i]
  BY Zenon, <1>1, <1>3, SeqPop DEF Outer
<1>6. Top \in FrameRecord /\ stack[n] = Top
  <2>1. n \in 1 .. Len(stack)
    BY Zenon, <1>4
  <2>2. stack[n] \in FrameRecord
    BY Zenon, <1>1, <2>1, SeqAt
  <2> QED
    BY Zenon, <2>2 DEF Top
<1>7. ASSUME NEW i \in 1 .. k PROVE Working(i) /\ i \in 1 .. Len(stack) /\ stack[i].call # Top.call
  <2>1. i \in 1 .. Len(stack) /\ i # n /\ n \in 1 .. Len(stack)
    BY Zenon, <1>4
  <2> QED
    BY Zenon, <1>6, <2>1 DEF Working, TransactionInv, OneEach
<1>8. FrameOK(n) /\ OpenOK(n)
  BY Zenon, <1>4 DEF TransactionInv
<1> QED
  BY Zenon, <1>4, <1>5, <1>6, <1>7, <1>8

\* The innermost call returns r.
LEMMA TopReturns ==
    ASSUME TransactionInv, stack # <<>>, NEW c, c = Top.call, TxsMove(c), stack' = Outer, auto' = auto,
           NEW r \in CallResult, results' = [results EXCEPT ![c] = r], ReturnedOK(c)',
           pc' \in Nat \ {0}, mode' \in {"run", "fail", "panic"}, fault' \in [retryable : BOOLEAN, lost : BOOLEAN]
    PROVE  TransactionInv'
<1>1. PICK n : n = Len(stack)
  BY Zenon
<1>2. PICK k \in Nat : /\ Outer \in Seq(FrameRecord) /\ Len(Outer) = k /\ stack[n] = Top /\ FrameOK(n)
                       /\ \A i \in 1 .. k : /\ Outer[i] = stack[i] /\ Working(i) /\ i \in 1 .. Len(stack)
                                            /\ stack[i].call # Top.call
  BY Zenon, <1>1, TopFacts
<1>3. results \in Seq(CallResult) /\ c \in 1 .. Len(results)
  BY Zenon, <1>2 DEF TransactionInv, TransactionTypes, FrameOK
<1>4. results' \in Seq(CallResult) /\ Len(results') = Len(results)
      /\ \A d \in 1 .. Len(results) : d # c => results'[d] = results[d]
  BY <1>3
<1>5. TransactionTypes'
  BY Zenon, <1>2, <1>4 DEF TransactionInv, TransactionTypes, TxsMove
<1>6. \A w \in auto' : ~w.inside
  BY Zenon DEF TransactionInv
<1>7. StepOf(c, k)
  BY Zenon, <1>2, <1>4, <1>5, <1>6 DEF StepOf
<1> QED
  BY Zenon, <1>2, <1>7, CallReturns

\* The innermost call goes on with the frame f, in or out of a transaction.
LEMMA TopGoesOn ==
    ASSUME TransactionInv, stack # <<>>, NEW c, c = Top.call, TxsMove(c), auto' = auto, results' = results,
           NEW f \in FrameRecord, f.call = c, f.at = Top.at, stack' = Append(Outer, f),
           pc' \in Nat \ {0}, fault' \in [retryable : BOOLEAN, lost : BOOLEAN],
           (mode' = "attemptFailed" /\ f.tx = 0) \/ (mode' = "run" /\ f.tx # 0),
           NEW pool, pool = program[f.at].db,
           f.tx # 0 => /\ LastTx(c, f.tx)' /\ txs'[f.tx].status = "open" /\ txs'[f.tx].db = pool
                       /\ \A i \in 1 .. Len(Outer) : ~Bound(i, pool),
           OpenOK(Len(stack))'
    PROVE  TransactionInv'
<1>1. PICK n : n = Len(stack)
  BY Zenon
<1>2. PICK k \in Nat : /\ n = k + 1 /\ n \in 1 .. Len(stack) /\ 1 .. n = (1 .. k) \cup {n}
                       /\ Outer \in Seq(FrameRecord) /\ Len(Outer) = k /\ stack[n] = Top /\ FrameOK(n)
                       /\ \A i \in 1 .. k : /\ Outer[i] = stack[i] /\ Working(i) /\ i \in 1 .. Len(stack)
                                            /\ stack[i].call # Top.call
  BY Zenon, <1>1, TopFacts
<1>3. /\ stack' \in Seq(FrameRecord) /\ Len(stack') = n /\ stack'[n] = f
      /\ \A i \in 1 .. k : stack'[i] = stack[i]
  <2>1. PICK o \in Seq(FrameRecord) : o = Outer
    BY Zenon, <1>2
  <2>2. /\ Append(o, f) \in Seq(FrameRecord) /\ Len(Append(o, f)) = Len(o) + 1
        /\ Append(o, f)[Len(o) + 1] = f /\ \A i \in 1 .. Len(o) : Append(o, f)[i] = o[i]
    BY SeqPush
  <2> QED
    BY Zenon, <1>2, <2>1, <2>2
<1>4. TransactionTypes'
  BY Zenon, <1>3 DEF TransactionInv, TransactionTypes, TxsMove
<1>5. StepOf(c, k)
  <2>1. \A w \in auto' : ~w.inside
    BY Zenon DEF TransactionInv
  <2> QED
    BY Zenon, <1>2, <1>3, <1>4, <2>1 DEF StepOf
<1>6. c \in 1 .. Len(results') /\ results'[c] = "open"
  BY Zenon, <1>2 DEF FrameOK
<1>7. f.at \in 1 .. Len(program') /\ program'[f.at].op = "execute" /\ program' = program
  BY Zenon, <1>2 DEF FrameOK, TxsMove
<1>8. Working(n)' => f.tx # 0
  BY Zenon, <1>3 DEF Working
<1>9. f.tx # 0 => Bound(n, program[f.at].db)'
  BY Zenon, <1>3, <1>7 DEF Bound
<1>10. n \in 1 .. n
  BY Zenon, <1>2
<1>11. FrameOK(n)'
  BY Zenon, <1>3, <1>6, <1>7, <1>8, <1>9, <1>10 DEF FrameOK
<1>12. OpenOK(n)'
  BY Zenon, <1>1, <1>3
<1>13. mode' = "attemptFailed" => stack'[n].tx = 0
  BY Zenon, <1>3
<1>14. stack'[n].tx # 0 => txs'[stack'[n].tx].db = pool /\ \A i \in 1 .. k : ~Bound(i, pool)
  BY Zenon, <1>2, <1>3
<1>15. n = k + 1 /\ Len(stack') = n /\ stack'[n].call = c
  BY Zenon, <1>2, <1>3
<1> QED
  BY ZenonT(40), <1>5, <1>6, <1>11, <1>12, <1>13, <1>14, <1>15, CallGoesOn

\* A transaction that opens for call c is its last one.
LEMMA OpensLast ==
    ASSUME TransactionInv, NEW c \in Nat, NEW pool \in Pools, txs' = Opened(c, pool), program' = program,
           c \in 1 .. Len(results'), NEW t, t = Len(txs) + 1
    PROVE  /\ TxsMove(c) /\ LastTx(c, t)' /\ txs'[t].status = "open" /\ txs'[t].db = pool /\ t \in Nat \ {0}
           /\ OwnTx(c)' = OwnTx(c) \cup {t} /\ \A u \in OwnTx(c) : txs'[u].status = txs[u].status
<1>1. txs \in Seq(TxRecord)
  BY Zenon DEF TransactionInv, TransactionTypes
<1>2. PICK x : x = [db |-> pool, call |-> c, writes |-> {}, status |-> "open"]
  BY Zenon
<1>3. x \in TxRecord /\ x.db = pool /\ x.call = c /\ x.writes = {} /\ x.status = "open"
  BY <1>2 DEF TxRecord
<1>4. txs' = Append(txs, x)
  BY Zenon, <1>2 DEF Opened
<1>5. PICK m \in Nat : m = Len(txs)
  BY <1>1
<1>6. /\ txs' \in Seq(TxRecord) /\ Len(txs') = t /\ t \notin 1 .. Len(txs)
      /\ \A u : u \in 1 .. Len(txs') <=> u \in 1 .. Len(txs) \/ u = t
      /\ txs'[t] = x /\ \A u \in 1 .. Len(txs) : txs'[u] = txs[u]
  <2>1. PICK o \in Seq(TxRecord) : o = txs
    BY Zenon, <1>1
  <2>2. /\ Append(o, x) \in Seq(TxRecord) /\ Len(Append(o, x)) = Len(o) + 1
        /\ 1 .. Len(Append(o, x)) = (1 .. Len(o)) \cup {Len(o) + 1} /\ Len(o) + 1 \notin 1 .. Len(o)
        /\ Append(o, x)[Len(o) + 1] = x /\ \A i \in 1 .. Len(o) : Append(o, x)[i] = o[i]
    BY <1>3, SeqPush
  <2> QED
    BY Zenon, <1>4, <2>1, <2>2
<1>7. \A u \in 1 .. t : u <= t
  BY <1>5
<1>8. t \in Nat \ {0}
  BY <1>5
<1>9. \A u \in 1 .. Len(txs) : \A w \in txs[u].writes : w.db = txs[u].db
  BY Zenon DEF TransactionInv, TxOK
<1>10. TxsMove(c)
  <2>1. \A u \in 1 .. Len(txs) : u \in 1 .. Len(txs') /\ txs'[u] = txs[u]
    BY Zenon, <1>6
  <2>2. \A u \in 1 .. Len(txs') : u \in 1 .. Len(txs) \/ txs'[u].call = c
    BY Zenon, <1>3, <1>6
  <2>3. ASSUME NEW u \in 1 .. Len(txs'), NEW w \in txs'[u].writes PROVE w.db = txs'[u].db
    <3>1. CASE u = t
      BY Zenon, <1>3, <1>6, <2>3, <3>1
    <3>2. CASE u \in 1 .. Len(txs)
      BY Zenon, <1>9, <2>1, <2>3, <3>2
    <3> QED
      BY Zenon, <1>6, <3>1, <3>2
  <2> QED
    BY Zenon, <1>6, <2>1, <2>2, <2>3 DEF TxsMove
<1>11. OwnTx(c)' = OwnTx(c) \cup {t}
  <2>1. ASSUME NEW u \in OwnTx(c)' PROVE u \in OwnTx(c) \cup {t}
    <3>1. u \in 1 .. Len(txs') /\ txs'[u].call = c
      BY Zenon, <2>1 DEF OwnTx
    <3> QED
      BY Zenon, <1>6, <3>1 DEF OwnTx
  <2>2. ASSUME NEW u \in OwnTx(c) \cup {t} PROVE u \in OwnTx(c)'
    <3>1. u \in 1 .. Len(txs') /\ txs'[u].call = c
      BY Zenon, <1>3, <1>6, <2>2 DEF OwnTx
    <3> QED
      BY Zenon, <3>1 DEF OwnTx
  <2> QED
    BY Zenon, <2>1, <2>2
<1>12. LastTx(c, t)'
  <2>1. \A u \in OwnTx(c)' : u \in 1 .. t
    BY Zenon, <1>6 DEF OwnTx
  <2> QED
    BY Zenon, <1>7, <1>11, <2>1 DEF LastTx
<1>13. \A u \in OwnTx(c) : txs'[u].status = txs[u].status
  BY Zenon, <1>6 DEF OwnTx
<1> QED
  BY Zenon, <1>3, <1>6, <1>8, <1>10, <1>11, <1>12, <1>13

\* The code of the call in progress.
LEMMA OpFacts ==
    ASSUME TransactionInv, NEW k \in Nat \ {0}, k <= Len(program)
    PROVE  /\ k \in 1 .. Len(program)
           /\ program[k].op \in {"execute", "write"} => program[k].db \in Pools
           /\ program[k].op = "execute" => program[k].end \in Nat
<1>1. program \in Programs \cup {<<>>}
  BY Zenon DEF TransactionInv, TransactionTypes
<1>2. program \in Programs
  <2>1. Len(<<>>) = 0 /\ ~(k <= 0)
    OBVIOUS
  <2> QED
    BY Zenon, <1>1, <2>1
<1>3. Len(program) \in Nat /\ \A j \in 1 .. Len(program) : program[j].op = "execute" => program[j].end \in Nat
  BY Zenon, <1>2, TransactionAssumption
<1>4. k \in 1 .. Len(program)
  BY <1>3
<1>5. ASSUME program[k].op \in {"execute", "write"} PROVE program[k].db \in Pools
  <2>1. PICK p \in Programs : p = program
    BY Zenon, <1>2
  <2>2. p[k].db \in {p[j].db : j \in {j \in 1 .. Len(p) : p[j].op \in {"execute", "write"}}}
    BY Zenon, <1>4, <1>5, <2>1
  <2>3. p[k].db \in Pools
    BY Zenon, <2>2 DEF Pools
  <2> QED
    BY Zenon, <2>1, <2>3
<1> QED
  BY Zenon, <1>3, <1>4, <1>5

LEMMA CallerStepStep ==
    ASSUME TransactionInv, CallerStep
    PROVE  TransactionInv'
<1>1. stack = <<>> /\ txs = <<>> /\ results = <<>>
  BY Zenon DEF TransactionInv, CallerStep
<1>2. 1 .. Len(<<>>) = {}
  OBVIOUS
<1>3. UNCHANGED <<pc, stack, fault, txs, results, auto>> /\ mode' = "run" /\ program' \in Programs
  BY Zenon DEF CallerStep
<1>4. TransactionTypes'
  BY Zenon, <1>3 DEF TransactionInv, TransactionTypes
<1>5. 1 .. Len(stack') = {} /\ 1 .. Len(txs') = {} /\ 1 .. Len(results') = {}
  BY Zenon, <1>1, <1>2, <1>3
<1>6. OneEach(Len(stack))'
  BY Zenon, <1>5 DEF OneEach
<1> QED
  BY Zenon, <1>3, <1>4, <1>5, <1>6 DEF TransactionInv

\* The frames stay and fn fails or panics.
LEMMA ModeStep ==
    ASSUME TransactionInv, UNCHANGED <<program, pc, stack, txs, results, auto>>, mode' \in {"fail", "panic"},
           fault' \in [retryable : BOOLEAN, lost : BOOLEAN],
           mode = "run" \/ fault.retryable
    PROVE  TransactionInv'
<1>1. TransactionTypes' /\ OneEach(Len(stack))'
  <2>1. TransactionTypes /\ OneEach(Len(stack))
    BY Zenon DEF TransactionInv
  <2>2. mode' \in {"start", "run", "fail", "panic", "attemptFailed"}
    BY Zenon
  <2>3. TransactionTypes'
    BY Zenon, <2>1, <2>2 DEF TransactionTypes
  <2>4. \A i, p : Bound(i, p)' <=> Bound(i, p)
    BY Zenon DEF Bound
  <2>5. stack' = stack /\ txs' = txs
    BY Zenon
  <2>6. OneEach(Len(stack))'
    BY Zenon, <2>1, <2>4, <2>5 DEF OneEach
  <2> QED
    BY Zenon, <2>3, <2>6
<1>2. \A c, t : (LastTx(c, t)' <=> LastTx(c, t)) /\ OwnTx(c)' = OwnTx(c)
  BY Zenon DEF LastTx, OwnTx
<1>3. ASSUME NEW i \in 1 .. Len(stack) PROVE FrameOK(i)' /\ OpenOK(i)'
  <2>1. FrameOK(i) /\ OpenOK(i)
    BY Zenon DEF TransactionInv
  <2>2. Working(i)' => Working(i)
    BY Zenon DEF Working
  <2>3. \A t \in OwnTx(stack[i].call) : txs[t].status # "lost"
    BY Zenon, <2>1 DEF OpenOK
  <2>4. \A j, p : Bound(j, p)' <=> Bound(j, p)
    BY Zenon DEF Bound
  <2>5. FrameOK(i)'
    BY Zenon, <1>2, <2>1, <2>2, <2>4 DEF FrameOK
  <2>6. OpenOK(i)'
    BY Zenon, <1>2, <2>1, <2>3 DEF OpenOK
  <2> QED
    BY Zenon, <2>5, <2>6
<1>4. ASSUME NEW c \in 1 .. Len(results), results[c] # "open" PROVE ReturnedOK(c)'
  <2>1. ReturnedOK(c) /\ txs' = txs /\ results' = results
    BY Zenon, <1>4 DEF TransactionInv
  <2> QED
    BY Zenon, <1>2, <2>1 DEF ReturnedOK
<1>5. \A t \in 1 .. Len(txs) : TxOK(t)'
  BY Zenon DEF TransactionInv, TxOK
<1> QED
  BY Zenon, <1>1, <1>3, <1>4, <1>5 DEF TransactionInv

\* A new call starts with the frame f, in a transaction of its own, in one a
\* frame below has, or without any because none could be opened.
LEMMA NewCallGoesOn ==
    ASSUME TransactionInv, mode = "run", NEW c, c = Len(results) + 1, TxsMove(c), auto' = auto,
           results' = Append(results, "open"),
           NEW f \in FrameRecord, f.call = c, stack' = Append(stack, f),
           f.at \in 1 .. Len(program), program[f.at].op = "execute",
           pc' \in Nat \ {0}, fault' \in [retryable : BOOLEAN, lost : BOOLEAN],
           NEW pool, pool = program[f.at].db,
           \/ mode' = "attemptFailed" /\ f.tx = 0
           \/ mode' = "run" /\ (f.tx # 0 \/ \E i \in 1 .. Len(stack) : Bound(i, pool)),
           \A t \in OwnTx(c)' : t = f.tx /\ txs'[t].status = "open", f.tx \notin OwnTx(c)' => f.tx = 0,
           f.tx # 0 => LastTx(c, f.tx)' /\ txs'[f.tx].db = pool /\ \A i \in 1 .. Len(stack) : ~Bound(i, pool),
           f.tx = 0 => OwnTx(c)' = {}
    PROVE  TransactionInv'
<1>1. stack \in Seq(FrameRecord) /\ results \in Seq(CallResult) /\ "open" \in CallResult
  BY Zenon DEF TransactionInv, TransactionTypes, CallResult
<1>2. PICK k \in Nat : k = Len(stack)
  BY <1>1
<1>3. PICK n : n = k + 1
  BY Zenon
<1>4. /\ stack' \in Seq(FrameRecord) /\ Len(stack') = n /\ stack'[n] = f
      /\ \A i \in 1 .. k : stack'[i] = stack[i]
  <2>1. PICK o \in Seq(FrameRecord) : o = stack
    BY Zenon, <1>1
  <2>2. /\ Append(o, f) \in Seq(FrameRecord) /\ Len(Append(o, f)) = Len(o) + 1
        /\ Append(o, f)[Len(o) + 1] = f /\ \A i \in 1 .. Len(o) : Append(o, f)[i] = o[i]
    BY SeqPush
  <2> QED
    BY Zenon, <1>2, <1>3, <2>1, <2>2
<1>5. /\ results' \in Seq(CallResult) /\ results'[c] = "open" /\ c \notin 1 .. Len(results)
      /\ 1 .. Len(results') = (1 .. Len(results)) \cup {c}
      /\ \A d \in 1 .. Len(results) : results'[d] = results[d]
  <2>1. PICK o \in Seq(CallResult) : o = results
    BY Zenon, <1>1
  <2>2. /\ Append(o, "open") \in Seq(CallResult)
        /\ 1 .. Len(Append(o, "open")) = (1 .. Len(o)) \cup {Len(o) + 1} /\ Len(o) + 1 \notin 1 .. Len(o)
        /\ Append(o, "open")[Len(o) + 1] = "open" /\ \A i \in 1 .. Len(o) : Append(o, "open")[i] = o[i]
    BY <1>1, SeqPush
  <2> QED
    BY Zenon, <2>1, <2>2
<1>6. \A i \in 1 .. k : FrameOK(i) /\ i \in 1 .. Len(stack)
  BY Zenon, <1>2 DEF TransactionInv
<1>7. \A i \in 1 .. k : stack[i].call # c /\ Working(i)
  BY Zenon, <1>5, <1>6 DEF FrameOK, Working
<1>8. TransactionTypes'
  BY Zenon, <1>4, <1>5 DEF TransactionInv, TransactionTypes, TxsMove
<1>9. mode' # "start" /\ \A w \in auto' : ~w.inside
  BY Zenon DEF TransactionInv
<1>10. StepOf(c, k)
  BY Zenon, <1>4, <1>5, <1>6, <1>7, <1>8, <1>9 DEF StepOf
<1>11. program' = program
  BY Zenon DEF TxsMove
<1>12. 1 .. n = (1 .. k) \cup {n}
  BY <1>3
<1>13. Working(n)' => \E j \in 1 .. n : Bound(j, pool)'
  <2>1. \A i \in 1 .. k : Bound(i, pool)' <=> Bound(i, pool)
    BY Zenon, <1>10, StepKeeps
  <2>2. f.tx # 0 => Bound(n, pool)'
    BY Zenon, <1>4 DEF Bound
  <2>3. Working(n)' => mode' = "run"
    BY Zenon, <1>4 DEF Working
  <2> QED
    BY Zenon, <1>2, <1>12, <2>1, <2>2, <2>3
<1>14. f.tx # 0 => txs'[f.tx].status = "open"
  BY Zenon DEF LastTx
<1>15. FrameOK(n)'
  BY ZenonT(40), <1>4, <1>5, <1>11, <1>13, <1>14 DEF FrameOK
<1>16. OpenOK(n)'
  BY ZenonT(40), <1>4 DEF OpenOK
<1>17. mode' = "attemptFailed" => stack'[n].tx = 0
  BY Zenon, <1>4
<1>18. stack'[n].tx # 0 => txs'[stack'[n].tx].db = pool /\ \A i \in 1 .. k : ~Bound(i, pool)
  BY Zenon, <1>2, <1>4
<1>19. Len(stack') = n /\ stack'[n].call = c /\ results'[c] = "open"
  BY Zenon, <1>4, <1>5
<1> QED
  BY ZenonT(40), <1>3, <1>10, <1>15, <1>16, <1>17, <1>18, <1>19, CallGoesOn

\* Transactions that stay as they are.
LEMMA TxsStay ==
    ASSUME TransactionInv, txs' = txs, program' = program, NEW c
    PROVE  TxsMove(c) /\ OwnTx(c)' = OwnTx(c) /\ \A t : LastTx(c, t)' <=> LastTx(c, t)
<1>1. txs' \in Seq(TxRecord) /\ \A t \in 1 .. Len(txs) : \A w \in txs'[t].writes : w.db = txs'[t].db
  BY Zenon DEF TransactionInv, TransactionTypes, TxOK
<1> QED
  BY Zenon, <1>1 DEF TxsMove, OwnTx, LastTx

LEMMA ExecuteStep ==
    ASSUME TransactionInv, Execute
    PROVE  TransactionInv'
<1>1. TransactionTypes
  BY Zenon DEF TransactionInv
<1>2. pc \in Nat \ {0} /\ pc <= Len(program) /\ Op.op = "execute" /\ mode = "run"
  BY Zenon, <1>1 DEF TransactionTypes, Execute
<1>3. pc \in 1 .. Len(program) /\ program[pc].op = "execute" /\ program[pc].db \in Pools
  BY Zenon, <1>2, OpFacts DEF Op
<1>4. pc + 1 \in Nat \ {0}
  BY <1>2
<1>5. PICK c : c = Len(results) + 1
  BY Zenon
<1>6. c \in Nat /\ c \notin 1 .. Len(results)
  <2>1. PICK o \in Seq(CallResult) : o = results
    BY Zenon, <1>1 DEF TransactionTypes
  <2>2. Len(o) \in Nat
    BY <2>1
  <2>3. Len(o) + 1 \in Nat /\ Len(o) + 1 \notin 1 .. Len(o)
    BY <2>2
  <2> QED
    BY Zenon, <1>5, <2>1, <2>3
<1>7. OwnTx(c) = {}
  BY Zenon, <1>6 DEF TransactionInv, TxOK, OwnTx
<1>8. PICK pool : pool = program[pc].db /\ pool = Op.db
  BY Zenon DEF Op
<1>9. results' = Append(results, "open") /\ program' = program /\ auto' = auto
  BY Zenon DEF Execute
<1>10. c \in 1 .. Len(results')
  <2>1. PICK o \in Seq(CallResult) : o = results
    BY Zenon, <1>1 DEF TransactionTypes
  <2>2. "open" \in CallResult
    BY Zenon DEF CallResult
  <2>3. 1 .. Len(Append(o, "open")) = (1 .. Len(o)) \cup {Len(o) + 1}
    BY <2>2, SeqPush
  <2> QED
    BY Zenon, <1>5, <1>9, <2>1, <2>3
<1>11. fault \in [retryable : BOOLEAN, lost : BOOLEAN] /\ NoFault \in [retryable : BOOLEAN, lost : BOOLEAN]
  BY <1>1 DEF TransactionTypes, NoFault
<1>12. stack \in Seq(FrameRecord) /\ Len(stack) \in Nat
  BY <1>1 DEF TransactionTypes
<1>13. PICK f : f = [at |-> pc, call |-> c, attempt |-> 0, tx |-> 0]
  BY Zenon
<1>14. f \in FrameRecord /\ f.at = pc /\ f.call = c /\ f.tx = 0
  BY <1>2, <1>6, <1>13 DEF FrameRecord
<1>15. CASE TxFor(stack, pool) # 0 /\ stack' = Append(stack, f) /\ pc' = pc + 1 /\ UNCHANGED <<txs, mode, fault>>
  <2>1. \E i \in 1 .. Len(stack) : Bound(i, pool)
    BY Zenon, <1>12, <1>15, TxForBinds
  <2>2. TxsMove(c) /\ OwnTx(c)' = {}
    BY Zenon, <1>7, <1>9, <1>15, TxsStay
  <2>3. mode' = "run" /\ pc' \in Nat \ {0} /\ fault' \in [retryable : BOOLEAN, lost : BOOLEAN]
    BY Zenon, <1>2, <1>4, <1>11, <1>15
  <2>4. stack' = Append(stack, f)
    BY Zenon, <1>15
  <2> QED
    BY Zenon, <1>2, <1>3, <1>5, <1>8, <1>9, <1>14, <2>1, <2>2, <2>3, <2>4, NewCallGoesOn
<1>16. CASE TxFor(stack, pool) = 0 /\ stack' = Append(stack, f) /\ mode' = "attemptFailed" /\ fault' = NoFault
            /\ UNCHANGED <<txs, pc>>
  <2>1. TxsMove(c) /\ OwnTx(c)' = {}
    BY Zenon, <1>7, <1>9, <1>16, TxsStay
  <2>2. mode' = "attemptFailed" /\ pc' \in Nat \ {0} /\ fault' \in [retryable : BOOLEAN, lost : BOOLEAN]
    BY Zenon, <1>2, <1>11, <1>16
  <2>3. stack' = Append(stack, f)
    BY Zenon, <1>16
  <2> QED
    BY Zenon, <1>2, <1>3, <1>5, <1>8, <1>9, <1>14, <2>1, <2>2, <2>3, NewCallGoesOn
<1>17. CASE TxFor(stack, pool) = 0 /\ txs' = Opened(c, pool) /\ stack' = Append(stack, [f EXCEPT !.tx = Len(txs) + 1])
            /\ pc' = pc + 1 /\ UNCHANGED <<mode, fault>>
  <2>1. PICK t : t = Len(txs) + 1
    BY Zenon
  <2>2. /\ TxsMove(c) /\ LastTx(c, t)' /\ txs'[t].status = "open" /\ txs'[t].db = pool /\ t \in Nat \ {0}
        /\ OwnTx(c)' = OwnTx(c) \cup {t}
    <3>1. c \in Nat /\ pool \in Pools /\ txs' = Opened(c, pool) /\ program' = program
      BY Zenon, <1>3, <1>6, <1>8, <1>9, <1>17
    <3> QED
      BY Zenon, <1>10, <2>1, <3>1, OpensLast
  <2>3. PICK g : g = [f EXCEPT !.tx = t]
    BY Zenon
  <2>4. g \in FrameRecord /\ g.at = pc /\ g.call = c /\ g.tx = t /\ t # 0
    BY <1>14, <2>2, <2>3 DEF FrameRecord
  <2>5. stack' = Append(stack, g)
    BY Zenon, <1>17, <2>1, <2>3
  <2>6. \A i \in 1 .. Len(stack) : ~Bound(i, pool)
    BY Zenon, <1>12, <1>17, TxForBinds
  <2>7. \A u \in OwnTx(c)' : u = g.tx /\ txs'[u].status = "open"
    BY Zenon, <1>7, <2>2, <2>4
  <2>8. mode' = "run" /\ pc' \in Nat \ {0} /\ fault' \in [retryable : BOOLEAN, lost : BOOLEAN]
    BY Zenon, <1>2, <1>4, <1>11, <1>17
  <2>9. g.tx # 0 /\ g.tx \in OwnTx(c)' /\ LastTx(c, g.tx)' /\ txs'[g.tx].db = pool
    BY Zenon, <2>2, <2>4
  <2> QED
    BY Zenon, <1>2, <1>3, <1>5, <1>8, <1>9, <2>2, <2>4, <2>5, <2>6, <2>7, <2>8, <2>9, NewCallGoesOn
<1> QED
  BY Zenon, <1>5, <1>8, <1>13, <1>15, <1>16, <1>17 DEF Execute

\* No call moves while fn runs.
LEMMA QuietStep ==
    ASSUME TransactionInv, mode = "run", UNCHANGED <<stack, results, mode, fault>>, pc' \in Nat \ {0}, TxsMove(0),
           \A w \in auto' : ~w.inside
    PROVE  TransactionInv'
<1>1. TransactionTypes
  BY Zenon DEF TransactionInv
<1>2. PICK k \in Nat : k = Len(stack)
  BY <1>1 DEF TransactionTypes
<1>3. TransactionTypes'
  BY Zenon, <1>1 DEF TransactionTypes, TxsMove
<1>4. 0 \notin 1 .. Len(results)
  BY <1>1 DEF TransactionTypes
<1>5. ASSUME NEW i \in 1 .. k PROVE i \in 1 .. Len(stack) /\ Working(i) /\ stack[i].call # 0
  BY Zenon, <1>2, <1>4 DEF TransactionInv, FrameOK, Working
<1>6. mode' # "start"
  BY Zenon
<1>7. StepOf(0, k)
  BY Zenon, <1>3, <1>5, <1>6 DEF StepOf
<1>8. Len(stack') = k /\ mode' # "attemptFailed" /\ 0 \notin 1 .. Len(results')
  BY Zenon, <1>2, <1>4
<1> QED
  BY Zenon, <1>7, <1>8, CallReturns

\* A statement in a transaction of its pool.
LEMMA WriteMoves ==
    ASSUME TransactionInv, NEW t \in 1 .. Len(txs), NEW pool, pool = txs[t].db, NEW k \in Nat, program' = program,
           txs' = [txs EXCEPT ![t].writes = @ \cup {[at |-> k, db |-> pool]}]
    PROVE  TxsMove(0)
<1>1. txs \in Seq(TxRecord)
  BY Zenon DEF TransactionInv, TransactionTypes
<1>2. txs[t] \in TxRecord
  BY Zenon, <1>1, SeqAt
<1>3. PICK w : w = [at |-> k, db |-> pool]
  BY Zenon
<1>4. w \in [at : Nat, db : Pools] /\ w.db = pool
  BY <1>2, <1>3 DEF TxRecord
<1>5. PICK W : W = txs[t].writes \cup {w}
  BY Zenon
<1>6. PICK r : r = [txs[t] EXCEPT !.writes = W]
  BY Zenon
<1>7. W \in SUBSET [at : Nat, db : Pools]
  BY <1>2, <1>4, <1>5 DEF TxRecord
<1>8. r \in TxRecord /\ r.status = txs[t].status /\ r.db = pool /\ r.call = txs[t].call /\ r.writes = W
  BY <1>2, <1>6, <1>7 DEF TxRecord
<1>9. txs' = [txs EXCEPT ![t] = r]
  BY Zenon, <1>3, <1>5, <1>6
<1>10. txs' \in Seq(TxRecord) /\ Len(txs') = Len(txs)
  <2>1. r \in TxRecord
    BY Zenon, <1>8
  <2>2. PICK o \in Seq(TxRecord) : o = txs
    BY Zenon, <1>1
  <2>3. PICK q : q = [o EXCEPT ![t] = r]
    BY Zenon
  <2>4. t \in 1 .. Len(o) /\ q = txs'
    BY Zenon, <1>9, <2>2, <2>3
  <2>5. q \in Seq(TxRecord) /\ Len(q) = Len(o)
    BY <2>1, <2>3, <2>4
  <2> QED
    BY Zenon, <2>2, <2>4, <2>5
<1>11. txs'[t] = r /\ \A u \in 1 .. Len(txs) : u # t => txs'[u] = txs[u]
  BY <1>1, <1>8, <1>9, SeqPut
<1>12. \A u \in 1 .. Len(txs) : txs'[u].call = txs[u].call /\ txs'[u].db = txs[u].db /\ txs'[u].status = txs[u].status
  BY Zenon, <1>8, <1>11
<1>13. ASSUME NEW u \in 1 .. Len(txs), NEW v \in txs'[u].writes PROVE v.db = txs'[u].db
  <2>1. \A x \in txs[u].writes : x.db = txs[u].db
    BY Zenon DEF TransactionInv, TxOK
  <2>2. CASE u # t
    BY Zenon, <1>11, <1>13, <2>1, <2>2
  <2>3. CASE u = t
    <3>1. v \in txs[t].writes \/ v = w
      BY Zenon, <1>5, <1>8, <1>11, <1>13, <2>3
    <3> QED
      BY Zenon, <1>4, <1>12, <2>1, <2>3, <3>1
  <2> QED
    BY Zenon, <2>2, <2>3
<1> QED
  BY Zenon, <1>10, <1>12, <1>13 DEF TxsMove

LEMMA StatementStep ==
    ASSUME TransactionInv, Statement
    PROVE  TransactionInv'
<1>1. TransactionTypes
  BY Zenon DEF TransactionInv
<1>2. pc \in Nat \ {0} /\ mode = "run" /\ UNCHANGED <<program, stack, results>>
  BY Zenon, <1>1 DEF TransactionTypes, Statement
<1>3. pc + 1 \in Nat \ {0}
  BY <1>2
<1>4. PICK pool : pool = Op.db
  BY Zenon
<1>5. stack \in Seq(FrameRecord) /\ Len(stack) \in Nat
  BY <1>1 DEF TransactionTypes
<1>6. CASE mode' = "fail" /\ fault' \in {NoFault, [NoFault EXCEPT !.retryable = TRUE]} /\ UNCHANGED <<pc, txs, auto>>
  <2>1. fault' \in [retryable : BOOLEAN, lost : BOOLEAN]
    <3>1. NoFault \in [retryable : BOOLEAN, lost : BOOLEAN]
      BY DEF NoFault
    <3>2. [NoFault EXCEPT !.retryable = TRUE] \in [retryable : BOOLEAN, lost : BOOLEAN]
      BY <3>1
    <3> QED
      BY Zenon, <1>6, <3>1, <3>2
  <2> QED
    BY Zenon, <1>2, <1>6, <2>1, ModeStep
<1>7. CASE mode' = "panic" /\ UNCHANGED <<pc, fault, txs, auto>>
  <2>1. fault' \in [retryable : BOOLEAN, lost : BOOLEAN]
    BY Zenon, <1>1, <1>7 DEF TransactionTypes
  <2> QED
    BY Zenon, <1>2, <1>7, <2>1, ModeStep
<1>8. ASSUME NEW t, t = TxFor(stack, pool), t # 0, txs' = [txs EXCEPT ![t].writes = @ \cup {[at |-> pc, db |-> pool]}],
             pc' = pc + 1, UNCHANGED <<auto, mode, fault>>
      PROVE  TransactionInv'
  <2>1. PICK i \in 1 .. Len(stack) : Bound(i, pool) /\ t = stack[i].tx
    BY Zenon, <1>5, <1>8, TxForBinds
  <2>2. t \in 1 .. Len(txs) /\ pool = txs[t].db
    BY Zenon, <1>8, <2>1 DEF TransactionInv, FrameOK, LastTx, OwnTx, Bound
  <2>3. TxsMove(0)
    BY Zenon, <1>2, <1>8, <2>2, WriteMoves
  <2>4. \A w \in auto' : ~w.inside
    BY Zenon, <1>8 DEF TransactionInv
  <2> QED
    BY Zenon, <1>2, <1>3, <1>8, <2>3, <2>4, QuietStep
<1>9. ASSUME TxFor(stack, pool) = 0, txs' = txs, pc' = pc + 1, UNCHANGED <<mode, fault>>,
             auto' = auto \cup {[db |-> pool, inside |-> \E i \in 1 .. Len(stack) : program[stack[i].at].db = pool]}
      PROVE  TransactionInv'
  <2>1. \A i \in 1 .. Len(stack) : ~Bound(i, pool)
    BY Zenon, <1>5, <1>9, TxForBinds
  <2>2. \A i \in 1 .. Len(stack) : program[stack[i].at].db # pool
    <3> SUFFICES ASSUME NEW i \in 1 .. Len(stack) PROVE program[stack[i].at].db # pool
      BY Zenon
    <3>1. \E j \in 1 .. i : Bound(j, program[stack[i].at].db)
      BY Zenon, <1>2 DEF TransactionInv, FrameOK, Working
    <3>2. \A j \in 1 .. i : j \in 1 .. Len(stack)
      BY Zenon, <1>5, FramesBelow
    <3> QED
      BY Zenon, <2>1, <3>1, <3>2
  <2>3. PICK b \in BOOLEAN : b = (\E i \in 1 .. Len(stack) : program[stack[i].at].db = pool)
    BY Zenon
  <2>4. b = FALSE
    BY Zenon, <2>2, <2>3
  <2>5. PICK w : w = [db |-> pool, inside |-> FALSE]
    BY Zenon
  <2>6. ~w.inside
    BY <2>5
  <2>7. \A v \in auto' : ~v.inside
    <3>1. auto' = auto \cup {w}
      BY Zenon, <1>9, <2>3, <2>4, <2>5
    <3>2. \A v \in auto : ~v.inside
      BY Zenon DEF TransactionInv
    <3> QED
      BY Zenon, <2>6, <3>1, <3>2
  <2>8. TxsMove(0)
    BY Zenon, <1>2, <1>9, TxsStay
  <2> QED
    BY Zenon, <1>2, <1>3, <1>9, <2>7, <2>8, QuietStep
<1> QED
  BY Zenon, <1>4, <1>6, <1>7, <1>8, <1>9 DEF Statement

\* What a failed attempt of call c leaves behind.
OpenAfter(c) ==
    \A u \in OwnTx(c)' : /\ txs'[u].status \in {"rolledBack", "lost"}
                         /\ txs'[u].status = "lost" => fault'.lost /\ ~fault'.retryable /\ LastTx(c, u)'

LEMMA AttemptFails ==
    ASSUME TransactionInv, stack # <<>>, NEW c, c = Top.call, TxsMove(c), auto' = auto, results' = results,
           NEW f \in FrameRecord, f.call = c, f.at = Top.at, f.tx = 0, stack' = Append(Outer, f),
           pc' \in Nat \ {0}, fault' \in [retryable : BOOLEAN, lost : BOOLEAN],
           mode' = "attemptFailed", OpenAfter(c)
    PROVE  TransactionInv'
<1>1. PICK pool : pool = program[f.at].db
  BY Zenon
<1>2. stack'[Len(stack')] = f
  <2>1. PICK n : n = Len(stack)
    BY Zenon
  <2>2. PICK o \in Seq(FrameRecord) : o = Outer
    BY Zenon, <2>1, TopFacts
  <2>3. Len(Append(o, f)) = Len(o) + 1 /\ Append(o, f)[Len(o) + 1] = f
    BY SeqPush
  <2> QED
    BY Zenon, <2>2, <2>3
<1>3. OpenOK(Len(stack))'
  BY Zenon, <1>2 DEF OpenOK, OpenAfter
<1>4. (mode' = "attemptFailed" /\ f.tx = 0) \/ (mode' = "run" /\ f.tx # 0)
  BY Zenon
<1>5. f.tx # 0 => /\ LastTx(c, f.tx)' /\ txs'[f.tx].status = "open" /\ txs'[f.tx].db = pool
                  /\ \A i \in 1 .. Len(Outer) : ~Bound(i, pool)
  BY Zenon
<1> QED
  BY Zenon, <1>1, <1>3, <1>4, <1>5, TopGoesOn

LEMMA TopAgain ==
    ASSUME TransactionInv, stack # <<>>
    PROVE  stack = Append(Outer, Top)
<1>1. PICK s \in Seq(FrameRecord) : s = stack
  BY Zenon DEF TransactionInv, TransactionTypes
<1>2. PICK f \in FrameRecord : f = s[Len(s)] /\ f = Top
  <2>1. PICK n : n = Len(stack)
    BY Zenon
  <2>2. Top \in FrameRecord
    BY Zenon, <2>1, TopFacts
  <2> QED
    BY Zenon, <1>1, <2>2 DEF Top
<1>3. PICK q \in Seq(FrameRecord) : /\ q = Append(Outer, f) /\ Len(q) = Len(s)
                                    /\ q[Len(s)] = f /\ \A i \in (1 .. Len(s)) \ {Len(s)} : q[i] = s[i]
  <2>1. s # <<>> /\ Outer = SubSeq(s, 1, Len(s) - 1)
    BY Zenon, <1>1 DEF Outer
  <2>2. LET q == Append(SubSeq(s, 1, Len(s) - 1), f)
        IN  /\ q \in Seq(FrameRecord) /\ Len(q) = Len(s) /\ Len(s) \in 1 .. Len(s)
            /\ q[Len(s)] = f /\ \A i \in (1 .. Len(s)) \ {Len(s)} : q[i] = s[i]
    BY <2>1, SeqTop
  <2> QED
    BY Zenon, <2>1, <2>2
<1>4. \A i \in 1 .. Len(s) : q[i] = s[i]
  BY Zenon, <1>2, <1>3
<1>5. q = s
  BY <1>3, <1>4
<1> QED
  BY Zenon, <1>1, <1>2, <1>3, <1>5

\* Numbers that are each not above the other.
LEMMA SameNumber == \A i, j \in Nat : i <= j /\ j <= i => i = j
  OBVIOUS

\* fn has returned nil.
LEMMA FnReturnsStep ==
    ASSUME TransactionInv, FnReturns
    PROVE  TransactionInv'
<1>1. TransactionTypes
  BY Zenon DEF TransactionInv
<1>2. mode = "run" /\ stack # <<>> /\ program' = program /\ auto' = auto /\ pc \in Nat \ {0}
  BY Zenon, <1>1 DEF FnReturns, TransactionTypes
<1>3. pc + 1 \in Nat \ {0}
  BY <1>2
<1>4. fault \in [retryable : BOOLEAN, lost : BOOLEAN]
  BY Zenon, <1>1 DEF TransactionTypes
<1>5. PICK n : n = Len(stack)
  BY Zenon
<1>6. stack[n] = Top /\ Top \in FrameRecord /\ FrameOK(n) /\ OpenOK(n)
  BY Zenon, <1>2, <1>5, TopFacts
<1>7. PICK c, t : c = Top.call /\ t = Top.tx
  BY Zenon
<1>8. t = 0 => OwnTx(c) = {}
  BY Zenon, <1>2, <1>6, <1>7 DEF FrameOK, Working
<1>9. t # 0 => LastTx(c, t) /\ txs[t].call = c /\ t \in 1 .. Len(txs) /\ t \in OwnTx(c)
  BY Zenon, <1>6, <1>7 DEF FrameOK, LastTx, OwnTx
<1>10. \A u \in OwnTx(c) : u = t \/ txs[u].status = "rolledBack"
  BY Zenon, <1>2, <1>6, <1>7 DEF OpenOK
<1>11. CASE t = 0 /\ Finish("nil") /\ pc' = pc + 1 /\ UNCHANGED <<txs, mode, fault>>
  <2>1. TxsMove(c) /\ OwnTx(c)' = {}
    BY Zenon, <1>2, <1>8, <1>11, TxsStay
  <2>2. ReturnedOK(c)'
    BY Zenon, <2>1 DEF ReturnedOK
  <2>3. stack' = Outer /\ results' = [results EXCEPT ![c] = "nil"] /\ "nil" \in CallResult
    BY Zenon, <1>7, <1>11 DEF Finish, CallResult
  <2>4. pc' \in Nat \ {0} /\ mode' = "run" /\ fault' \in [retryable : BOOLEAN, lost : BOOLEAN]
    BY Zenon, <1>2, <1>3, <1>4, <1>11
  <2> QED
    BY Zenon, <1>2, <1>7, <2>1, <2>2, <2>3, <2>4, TopReturns
<1>12. CASE t # 0 /\ txs' = [txs EXCEPT ![t].status = "committed"] /\ Finish("nil") /\ pc' = pc + 1 /\ UNCHANGED <<mode, fault>>
  <2>1. /\ TxsMove(c) /\ txs'[t].status = "committed" /\ OwnTx(c)' = OwnTx(c)
        /\ \A u \in 1 .. Len(txs) : u # t => txs'[u].status = txs[u].status
        /\ \A u : LastTx(c, u)' <=> LastTx(c, u)
    BY Zenon, <1>2, <1>9, <1>12, StatusMoves
  <2>2. stack' = Outer /\ results' = [results EXCEPT ![c] = "nil"] /\ "nil" \in CallResult
    BY Zenon, <1>7, <1>12 DEF Finish, CallResult
  <2>3. results'[c] = "nil"
    <3>1. results \in Seq(CallResult) /\ c \in 1 .. Len(results)
      BY Zenon, <1>1, <1>6, <1>7 DEF TransactionTypes, FrameOK
    <3> QED
      BY <2>2, <3>1, SeqPut
  <2>4. \A u \in OwnTx(c) : LastTx(c, u) => u = t
    <3> SUFFICES ASSUME NEW u \in OwnTx(c), LastTx(c, u) PROVE u = t
      BY Zenon
    <3>1. u <= t /\ t <= u
      BY Zenon, <1>9, <1>12 DEF LastTx
    <3>2. u \in 1 .. Len(txs) /\ t \in 1 .. Len(txs)
      BY Zenon, <1>9, <1>12 DEF OwnTx
    <3>3. u \in Nat /\ t \in Nat
      BY <3>2
    <3> QED
      BY Zenon, <3>1, <3>3, SameNumber
  <2>5. ReturnedOK(c)'
    <3> SUFFICES ASSUME NEW u \in OwnTx(c)
                 PROVE  /\ txs'[u].status # "open"
                        /\ txs'[u].status = "committed" => LastTx(c, u)'
                        /\ LastTx(c, u)' => txs'[u].status = "committed"
                        /\ txs'[u].status # "lost"
      BY Zenon, <2>1, <2>3 DEF ReturnedOK
    <3>1. CASE u = t
      BY Zenon, <1>9, <1>12, <2>1, <3>1
    <3>2. CASE u # t
      <4>1. txs'[u].status = "rolledBack" /\ ~LastTx(c, u)
        BY Zenon, <1>10, <2>1, <2>4, <3>2 DEF OwnTx
      <4> QED
        BY Zenon, <2>1, <4>1
    <3> QED
      BY Zenon, <3>1, <3>2
  <2>6. pc' \in Nat \ {0} /\ mode' = "run" /\ fault' \in [retryable : BOOLEAN, lost : BOOLEAN]
    BY Zenon, <1>2, <1>3, <1>4, <1>12
  <2> QED
    BY Zenon, <1>2, <1>7, <2>1, <2>2, <2>5, <2>6, TopReturns
<1>13. ASSUME NEW lost \in BOOLEAN, t # 0, txs' = [txs EXCEPT ![t].status = IF lost THEN "lost" ELSE "rolledBack"],
              fault' = [retryable |-> ~lost, lost |-> lost], stack' = Append(Outer, [Top EXCEPT !.tx = 0]),
              mode' = "attemptFailed", UNCHANGED <<pc, results>>
       PROVE  TransactionInv'
  <2>1. PICK s \in {"rolledBack", "lost"} : s = IF lost THEN "lost" ELSE "rolledBack"
    BY Zenon
  <2>2. /\ TxsMove(c) /\ txs'[t].status = s /\ OwnTx(c)' = OwnTx(c)
        /\ \A u \in 1 .. Len(txs) : u # t => txs'[u].status = txs[u].status
        /\ \A u : LastTx(c, u)' <=> LastTx(c, u)
    BY Zenon, <1>2, <1>9, <1>13, <2>1, StatusMoves
  <2>3. fault' \in [retryable : BOOLEAN, lost : BOOLEAN] /\ fault'.lost = lost /\ fault'.retryable = ~lost
    BY <1>13
  <2>4. PICK f : f = [Top EXCEPT !.tx = 0]
    BY Zenon
  <2>5. f \in FrameRecord /\ f.tx = 0 /\ f.call = c /\ f.at = Top.at
    BY <1>6, <1>7, <2>4 DEF FrameRecord
  <2>6. stack' = Append(Outer, f) /\ pc' \in Nat \ {0}
    BY Zenon, <1>2, <1>13, <2>4
  <2>7. \A u \in OwnTx(c) : /\ txs'[u].status \in {"rolledBack", "lost"}
                            /\ txs'[u].status = "lost" => lost /\ LastTx(c, u)'
    <3> SUFFICES ASSUME NEW u \in OwnTx(c)
                 PROVE  txs'[u].status \in {"rolledBack", "lost"} /\ (txs'[u].status = "lost" => lost /\ LastTx(c, u)')
      BY Zenon
    <3>1. CASE u = t
      BY Zenon, <1>9, <1>13, <2>1, <2>2, <3>1
    <3>2. CASE u # t
      BY Zenon, <1>10, <2>2, <3>2 DEF OwnTx
    <3> QED
      BY Zenon, <3>1, <3>2
  <2>8. OpenAfter(c)
    BY Zenon, <2>2, <2>3, <2>7 DEF OpenAfter
  <2> QED
    BY Zenon, <1>2, <1>7, <1>13, <2>2, <2>3, <2>5, <2>6, <2>8, AttemptFails
<1> QED
  BY Zenon, <1>7, <1>11, <1>12, <1>13 DEF FnReturns

LEMMA FnFailsStep ==
    ASSUME TransactionInv, FnFails
    PROVE  TransactionInv'
<1>1. TransactionTypes
  BY Zenon DEF TransactionInv
<1>2. mode = "fail" /\ stack # <<>> /\ mode' = "attemptFailed" /\ UNCHANGED <<program, pc, fault, results, auto>>
  BY Zenon DEF FnFails
<1>3. pc' \in Nat \ {0} /\ fault' \in [retryable : BOOLEAN, lost : BOOLEAN]
  BY Zenon, <1>1, <1>2 DEF TransactionTypes
<1>4. PICK n : n = Len(stack)
  BY Zenon
<1>5. stack[n] = Top /\ Top \in FrameRecord /\ FrameOK(n) /\ OpenOK(n)
  BY Zenon, <1>2, <1>4, TopFacts
<1>6. PICK c, t : c = Top.call /\ t = Top.tx
  BY Zenon
<1>7. t # 0 => txs[t].call = c /\ t \in 1 .. Len(txs)
  BY Zenon, <1>5, <1>6 DEF FrameOK, LastTx, OwnTx
<1>8. \A u \in OwnTx(c) : u = t \/ txs[u].status = "rolledBack"
  BY Zenon, <1>2, <1>5, <1>6 DEF OpenOK
<1>9. PICK f : f = [Top EXCEPT !.tx = 0]
  BY Zenon
<1>10. f \in FrameRecord /\ f.tx = 0 /\ f.call = c /\ f.at = Top.at
  BY <1>5, <1>6, <1>9 DEF FrameRecord
<1>11. CASE t = 0 /\ UNCHANGED <<txs, stack>>
  <2>1. TxsMove(c) /\ OwnTx(c)' = OwnTx(c)
    BY Zenon, <1>2, <1>11, TxsStay
  <2>2. \A u \in OwnTx(c) : txs[u].status = "rolledBack"
    <3>1. 0 \notin 1 .. Len(txs)
      BY <1>1 DEF TransactionTypes
    <3> QED
      BY Zenon, <1>8, <1>11, <3>1 DEF OwnTx
  <2>3. OpenAfter(c)
    BY Zenon, <1>11, <2>1, <2>2 DEF OpenAfter
  <2>4. Top.tx = 0 /\ Top.call = c
    BY Zenon, <1>6, <1>11
  <2>5. stack' = Append(Outer, Top)
    BY Zenon, <1>2, <1>11, TopAgain
  <2> QED
    BY Zenon, <1>2, <1>3, <1>5, <2>1, <2>3, <2>4, <2>5, AttemptFails
<1>12. CASE t # 0 /\ txs' = [txs EXCEPT ![t].status = "rolledBack"] /\ stack' = Append(Outer, [Top EXCEPT !.tx = 0])
  <2>1. /\ TxsMove(c) /\ txs'[t].status = "rolledBack" /\ OwnTx(c)' = OwnTx(c)
        /\ \A u \in 1 .. Len(txs) : u # t => txs'[u].status = txs[u].status
    BY Zenon, <1>2, <1>7, <1>12, StatusMoves
  <2>2. \A u \in OwnTx(c) : txs'[u].status = "rolledBack"
    BY Zenon, <1>8, <2>1 DEF OwnTx
  <2>3. OpenAfter(c)
    BY Zenon, <2>1, <2>2 DEF OpenAfter
  <2>4. stack' = Append(Outer, f)
    BY Zenon, <1>9, <1>12
  <2> QED
    BY Zenon, <1>2, <1>3, <1>6, <1>10, <2>1, <2>3, <2>4, AttemptFails
<1> QED
  BY Zenon, <1>6, <1>11, <1>12 DEF FnFails

LEMMA FnPanicsStep ==
    ASSUME TransactionInv, FnPanics
    PROVE  TransactionInv'
<1>1. TransactionTypes
  BY Zenon DEF TransactionInv
<1>2. mode = "panic" /\ stack # <<>> /\ UNCHANGED <<program, pc, mode, fault, auto>>
  BY Zenon DEF FnPanics
<1>3. pc' \in Nat \ {0} /\ fault' \in [retryable : BOOLEAN, lost : BOOLEAN] /\ mode' = "panic"
  BY Zenon, <1>1, <1>2 DEF TransactionTypes
<1>4. PICK n : n = Len(stack)
  BY Zenon
<1>5. stack[n] = Top /\ Top \in FrameRecord /\ FrameOK(n) /\ OpenOK(n)
  BY Zenon, <1>2, <1>4, TopFacts
<1>6. PICK c, t : c = Top.call /\ t = Top.tx
  BY Zenon
<1>7. t # 0 => txs[t].call = c /\ t \in 1 .. Len(txs)
  BY Zenon, <1>5, <1>6 DEF FrameOK, LastTx, OwnTx
<1>8. \A u \in OwnTx(c) : u = t \/ txs[u].status = "rolledBack"
  BY Zenon, <1>2, <1>5, <1>6 DEF OpenOK
<1>9. stack' = Outer /\ results' = [results EXCEPT ![c] = "panic"] /\ "panic" \in CallResult
  BY Zenon, <1>6 DEF FnPanics, Finish, CallResult
<1>10. TxsMove(c) /\ OwnTx(c)' = OwnTx(c) /\ \A u \in OwnTx(c) : txs'[u].status = "rolledBack"
  <2>1. CASE t = 0 /\ txs' = txs
    <3>1. 0 \notin 1 .. Len(txs)
      BY <1>1 DEF TransactionTypes
    <3>2. \A u \in OwnTx(c) : txs[u].status = "rolledBack"
      BY Zenon, <1>8, <2>1, <3>1 DEF OwnTx
    <3> QED
      BY Zenon, <1>2, <2>1, <3>2, TxsStay
  <2>2. CASE t # 0 /\ txs' = [txs EXCEPT ![t].status = "rolledBack"]
    <3>1. /\ TxsMove(c) /\ txs'[t].status = "rolledBack" /\ OwnTx(c)' = OwnTx(c)
          /\ \A u \in 1 .. Len(txs) : u # t => txs'[u].status = txs[u].status
      BY Zenon, <1>2, <1>7, <2>2, StatusMoves
    <3> QED
      BY Zenon, <1>8, <3>1 DEF OwnTx
  <2> QED
    BY Zenon, <1>6, <2>1, <2>2 DEF FnPanics
<1>11. results'[c] = "panic"
  <2>1. results \in Seq(CallResult) /\ c \in 1 .. Len(results)
    BY Zenon, <1>1, <1>5, <1>6 DEF TransactionTypes, FrameOK
  <2> QED
    BY <1>9, <2>1, SeqPut
<1>12. ReturnedOK(c)'
  BY Zenon, <1>10, <1>11 DEF ReturnedOK
<1> QED
  BY Zenon, <1>2, <1>3, <1>6, <1>9, <1>10, <1>12, TopReturns

\* What the call in progress left behind when its attempt failed.
LEMMA FailedFacts ==
    ASSUME TransactionInv, mode = "attemptFailed", NEW c, c = Top.call
    PROVE  /\ stack # <<>> /\ Top \in FrameRecord /\ Top.tx = 0 /\ c \in 1 .. Len(results) /\ c \in Nat
           /\ Top.at \in 1 .. Len(program) /\ program[Top.at].op = "execute"
           /\ \A u \in OwnTx(c) : /\ txs[u].status \in {"rolledBack", "lost"}
                                  /\ txs[u].status = "lost" => fault.lost /\ ~fault.retryable /\ LastTx(c, u)
<1>1. stack # <<>> /\ Top.tx = 0 /\ TransactionTypes
  BY Zenon DEF TransactionInv
<1>2. PICK n : n = Len(stack)
  BY Zenon
<1>3. stack[n] = Top /\ Top \in FrameRecord /\ FrameOK(n) /\ OpenOK(n)
  BY Zenon, <1>1, <1>2, TopFacts
<1>4. 0 \notin 1 .. Len(txs)
  BY <1>1 DEF TransactionTypes
<1>5. \A u \in OwnTx(c) : /\ txs[u].status \in {"rolledBack", "lost"}
                          /\ txs[u].status = "lost" => fault.lost /\ ~fault.retryable /\ LastTx(c, u)
  <2> SUFFICES ASSUME NEW u \in OwnTx(c)
               PROVE  /\ txs[u].status \in {"rolledBack", "lost"}
                      /\ txs[u].status = "lost" => fault.lost /\ ~fault.retryable /\ LastTx(c, u)
    BY Zenon
  <2>1. u # 0
    BY Zenon, <1>4 DEF OwnTx
  <2>2. /\ txs[u].status \in {"open", "rolledBack", "lost"}
        /\ txs[u].status = "open" => u = 0
        /\ txs[u].status = "lost" => fault.lost /\ ~fault.retryable /\ LastTx(c, u)
    BY Zenon, <1>1, <1>3 DEF OpenOK
  <2> QED
    BY Zenon, <2>1, <2>2
<1>6. c \in 1 .. Len(results) /\ Top.at \in 1 .. Len(program) /\ program[Top.at].op = "execute"
  BY Zenon, <1>3 DEF FrameOK
<1>7. c \in Nat
  BY <1>6
<1> QED
  BY Zenon, <1>1, <1>3, <1>5, <1>6, <1>7

LEMMA RetryStep ==
    ASSUME TransactionInv, Retry
    PROVE  TransactionInv'
<1>1. TransactionTypes
  BY Zenon DEF TransactionInv
<1>2. mode = "attemptFailed" /\ fault.retryable /\ UNCHANGED <<program, results, auto>>
  BY Zenon DEF Retry, MayRetry
<1>3. PICK c, pool : c = Top.call /\ pool = program[Top.at].db
  BY Zenon
<1>4. /\ stack # <<>> /\ Top \in FrameRecord /\ Top.tx = 0 /\ c \in 1 .. Len(results) /\ c \in Nat
      /\ Top.at \in 1 .. Len(program) /\ program[Top.at].op = "execute"
      /\ \A u \in OwnTx(c) : txs[u].status = "rolledBack"
  BY Zenon, <1>2, <1>3, FailedFacts
<1>5. \A i \in 1 .. Len(Outer) : ~Bound(i, pool)
  <2>1. PICK n : n = Len(stack)
    BY Zenon
  <2>2. PICK o : o = Outer
    BY Zenon
  <2>3. Len(o) \in Nat /\ \A i \in 1 .. Len(o) : o[i] = stack[i] /\ i \in 1 .. Len(stack)
    BY Zenon, <1>4, <2>1, <2>2, TopFacts
  <2>4. TxFor(o, pool) = 0
    BY Zenon, <1>3, <2>2 DEF Retry, MayRetry
  <2>5. 1 .. Len(o) \subseteq 1 .. Len(stack)
    BY Zenon, <2>3
  <2> QED
    BY Zenon, <2>2, <2>3, <2>4, <2>5, TxForBinds
<1>6. NoFault \in [retryable : BOOLEAN, lost : BOOLEAN] /\ fault \in [retryable : BOOLEAN, lost : BOOLEAN]
      /\ pc \in Nat \ {0}
  BY <1>1 DEF NoFault, TransactionTypes
<1>7. Top.at \in Nat \ {0} /\ Top.at <= Len(program) /\ Top.at + 1 \in Nat \ {0} /\ Top.attempt + 1 \in Nat
  <2>1. PICK k : k = Top.at
    BY Zenon
  <2>2. k \in Nat /\ Top.attempt \in Nat
    BY <1>4, <2>1 DEF FrameRecord
  <2>3. Len(program) \in Nat
    <3>1. program \in Programs \cup {<<>>}
      BY Zenon, <1>1 DEF TransactionTypes
    <3>2. Len(<<>>) \in Nat
      OBVIOUS
    <3> QED
      BY Zenon, <3>1, <3>2, TransactionAssumption
  <2>4. k \in 1 .. Len(program)
    BY Zenon, <1>4, <2>1
  <2>5. k \in Nat \ {0} /\ k <= Len(program) /\ k + 1 \in Nat \ {0} /\ Top.attempt + 1 \in Nat
    BY <2>2, <2>3, <2>4
  <2> QED
    BY Zenon, <2>1, <2>5
<1>8. CASE mode' = "panic" /\ UNCHANGED <<pc, stack, fault, txs>>
  <2>1. fault' \in [retryable : BOOLEAN, lost : BOOLEAN]
    BY Zenon, <1>6, <1>8
  <2> QED
    BY Zenon, <1>2, <1>8, <2>1, ModeStep
<1>9. CASE /\ txs' = Opened(Top.call, program[Top.at].db)
           /\ stack' = Append(Outer, [Top EXCEPT !.attempt = @ + 1, !.tx = Len(txs) + 1])
           /\ mode' = "run" /\ fault' = NoFault /\ pc' = Top.at + 1
  <2>1. PICK t : t = Len(txs) + 1
    BY Zenon
  <2>2. /\ TxsMove(c) /\ LastTx(c, t)' /\ txs'[t].status = "open" /\ txs'[t].db = pool /\ t \in Nat \ {0}
        /\ OwnTx(c)' = OwnTx(c) \cup {t} /\ \A u \in OwnTx(c) : txs'[u].status = txs[u].status
    <3>1. pool \in Pools
      BY Zenon, <1>3, <1>4, <1>7, OpFacts
    <3>2. txs' = Opened(c, pool) /\ program' = program /\ c \in 1 .. Len(results') /\ c \in Nat
      BY Zenon, <1>2, <1>3, <1>4, <1>9
    <3> QED
      BY Zenon, <2>1, <3>1, <3>2, OpensLast
  <2>3. PICK f : f = [Top EXCEPT !.attempt = @ + 1, !.tx = t]
    BY Zenon
  <2>4. f \in FrameRecord /\ f.tx = t /\ f.call = c /\ f.at = Top.at /\ f.tx # 0
    BY <1>3, <1>4, <1>7, <2>2, <2>3 DEF FrameRecord
  <2>5. stack' = Append(Outer, f) /\ mode' = "run" /\ pc' \in Nat \ {0}
        /\ fault' \in [retryable : BOOLEAN, lost : BOOLEAN]
    BY Zenon, <1>6, <1>7, <1>9, <2>1, <2>3
  <2>6. stack'[Len(stack')] = f
    <3>1. PICK n : n = Len(stack)
      BY Zenon
    <3>2. PICK o \in Seq(FrameRecord) : o = Outer
      BY Zenon, <1>4, <3>1, TopFacts
    <3>3. Len(Append(o, f)) = Len(o) + 1 /\ Append(o, f)[Len(o) + 1] = f
      BY <2>4, SeqPush
    <3> QED
      BY Zenon, <2>5, <3>2, <3>3
  <2>7. \A u \in OwnTx(c)' : /\ txs'[u].status \in {"open", "rolledBack"}
                             /\ txs'[u].status = "open" => u = t
    BY Zenon, <1>4, <2>2
  <2>8. OpenOK(Len(stack))'
    BY Zenon, <2>4, <2>6, <2>7 DEF OpenOK
  <2>9. /\ LastTx(c, f.tx)' /\ txs'[f.tx].status = "open" /\ txs'[f.tx].db = pool /\ pool = program[f.at].db
    BY Zenon, <1>3, <2>2, <2>4
  <2> QED
    BY Zenon, <1>2, <1>3, <1>4, <1>5, <2>2, <2>4, <2>5, <2>8, <2>9, TopGoesOn
<1>10. CASE /\ stack' = Append(Outer, [Top EXCEPT !.attempt = @ + 1]) /\ fault' = NoFault
            /\ UNCHANGED <<mode, pc, txs>>
  <2>1. TxsMove(c) /\ OwnTx(c)' = OwnTx(c)
    BY Zenon, <1>2, <1>10, TxsStay
  <2>2. OpenAfter(c)
    BY Zenon, <1>4, <1>10, <2>1 DEF OpenAfter
  <2>3. PICK f : f = [Top EXCEPT !.attempt = @ + 1]
    BY Zenon
  <2>4. f \in FrameRecord /\ f.tx = 0 /\ f.call = c /\ f.at = Top.at
    BY <1>3, <1>4, <1>7, <2>3 DEF FrameRecord
  <2>5. stack' = Append(Outer, f) /\ mode' = "attemptFailed" /\ pc' \in Nat \ {0}
        /\ fault' \in [retryable : BOOLEAN, lost : BOOLEAN]
    BY Zenon, <1>2, <1>6, <1>10, <2>3
  <2> QED
    BY Zenon, <1>2, <1>3, <1>4, <2>1, <2>2, <2>4, <2>5, AttemptFails
<1> QED
  BY Zenon, <1>8, <1>9, <1>10 DEF Retry

LEMMA GiveUpStep ==
    ASSUME TransactionInv, GiveUp
    PROVE  TransactionInv'
<1>1. TransactionTypes
  BY Zenon DEF TransactionInv
<1>2. mode = "attemptFailed" /\ UNCHANGED <<program, txs, auto>>
  BY Zenon DEF GiveUp
<1>3. PICK c : c = Top.call
  BY Zenon
<1>4. /\ stack # <<>> /\ Top \in FrameRecord /\ c \in 1 .. Len(results)
      /\ Top.at \in 1 .. Len(program) /\ program[Top.at].op = "execute"
      /\ \A u \in OwnTx(c) : /\ txs[u].status \in {"rolledBack", "lost"}
                             /\ txs[u].status = "lost" => fault.lost /\ LastTx(c, u)
  BY Zenon, <1>2, <1>3, FailedFacts
<1>5. PICK r \in {"lost", "err"} : r = IF fault.lost THEN "lost" ELSE "err"
  BY Zenon
<1>6. stack' = Outer /\ results' = [results EXCEPT ![c] = r] /\ r \in CallResult
  BY Zenon, <1>3, <1>5 DEF GiveUp, Finish, CallResult
<1>7. results'[c] = r
  <2>1. results \in Seq(CallResult)
    BY Zenon, <1>1 DEF TransactionTypes
  <2> QED
    BY <1>4, <1>6, <2>1, SeqPut
<1>8. TxsMove(c) /\ OwnTx(c)' = OwnTx(c) /\ \A t : LastTx(c, t)' <=> LastTx(c, t)
  BY Zenon, <1>2, TxsStay
<1>9. ReturnedOK(c)'
  BY Zenon, <1>2, <1>4, <1>5, <1>7, <1>8 DEF ReturnedOK
<1>10. program[Top.at].end + 1 \in Nat \ {0}
  <2>1. PICK k : k = Top.at
    BY Zenon
  <2>2. k \in 1 .. Len(program) /\ program \in Programs \cup {<<>>} /\ program[k].op = "execute"
    BY Zenon, <1>1, <1>4, <2>1 DEF TransactionTypes
  <2>3. 1 .. Len(<<>>) = {}
    OBVIOUS
  <2>4. program[k].end \in Nat
    BY Zenon, <2>2, <2>3, TransactionAssumption
  <2>5. program[k].end + 1 \in Nat \ {0}
    BY <2>4
  <2> QED
    BY Zenon, <2>1, <2>5
<1>11. /\ pc' \in Nat \ {0} /\ fault' \in [retryable : BOOLEAN, lost : BOOLEAN] /\ mode' \in {"run", "fail", "panic"}
  <2>1. NoFault \in [retryable : BOOLEAN, lost : BOOLEAN]
    BY DEF NoFault
  <2> QED
    BY Zenon, <1>1, <1>10, <2>1 DEF TransactionTypes, GiveUp
<1> QED
  BY Zenon, <1>2, <1>3, <1>4, <1>6, <1>8, <1>9, <1>11, TopReturns

\* Whatever the callers' programs, and wherever a transaction fails to open, a
\* statement fails, fn panics or a commit fails or is lost: a statement runs in
\* the transaction of its pool, a returned Execute has none open, nil means its
\* last attempt and only that one is committed, and a lost commit is not
\* repeated.
THEOREM ExecuteIsAtomic == TransactionSpec => []ExecuteAtomic
<1>1. TransactionInit => TransactionInv
  <2> SUFFICES ASSUME TransactionInit PROVE TransactionInv
    OBVIOUS
  <2>1. 1 .. Len(<<>>) = {}
    OBVIOUS
  <2>2. pc \in Nat \ {0} /\ fault \in [retryable : BOOLEAN, lost : BOOLEAN]
        /\ stack \in Seq(FrameRecord) /\ txs \in Seq(TxRecord) /\ results \in Seq(CallResult)
    BY DEF TransactionInit, NoFault
  <2>3. TransactionTypes
    BY Zenon, <2>2 DEF TransactionInit, TransactionTypes
  <2>4. 1 .. Len(stack) = {} /\ 1 .. Len(txs) = {} /\ 1 .. Len(results) = {}
    BY Zenon, <2>1 DEF TransactionInit
  <2> QED
    BY Zenon, <2>3, <2>4 DEF TransactionInit, TransactionInv, OneEach
<1>2. TransactionInv /\ [TransactionNext]_txVars => TransactionInv'
  <2> SUFFICES ASSUME TransactionInv, [TransactionNext]_txVars PROVE TransactionInv'
    OBVIOUS
  <2>1. CASE UNCHANGED txVars
    <3>1. UNCHANGED <<program, pc, stack, mode, fault, txs, results, auto>>
      BY Zenon, <2>1 DEF txVars
    <3>2. TransactionTypes' /\ OneEach(Len(stack))'
      BY ZenonT(40), <3>1 DEF TransactionInv, TransactionTypes, OneEach, Bound
    <3>3. \A i \in 1 .. Len(stack) : FrameOK(i)' /\ OpenOK(i)'
      <4>1. \A c, t : OwnTx(c)' = OwnTx(c) /\ (LastTx(c, t)' <=> LastTx(c, t))
        BY Zenon, <3>1 DEF LastTx, OwnTx
      <4>2. \A i, p : (Working(i)' <=> Working(i)) /\ (Bound(i, p)' <=> Bound(i, p))
        BY Zenon, <3>1 DEF Working, Bound
      <4>3. ASSUME NEW i \in 1 .. Len(stack) PROVE FrameOK(i)'
        <5>1. FrameOK(i)
          BY Zenon DEF TransactionInv
        <5> QED
          BY Zenon, <3>1, <4>1, <4>2, <5>1 DEF FrameOK
      <4>4. ASSUME NEW i \in 1 .. Len(stack) PROVE OpenOK(i)'
        <5>1. OpenOK(i)
          BY Zenon DEF TransactionInv
        <5> QED
          BY Zenon, <3>1, <4>1, <5>1 DEF OpenOK
      <4> QED
        BY Zenon, <4>3, <4>4
    <3>4. \A c \in 1 .. Len(results) : results[c] # "open" => ReturnedOK(c)'
      <4>1. \A c, t : OwnTx(c)' = OwnTx(c) /\ (LastTx(c, t)' <=> LastTx(c, t))
        BY Zenon, <3>1 DEF LastTx, OwnTx
      <4> QED
        BY Zenon, <3>1, <4>1 DEF TransactionInv, ReturnedOK
    <3>5. \A t \in 1 .. Len(txs) : TxOK(t)'
      BY Zenon, <3>1 DEF TransactionInv, TxOK
    <3> QED
      BY Zenon, <3>1, <3>2, <3>3, <3>4, <3>5 DEF TransactionInv, Top
  <2> QED
    BY Zenon, <2>1, CallerStepStep, ExecuteStep, StatementStep, FnReturnsStep, FnFailsStep, FnPanicsStep, RetryStep,
       GiveUpStep DEF TransactionNext
<1>3. TransactionInv => ExecuteAtomic
  <2> SUFFICES ASSUME TransactionInv PROVE ExecuteAtomic
    OBVIOUS
  <2>1. \A t \in 1 .. Len(txs) : \A w \in txs[t].writes : w.db = txs[t].db
    BY Zenon DEF TransactionInv, TxOK
  <2>2. \A w \in auto : ~w.inside
    BY Zenon DEF TransactionInv
  <2>3. ASSUME NEW c \in 1 .. Len(results), results[c] # "open"
        PROVE  LET own == {t \in 1 .. Len(txs) : txs[t].call = c}
                   last(t) == \A u \in own : u <= t
                   with(s) == {t \in own : txs[t].status = s}
               IN  /\ with("open") = {}
                   /\ \A t \in with("committed") : last(t) /\ results[c] = "nil"
                   /\ results[c] = "nil" => \A t \in own : last(t) => t \in with("committed")
                   /\ \A t \in with("lost") : last(t) /\ results[c] = "lost"
    <3> DEFINE own == {t \in 1 .. Len(txs) : txs[t].call = c}
               last(t) == \A u \in own : u <= t
               with(s) == {t \in own : txs[t].status = s}
    <3>1. \A t \in own : /\ txs[t].status # "open"
                         /\ txs[t].status = "committed" => last(t) /\ results[c] = "nil"
                         /\ results[c] = "nil" /\ last(t) => txs[t].status = "committed"
                         /\ txs[t].status = "lost" => last(t) /\ results[c] = "lost"
      <4>1. ReturnedOK(c)
        BY Zenon, <2>3 DEF TransactionInv
      <4>2. own = OwnTx(c)
        BY Zenon DEF OwnTx
      <4> HIDE DEF own
      <4>3. \A t \in own : LastTx(c, t) <=> last(t)
        BY Zenon, <4>2 DEF LastTx
      <4> HIDE DEF last
      <4> QED
        BY Zenon, <4>1, <4>2, <4>3 DEF ReturnedOK
    <3>2. with("open") = {}
      BY Zenon, <3>1
    <3>3. \A t \in with("committed") : last(t) /\ results[c] = "nil"
      BY Zenon, <3>1
    <3>4. results[c] = "nil" => \A t \in own : last(t) => t \in with("committed")
      BY Zenon, <3>1
    <3>5. \A t \in with("lost") : last(t) /\ results[c] = "lost"
      BY Zenon, <3>1
    <3> QED
      BY Zenon, <3>2, <3>3, <3>4, <3>5
  <2> QED
    BY Zenon, <2>1, <2>2, <2>3 DEF ExecuteAtomic
<1> QED
  BY <1>1, <1>2, <1>3, PTL DEF TransactionSpec
==============================================================================
