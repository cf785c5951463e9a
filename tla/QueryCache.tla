----------------------------- MODULE QueryCache -----------------------------
(***************************************************************************)
(* sqln.Manager reading one query through the Redis cache: the choice of   *)
(* pool (readDB), the cache key, the collapse of concurrent misses (dedup) *)
(* and cache.Del after a write, against a primary whose replica lags.      *)
(*                                                                         *)
(* The rows a query returns are the version of the table it read and the   *)
(* cache scope (the tenant) it read it for.                                *)
(***************************************************************************)
EXTENDS Integers, FiniteSets

CONSTANTS Caller,        \* goroutines of one process: they share its flights
          Scopes,        \* cache scopes
          MaxVersion     \* bound on the writes

VARIABLES db, redis, flight, call

qcVars == <<db, redis, flight, call>>

Nobody == "nobody"

ASSUME QueryCacheAssumption == MaxVersion \in Nat /\ Scopes # {} /\ Nobody \notin Caller

NoRows == [version |-> -1, scope |-> Nobody]
Rows == [version : -1 .. MaxVersion, scope : Scopes \cup {Nobody}]

Idle == [pc |-> "idle", scope |-> Nobody, primary |-> FALSE, rows |-> NoRows,
         since |-> 0, keys |-> {}]

QueryCacheInit ==
  /\ db = [primary |-> 0, replica |-> 0, next |-> 1, aborted |-> {}, writer |-> Nobody]
  /\ redis = [entries |-> [s \in Scopes |-> NoRows], index |-> {}]
  /\ flight = [s \in Scopes |-> Nobody]
  /\ call = [c \in Caller |-> Idle]

InTx(c) == db.writer = c

(* readDB: the primary when asked for it or inside a transaction of it.    *)
ReadDB(c, primary) == IF primary \/ InTx(c) THEN "primary" ELSE "replica"

(* cacheKey: neither a read of the primary nor one inside a transaction    *)
(* has a key.                                                              *)
CacheKey(c, primary) == ~primary /\ ~InTx(c)

\* The rows of the table as c's query on that pool sees them: its own
\* transaction's, else the last committed version.
Fetch(c, pool) ==
  [scope |-> call[c].scope,
   version |-> IF InTx(c) THEN db.next - 1 ELSE IF pool = "primary" THEN db.primary ELSE db.replica]

(* Execute, List, UniqueResult or PagedList: resolve the pool and the key. *)
Query(c) ==
  /\ call[c].pc = "idle"
  /\ \E s \in Scopes, p \in BOOLEAN :
       call' = [call EXCEPT ![c] = [Idle EXCEPT !.scope = s, !.primary = p,
                  !.since = IF p THEN db.primary ELSE 0,
                  !.pc = IF CacheKey(c, p) THEN "get" ELSE "direct"]]
  /\ UNCHANGED <<db, redis, flight>>

Return(c, rows) == [call EXCEPT ![c].pc = "returned", ![c].rows = rows]

(* Without a key the query just runs, or fails.                            *)
FetchDirect(c) ==
  /\ call[c].pc = "direct"
  /\ \/ call' = Return(c, Fetch(c, ReadDB(c, call[c].primary)))
     \/ call' = [call EXCEPT ![c] = Idle]
  /\ UNCHANGED <<db, redis, flight>>

(* GetKeyed: a hit returns; a miss, or Redis failing, goes to the flight.  *)
GetKeyed(c) ==
  /\ call[c].pc = "get"
  /\ LET e == redis.entries[call[c].scope] IN
     \/ /\ e # NoRows
        /\ call' = Return(c, e)
     \/ call' = [call EXCEPT ![c].pc = "do"]
  /\ UNCHANGED <<db, redis, flight>>

\* A flight per query, whatever its scope.
FlightOfAny(s) == CHOOSE t \in Scopes : \A u \in Scopes : flight[t] # Nobody \/ flight[u] = Nobody

(* The flight a key's callers share: the key holds the scope.              *)
FlightOf(s) == s

(* flights.Do: the first caller of a key leads, the others wait for it.    *)
Do(c) ==
  /\ call[c].pc = "do"
  /\ LET f == FlightOf(call[c].scope) IN
     IF flight[f] = Nobody
     THEN /\ flight' = [flight EXCEPT ![f] = c]
          /\ call' = [call EXCEPT ![c].pc = "lead"]
     ELSE /\ call' = [call EXCEPT ![c].pc = "wait", ![c].keys = {f}]
          /\ UNCHANGED flight
  /\ UNCHANGED <<db, redis>>

\* The callers that share the leader's outcome.
Followers(f) == {d \in Caller : call[d].pc = "wait" /\ f \in call[d].keys}

LedBy(c) == CHOOSE f \in Scopes : flight[f] = c

(* The leader's fetch fails, its context canceled for one: every follower  *)
(* gets the same error.                                                    *)
LeaderFails(c) ==
  /\ call[c].pc = "lead"
  /\ call' = [d \in Caller |-> IF d = c \/ d \in Followers(LedBy(c)) THEN Idle ELSE call[d]]
  /\ flight' = [flight EXCEPT ![LedBy(c)] = Nobody]
  /\ UNCHANGED <<db, redis>>

LeaderFetches(c) ==
  /\ call[c].pc = "lead"
  /\ call' = [call EXCEPT ![c].pc = "store", ![c].rows = Fetch(c, ReadDB(c, call[c].primary))]
  /\ UNCHANGED <<db, redis, flight>>

(* SetKeyed writes the entry and its index member in one Redis             *)
(* transaction; the cache is best effort.                                  *)
StoreInCache(c) ==
  /\ call[c].pc = "store"
  /\ \/ redis' = [redis EXCEPT !.entries[call[c].scope] = call[c].rows,
                               !.index = @ \cup {call[c].scope}]
     \/ UNCHANGED redis
  /\ call' = [call EXCEPT ![c].pc = "land"]
  /\ UNCHANGED <<db, flight>>

(* The flight ends: the leader and its followers return the same rows.     *)
FlightLands(c) ==
  /\ call[c].pc = "land"
  /\ call' = [d \in Caller |->
                IF d = c \/ d \in Followers(LedBy(c))
                THEN [call[d] EXCEPT !.pc = "returned", !.rows = call[c].rows] ELSE call[d]]
  /\ flight' = [flight EXCEPT ![LedBy(c)] = Nobody]
  /\ UNCHANGED <<db, redis>>

Returned(c) ==
  /\ call[c].pc = "returned"
  /\ call' = [call EXCEPT ![c] = Idle]
  /\ UNCHANGED <<db, redis, flight>>

(* A caller's transaction writes the table; the row lock lets one in.      *)
Write(c) ==
  /\ call[c].pc = "idle" /\ db.writer = Nobody /\ db.next <= MaxVersion
  /\ db' = [db EXCEPT !.writer = c, !.next = @ + 1]
  /\ UNCHANGED <<redis, flight, call>>

Rollback(c) ==
  /\ call[c].pc = "idle" /\ InTx(c)
  /\ db' = [db EXCEPT !.writer = Nobody, !.aborted = @ \cup {db.next - 1}]
  /\ UNCHANGED <<redis, flight, call>>

(* Commit, then the caller drops what the cache holds with Del.            *)
Commit(c) ==
  /\ call[c].pc = "idle" /\ InTx(c)
  /\ db' = [db EXCEPT !.writer = Nobody, !.primary = db.next - 1]
  /\ call' = [call EXCEPT ![c].pc = "members"]
  /\ UNCHANGED <<redis, flight>>

(* del reads the index ...                                                 *)
DelMembers(c) ==
  /\ call[c].pc = "members"
  /\ \/ call' = [call EXCEPT ![c].pc = "del", ![c].keys = redis.index]
     \/ call' = [call EXCEPT ![c] = Idle]         \* Redis fails
  /\ UNCHANGED <<db, redis, flight>>

(* ... and removes the entries it listed together with the index.          *)
DelKeys(c) ==
  /\ call[c].pc = "del"
  /\ redis' = [entries |-> [s \in Scopes |-> IF s \in call[c].keys THEN NoRows ELSE redis.entries[s]],
               index |-> {}]
  /\ call' = [call EXCEPT ![c] = Idle]
  /\ UNCHANGED <<db, flight>>

(* External: the replica applies a committed version, and an entry's TTL   *)
(* ends.                                                                   *)
Replicate ==
  /\ db.replica < db.primary
  /\ \E v \in (db.replica + 1 .. db.primary) \ db.aborted : db' = [db EXCEPT !.replica = v]
  /\ UNCHANGED <<redis, flight, call>>

EntryExpires ==
  /\ \E s \in Scopes : /\ redis.entries[s] # NoRows
                       /\ redis' = [redis EXCEPT !.entries[s] = NoRows]
  /\ UNCHANGED <<db, flight, call>>

QueryCacheNext ==
  \/ \E c \in Caller :
       \/ Query(c) \/ FetchDirect(c) \/ GetKeyed(c) \/ Do(c)
       \/ LeaderFails(c) \/ LeaderFetches(c) \/ StoreInCache(c) \/ FlightLands(c)
       \/ Returned(c) \/ Write(c) \/ Rollback(c) \/ Commit(c)
       \/ DelMembers(c) \/ DelKeys(c)
  \/ Replicate \/ EntryExpires

QueryCacheSpec == QueryCacheInit /\ [][QueryCacheNext]_qcVars

-----------------------------------------------------------------------------
Committed(v) == v <= db.primary /\ v \notin db.aborted

(***************************************************************************)
(* What WithCache and FromPrimary promise, with flights, entries and       *)
(* transactions interleaving: the rows a caller gets are committed or its  *)
(* own transaction's, are those of its scope, and when it asked for the    *)
(* primary are at least as new as the last commit before it asked.  What   *)
(* the cache holds is committed.                                           *)
(***************************************************************************)
RowsServed ==
  /\ \A s \in Scopes : LET e == redis.entries[s] IN
       e # NoRows => Committed(e.version) /\ e.scope = s
  /\ \A c \in Caller : LET r == call[c].rows IN
       call[c].pc = "returned" =>
         /\ r.scope = call[c].scope
         /\ IF InTx(c) THEN r.version = db.next - 1 ELSE Committed(r.version)
         /\ call[c].primary => r.version >= call[c].since

=============================================================================
