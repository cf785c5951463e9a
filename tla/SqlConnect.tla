----------------------------- MODULE SqlConnect -----------------------------
(***************************************************************************)
(* sqln/connection.NewConnection and the full-text indexes it requires     *)
(* (sqln/fts): the pools an instance opens, the migrations it runs, and    *)
(* the check or creation of an index against the catalog before a search   *)
(* may use it.  Several instances share one database.                      *)
(*                                                                         *)
(* The catalog maps each object of the index to the version of the         *)
(* definition it was made from; 0 is an object that is not there.          *)
(* cfg.version is the version each instance's program defines: a rolling   *)
(* deployment runs two of them.                                            *)
(***************************************************************************)
EXTENDS Integers, Sequences, FiniteSets

CONSTANTS Instance,     \* service instances on the same database
          Settings,     \* configurations: replica, migrations, policy, ...
          Catalogs      \* what the database may hold at the start

Dirty == -1             \* the migration version after a file failed
Invalid == -1           \* what a failed CREATE INDEX CONCURRENTLY leaves

ASSUME SqlConnectAssumption == Settings # {} /\ Catalogs # {}

VARIABLES cfg, catalog, applied, inst

scVars == <<cfg, catalog, applied, inst>>

Objects == {"column", "index", "tag", "weights", "lexicon"}

Fresh == [pc |-> "off", pools |-> {}, monitor |-> FALSE, ready |-> FALSE,
          todo |-> <<>>, created |-> FALSE]

SqlConnectInit ==
  /\ cfg \in Settings /\ catalog \in Catalogs
  /\ applied = 0
  /\ inst = [i \in Instance |-> Fresh]

-----------------------------------------------------------------------------
(* The statements that create the index: each makes its objects or fails   *)
(* when they exist.                                                        *)
Make(objs) == [makes |-> objs, isolated |-> FALSE]

(* TextIndexDDL of PostgreSQL: column and index, or the index alone; its   *)
(* comment; the lexicon.                                                   *)
PostgresDDL(s) ==
  (IF s.stored THEN <<Make({"column"}), Make({"index"})>>
   ELSE <<[Make({"index"}) EXCEPT !.isolated = s.concurrently]>>)
  \o <<Make({"tag"})>>
  \o (IF s.suggest THEN <<Make({"lexicon"})>> ELSE <<>>)

(* TextIndexDDL of MySQL: the comment is part of the statement; then an    *)
(* index per weight and the lexicon.                                       *)
MySQLDDL(s) ==
  <<Make({"index", "tag"})>>
  \o (IF s.weights THEN <<Make({"weights"})>> ELSE <<>>)
  \o (IF s.suggest THEN <<Make({"lexicon"})>> ELSE <<>>)

DDL(s) == IF s.dialect = "postgres" THEN PostgresDDL(s) ELSE MySQLDDL(s)

(* What TextChecks looks for beside the tagged index.                      *)
PostgresChecks(s) == IF s.suggest THEN {"lexicon"} ELSE {}
MySQLChecks(s) == (IF s.weights THEN {"weights"} ELSE {}) \cup (IF s.suggest THEN {"lexicon"} ELSE {})
Checks(s) == IF s.dialect = "postgres" THEN PostgresChecks(s) ELSE MySQLChecks(s)

(* MySQL does not render a concurrent index: it cannot be created.  The    *)
(* comment leaves Concurrently out, so one that is there is found.         *)
Renders(s) == ~(s.dialect = "mysql" /\ s.concurrently)

\* An index that is there passes, whatever its definition.
LookupAny(i) == IF catalog["index"] <= 0 THEN "missing" ELSE "ok"

(* TextIndexLookup and the comparison of the comment it reads.             *)
Lookup(i) == IF catalog["index"] <= 0 THEN "missing"
             ELSE IF catalog["tag"] # cfg.version[i] THEN "outdated" ELSE "ok"

(* A statement in the database, external: it fails when an object is       *)
(* there, except that a comment replaces the last one; a concurrent build  *)
(* that fails leaves an invalid index.                                     *)
Runs(c, st) == \A o \in st.makes : c[o] = 0 \/ o = "tag"
After(c, st, i) == [o \in Objects |-> IF o \in st.makes THEN cfg.version[i] ELSE c[o]]
Failing(c, st) == IF st.isolated /\ c["index"] = 0 THEN [c EXCEPT !["index"] = Invalid] ELSE c

-----------------------------------------------------------------------------
To(i, pc) == [inst EXCEPT ![i].pc = pc]
WithPool(i, p, pc) == [inst EXCEPT ![i].pc = pc, ![i].pools = @ \cup {p}]
\* NewConnection fails after closing the pools in ps.
FailClosing(i, ps) == [inst EXCEPT ![i].pc = "failed", ![i].pools = @ \ ps]

(* open and ping the primary.                                              *)
OpenPrimary(i) ==
  /\ inst[i].pc = "off"
  /\ inst' \in {WithPool(i, "primary", "replica"), FailClosing(i, {})}
  /\ UNCHANGED <<cfg, catalog, applied>>

OpenReplica(i) ==
  /\ inst[i].pc = "replica"
  /\ inst' \in IF cfg.replica
               THEN {WithPool(i, "replica", "migration"), FailClosing(i, {"primary"})}
               ELSE {To(i, "migration")}
  /\ UNCHANGED <<cfg, catalog, applied>>

(* A pool for the migrations only; when it cannot open, the primary is     *)
(* closed and the replica is not.                                          *)
OpenMigration(i) ==
  /\ inst[i].pc = "migration"
  /\ inst' \in IF cfg.migrations = "none" THEN {To(i, "conn")}
               ELSE {WithPool(i, "migration", "migrate"), FailClosing(i, {"primary"})}
  /\ UNCHANGED <<cfg, catalog, applied>>

(* RunAndClose: without a registered migration driver it returns before    *)
(* it owns the pool; every other end closes it.                            *)
MigrationUnregistered(i) ==
  /\ inst[i].pc = "migrate" /\ cfg.migrations = "unregistered"
  /\ inst' = FailClosing(i, {"primary", "replica"})
  /\ UNCHANGED <<cfg, catalog, applied>>

(* Up takes golang-migrate's lock, or fails: no answer, or a version left  *)
(* dirty.                                                                  *)
MigrateLock(i) ==
  /\ inst[i].pc = "migrate" /\ cfg.migrations = "registered"
  /\ \/ /\ \A j \in Instance : inst[j].pc # "migrating"
        /\ applied # Dirty
        /\ inst' = To(i, "migrating")
     \/ inst' = FailClosing(i, {"primary", "replica", "migration"})
  /\ UNCHANGED <<cfg, catalog, applied>>

(* Migrations groups the statements into files: an isolated one is alone.  *)
Files(s) == LET d == DDL(s)
                starts == {k \in 1 .. Len(d) : k = 1 \/ d[k].isolated \/ d[k-1].isolated}
                nth(n) == CHOOSE k \in starts : Cardinality({j \in starts : j <= k}) = n
                end(n) == IF n = Cardinality(starts) THEN Len(d) ELSE nth(n + 1) - 1
            IN [n \in 1 .. Cardinality(starts) |-> SubSeq(d, nth(n), end(n))]

(* The catalog after the first n statements of a file.                     *)
AfterFirst(f, n, i) ==
  LET upTo[k \in 0 .. n] == IF k = 0 THEN catalog ELSE After(upTo[k - 1], f[k], i)
  IN upTo[n]

(* The next file, external: PostgreSQL runs it as one transaction, MySQL   *)
(* commits every statement.  One that fails leaves its version dirty.      *)
MigrateFile(i) ==
  /\ inst[i].pc = "migrating" /\ applied \in 0 .. Len(Files(cfg)) - 1
  /\ LET f == Files(cfg)[applied + 1]
         runs(n) == \A k \in 1 .. n : Runs(AfterFirst(f, k - 1, i), f[k])
     IN \/ /\ runs(Len(f))
           /\ catalog' = AfterFirst(f, Len(f), i) /\ applied' = applied + 1
           /\ UNCHANGED inst
        \/ /\ \E n \in 0 .. Len(f) - 1 :
                /\ runs(n) /\ n > 0 => cfg.dialect = "mysql"
                /\ catalog' = Failing(AfterFirst(f, n, i), f[n + 1])
           /\ applied' = Dirty
           /\ inst' = FailClosing(i, {"primary", "replica", "migration"})
  /\ UNCHANGED cfg

MigrationsDone(i) ==
  /\ inst[i].pc = "migrating" /\ applied = Len(Files(cfg))
  /\ inst' = [inst EXCEPT ![i].pc = "conn", ![i].pools = @ \ {"migration"}]
  /\ UNCHANGED <<cfg, catalog, applied>>

(* The Connection exists and its pool monitor runs; then the indexes of    *)
(* the configuration are required.                                         *)
Connect(i) ==
  /\ inst[i].pc = "conn"
  /\ inst' = [inst EXCEPT ![i].monitor = TRUE,
                          ![i].pc = IF cfg.boot /\ cfg.policy # "trust" THEN "require" ELSE "up",
                          ![i].created = FALSE]
  /\ UNCHANGED <<cfg, catalog, applied>>

(* RequireTextIndexes for a search of a running instance.                  *)
Search(i) ==
  /\ inst[i].pc = "up" /\ ~inst[i].ready /\ cfg.policy # "trust"
  /\ inst' = [inst EXCEPT ![i].pc = "lookup", ![i].created = FALSE]
  /\ UNCHANGED <<cfg, catalog, applied>>

\* conn.Close: the monitor, the primary and the replica.
Closed(i) == [Fresh EXCEPT !.pc = "failed", !.pools = inst[i].pools \ {"primary", "replica"}]

(* The requirement failed: at boot NewConnection closes the connection, a  *)
(* search only fails.                                                      *)
Refuse(i) == IF inst[i].pc = "require" THEN [inst EXCEPT ![i] = Closed(i)]
             ELSE To(i, "up")
Accept(i) == [inst EXCEPT ![i].pc = "up", ![i].ready = TRUE]

(* check: the index and its comment, then the parts beside it.  A missing  *)
(* part counts as a missing index, which the Ensure policy creates once.   *)
Check(i) ==
  /\ inst[i].pc \in {"require", "lookup"} /\ inst[i].todo = <<>>
  /\ LET found == IF Lookup(i) = "ok" /\ \E o \in Checks(cfg) : catalog[o] <= 0
                  THEN "missing" ELSE Lookup(i)
     IN \/ /\ found = "ok"
           /\ inst' = Accept(i)
        \/ /\ found = "missing" /\ Renders(cfg)
           /\ cfg.policy = "ensure" /\ ~inst[i].created
           /\ inst' = [inst EXCEPT ![i].todo = DDL(cfg), ![i].created = TRUE]
        \/ inst' = Refuse(i)     \* found otherwise, a setting differs, a query fails
  /\ UNCHANGED <<cfg, catalog, applied>>

(* create: one statement after the other, the first failure ends it.       *)
CreateStatement(i) ==
  /\ inst[i].todo # <<>>
  /\ LET st == Head(inst[i].todo) IN
     \/ /\ Runs(catalog, st)
        /\ catalog' = After(catalog, st, i)
        /\ inst' = [inst EXCEPT ![i].todo = Tail(@)]
     \/ /\ catalog' = Failing(catalog, st)
        /\ inst' = [Refuse(i) EXCEPT ![i].todo = <<>>]
  /\ UNCHANGED <<cfg, applied>>

Close(i) ==
  /\ inst[i].pc = "up"
  /\ inst' = [inst EXCEPT ![i] = Closed(i)]
  /\ UNCHANGED <<cfg, catalog, applied>>

SqlConnectNext ==
  \E i \in Instance :
    \/ OpenPrimary(i) \/ OpenReplica(i) \/ OpenMigration(i)
    \/ MigrationUnregistered(i) \/ MigrateLock(i) \/ MigrateFile(i) \/ MigrationsDone(i)
    \/ Connect(i) \/ Search(i) \/ Check(i) \/ CreateStatement(i) \/ Close(i)

-----------------------------------------------------------------------------
\* What a search of the index reads and its definition shapes.
Needed == {"index"} \cup (IF cfg.dialect = "postgres" /\ cfg.stored THEN {"column"} ELSE {})
          \cup (IF cfg.dialect = "mysql" /\ cfg.weights THEN {"weights"} ELSE {})

(***************************************************************************)
(* An index a connection has accepted is in the database whole and made    *)
(* from that connection's definition, whoever created it and whatever      *)
(* failed on the way; and a connection that failed or was closed holds no  *)
(* pool, but for the two paths, of NewConnection and RunAndClose, that     *)
(* forget one when migrations are configured.                              *)
(***************************************************************************)
ConnectionWhole ==
  \A i \in Instance :
    /\ inst[i].ready => /\ \A o \in Needed : catalog[o] = cfg.version[i]
                        /\ cfg.suggest => catalog["lexicon"] > 0
    /\ inst[i].pc = "failed" =>
         /\ ~inst[i].monitor /\ "primary" \notin inst[i].pools
         /\ inst[i].pools # {} => cfg.migrations # "none"
=============================================================================
