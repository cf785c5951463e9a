---------------------------- MODULE KafkaConsumer ----------------------------
(***************************************************************************)
(* The consumer of msq/provider/kafka/broker.go: pods of one group, each   *)
(* with one kafkaConsumer, on a partition that rebalances move between     *)
(* them.  Consume joins the group and runs sessions; ConsumeClaim handles  *)
(* the records of the partition in order, redelivers a nacked one in place *)
(* and marks those that are settled.                                       *)
(*                                                                         *)
(* External (sarama and the brokers): the group's generation, the claim of *)
(* the partition, the commit of what a session marked, refused from an old *)
(* generation, and PauseAll, which pauses the claims that exist when it is *)
(* called.                                                                 *)
(***************************************************************************)
EXTENDS Naturals, FiniteSets

CONSTANTS
    Pod,            \* members of the group
    MaxOffset,      \* bound on the records of the partition
    MaxGeneration   \* bound on the rebalances and crashes

ASSUME KafkaAssumption == MaxOffset \in Nat /\ MaxGeneration \in Nat

VARIABLES
    earliest,   \* cfg.InitialOffset is OffsetResetEarliest
    log,        \* records in the partition
    group,      \* generation, the member that owns the partition, the commit
    member,     \* each pod's Consume
    settled,    \* records some handler settled
    skipped     \* records a claim without a committed offset started after

kafkaVars == <<earliest, log, group, member, settled, skipped>>

None == "none"

Idle == [pc |-> "group", ctx |-> FALSE, paused |-> FALSE, gen |-> 0, revoked |-> FALSE,
         at |-> 0, marked |-> 0, held |-> FALSE]

KafkaInit ==
    /\ earliest = FALSE /\ log = 0
    /\ group = [gen |-> 1, owner |-> None, committed |-> 0]
    /\ member = [p \in Pod |-> Idle]
    /\ settled = {} /\ skipped = {}

\* Offsets are numbered from 1; committed is the last settled one, 0 is none.
NoCommit == group.committed = 0
-----------------------------------------------------------------------------
(* Consume.                                                                *)

\* newGroup, then PauseAll when Pause was called before: there is no claim yet.
NewGroup(p) ==
    /\ member[p].pc = "group" /\ ~member[p].ctx
    /\ \/ member' = [member EXCEPT ![p].pc = "join"]
       \/ member' = [member EXCEPT ![p].pc = "returned"]
    /\ earliest' \in (IF log = 0 /\ group.gen = 1 THEN BOOLEAN ELSE {earliest})
    /\ UNCHANGED <<log, group, settled, skipped>>

\* group.Consume joins the current generation; the owner starts its claim at
\* the commit, or at the end the policy names when there is none.  A session
\* error before the claim is a wait, then another try.
StartAt == IF ~NoCommit \/ earliest THEN group.committed + 1 ELSE log + 1

Join(p) ==
    /\ member[p].pc = "join" /\ ~member[p].ctx
    /\ member[p].gen # group.gen
    /\ group.owner \in {None, p}
    /\ group' = [group EXCEPT !.owner = p]
    /\ member' = [member EXCEPT ![p].pc = "claim", ![p].gen = group.gen, ![p].revoked = FALSE,
                                ![p].at = StartAt, ![p].marked = 0,
                                ![p].held = FALSE]
    /\ skipped' = skipped \cup {o \in 1 .. StartAt - 1 : NoCommit /\ o \notin settled}
    /\ UNCHANGED <<earliest, log, settled>>

\* Every claim has returned: the session commits what it marked, if its
\* generation is still current, and group.Consume returns.
Commit(p) ==
    IF member[p].gen = group.gen /\ member[p].marked # 0
    THEN [group EXCEPT !.committed = member[p].marked] ELSE group

SessionEnds(p) ==
    /\ member[p].pc = "exit"
    /\ group' = [Commit(p) EXCEPT !.owner = IF @ = p /\ member[p].gen = group.gen /\ ~member[p].ctx
                                            THEN @ ELSE IF @ = p THEN None ELSE @]
    /\ member' = [member EXCEPT ![p].pc = IF member[p].ctx THEN "returned" ELSE "join",
                                ![p].gen = IF member[p].revoked THEN @ ELSE 0,
                                ![p].at = 0, ![p].marked = 0]
    /\ UNCHANGED <<earliest, log, settled, skipped>>

ReturnsUnjoined(p) ==
    /\ member[p].pc \in {"group", "join"} /\ member[p].ctx
    /\ member' = [member EXCEPT ![p].pc = "returned"]
    /\ UNCHANGED <<earliest, log, group, settled, skipped>>

CtxEnded(p) == member[p].ctx \/ member[p].revoked

ConsumerStops(p) ==
    /\ ~member[p].ctx
    /\ member' = [member EXCEPT ![p].ctx = TRUE]
    /\ UNCHANGED <<earliest, log, group, settled, skipped>>
-----------------------------------------------------------------------------
(* ConsumeClaim and process.                                               *)

\* The next record, unless the partition is paused.
NextRecord(p) ==
    /\ member[p].pc = "claim" /\ ~CtxEnded(p) /\ ~member[p].held
    /\ member[p].at <= log
    /\ member' = [member EXCEPT ![p].pc = "handle"]
    /\ UNCHANGED <<earliest, log, group, settled, skipped>>

\* The handler settles the record, whether or not the session has ended
\* meanwhile, and it is marked.
HandleSettled(p) ==
    /\ member[p].pc = "handle"
    /\ settled' = settled \cup {member[p].at}
    /\ member' = [member EXCEPT ![p].pc = "claim", ![p].marked = member[p].at,
                                ![p].at = @ + 1]
    /\ UNCHANGED <<earliest, log, group, skipped>>

\* Variant: a nacked record is marked like a settled one.
HandleNackedMarked(p) ==
    /\ member[p].pc = "handle"
    /\ member' = [member EXCEPT ![p].pc = "claim", ![p].marked = member[p].at,
                                ![p].at = @ + 1]
    /\ UNCHANGED <<earliest, log, group, settled, skipped>>

\* Nack: the claim ends when the session has, else the record is handled
\* again after a wait.
HandleNacked(p) ==
    /\ member[p].pc = "handle"
    /\ member' = IF CtxEnded(p) THEN [member EXCEPT ![p].pc = "exit"]
                 ELSE [member EXCEPT ![p].pc = "wait"]
    /\ UNCHANGED <<earliest, log, group, settled, skipped>>

RedeliverInPlace(p) ==
    /\ member[p].pc = "wait"
    /\ member' = [member EXCEPT ![p].pc = IF CtxEnded(p) THEN "exit" ELSE "handle"]
    /\ UNCHANGED <<earliest, log, group, settled, skipped>>

\* claim.Messages() is closed.
ClaimEnds(p) ==
    /\ member[p].pc = "claim" /\ CtxEnded(p)
    /\ member' = [member EXCEPT ![p].pc = "exit"]
    /\ UNCHANGED <<earliest, log, group, settled, skipped>>

AutoCommit(p) ==
    /\ member[p].pc \in {"claim", "handle", "wait"}
    /\ group' = Commit(p) /\ group' # group
    /\ UNCHANGED <<earliest, log, member, settled, skipped>>
-----------------------------------------------------------------------------
(* Pause, Resume, and the brokers.                                         *)

InSession(p) == member[p].pc \in {"claim", "handle", "wait", "exit"}

KafkaPause(p) ==
    /\ ~member[p].paused /\ ~member[p].ctx
    /\ member' = [member EXCEPT ![p].paused = TRUE, ![p].held = InSession(p)]
    /\ UNCHANGED <<earliest, log, group, settled, skipped>>

KafkaResume(p) ==
    /\ member[p].paused
    /\ member' = [member EXCEPT ![p].paused = FALSE, ![p].held = FALSE]
    /\ UNCHANGED <<earliest, log, group, settled, skipped>>

Append1 ==
    /\ log < MaxOffset
    /\ log' = log + 1
    /\ UNCHANGED <<earliest, group, member, settled, skipped>>

\* A rebalance starts a generation: the sessions of the old one are told, but
\* a handler that is running may outlive the rebalance timeout.
Rebalance ==
    /\ group.gen < MaxGeneration
    /\ group' = [group EXCEPT !.gen = @ + 1, !.owner = None]
    /\ member' = [p \in Pod |-> [member[p] EXCEPT !.revoked = @ \/ InSession(p)]]
    /\ UNCHANGED <<earliest, log, settled, skipped>>

\* A pod crashes and starts again.
PodCrash(p) ==
    /\ group.gen < MaxGeneration
    /\ group' = [group EXCEPT !.gen = @ + 1, !.owner = None]
    /\ member' = [q \in Pod |-> IF q = p THEN Idle
                                ELSE [member[q] EXCEPT !.revoked = @ \/ InSession(q)]]
    /\ UNCHANGED <<earliest, log, settled, skipped>>

KafkaNext ==
    \/ Append1 \/ Rebalance
    \/ \E p \in Pod :
        \/ NewGroup(p) \/ Join(p) \/ SessionEnds(p) \/ ReturnsUnjoined(p)
        \/ ConsumerStops(p) \/ NextRecord(p) \/ HandleSettled(p) \/ HandleNacked(p)
        \/ RedeliverInPlace(p) \/ ClaimEnds(p) \/ AutoCommit(p)
        \/ KafkaPause(p) \/ KafkaResume(p) \/ PodCrash(p)

KafkaSpec == KafkaInit /\ [][KafkaNext]_kafkaVars
-----------------------------------------------------------------------------
\* A record is handled only when every record before it is settled, on
\* whichever pod, and nothing past an unsettled record is committed: a nacked
\* record is neither overtaken nor lost when its partition moves.  Records that
\* a group with no commit starts after (InitialOffset latest) are excepted.
PartitionInOrder ==
    /\ \A p \in Pod : member[p].pc = "handle" => 1 .. member[p].at - 1 \subseteq settled \cup skipped
    /\ 1 .. group.committed \subseteq settled \cup skipped
=============================================================================
