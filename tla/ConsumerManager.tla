--------------------------- MODULE ConsumerManager ---------------------------
(***************************************************************************)
(* ConsumerManager (msq/core/manager.go): consumers are registered,        *)
(* started and supervised, and CloseContext drains them.                   *)
(*                                                                         *)
(* Any number of goroutines call Start, CloseContext and Register.  Each   *)
(* started entry has a supervisor that recreates its consumer whenever     *)
(* Consume returns.  The mutex is held for the length of one step; what    *)
(* the code does between two critical sections is a step of its own.       *)
(* Healthy reads the state that up, down and stop keep for each consumer.  *)
(***************************************************************************)
EXTENDS Integers, FiniteSets

CONSTANTS
    Starter,        \* goroutines that call Start
    Closer,         \* goroutines that call CloseContext
    Impatient,      \* those whose context may end while they wait
    MaxEntries,     \* entries that are ever registered
    Topicless,      \* the ones registered without a topic
    Grace,          \* DefaultHealthGrace, or SetHealthGrace's
    MaxFailures,    \* bound: creations and runs that fail
    MaxTime         \* bound: the clock

Entry == 1..MaxEntries

ASSUME ManagerAssumption ==
    /\ MaxEntries \in Nat /\ MaxFailures \in Nat /\ MaxTime \in Nat \ {0}
    /\ Grace \in Nat
    /\ Topicless \subseteq Entry
    /\ Impatient \subseteq Closer

VARIABLES
    registered,     \* len(m.entries)
    started,        \* m.started
    closed,         \* m.closed
    cancelled,      \* m.ctx is done
    draining,       \* the goroutine of CloseContext waits for m.wg
    done,           \* m.done is closed
    at,             \* where each Starter is: "idle", "create", "list", "discard"
    next, last,     \* the entries it still has to start are next..last
    got,            \* its newConsumer returned a consumer
    sup,            \* the supervisor of each entry
    open,           \* consumers of each entry created and not yet closed
    closer,         \* where each Closer is
    now,            \* the clock; 0 is the zero time
    running, downSince, began,      \* consumerState, and when the run began
    failed, longRun,                \* history: failure times, end of the last long run
    failures

entries == <<registered, started>>
shutdown == <<closed, cancelled, draining, done, closer>>
startVars == <<at, next, last, got>>
healthVars == <<running, downSince, began, failed, longRun>>
vars == <<entries, shutdown, startVars, sup, open, now, healthVars, failures>>

\* The supervisors that m.wg counts.
Supervised == {e \in Entry : sup[e] \notin {"off", "ended"}}

Init ==
    /\ registered = 0 /\ started = 0
    /\ closed = FALSE /\ cancelled = FALSE /\ draining = FALSE /\ done = FALSE
    /\ at = [s \in Starter |-> "idle"]
    /\ next = [s \in Starter |-> 1] /\ last = [s \in Starter |-> 0]
    /\ got = [s \in Starter |-> FALSE]
    /\ sup = [e \in Entry |-> "off"]
    /\ open = [e \in Entry |-> 0]
    /\ closer = [c \in Closer |-> "idle"]
    /\ now = 1
    /\ running = [e \in Entry |-> FALSE]
    /\ downSince = [e \in Entry |-> 0]
    /\ began = [e \in Entry |-> 0]
    /\ failed = [e \in Entry |-> {}]
    /\ longRun = [e \in Entry |-> 0]
    /\ failures = 0
-----------------------------------------------------------------------------
(* consumerState.                                                          *)

\* A failure that always opens a new outage.
DownAnew(e, newOutage) ==
    /\ running' = [running EXCEPT ![e] = FALSE]
    /\ downSince' = [downSince EXCEPT ![e] = now]
    /\ failed' = [failed EXCEPT ![e] = @ \cup {now}]

\* A failure: after a long run it opens a new outage, otherwise it belongs to
\* the outage in progress.
Down(e, newOutage) ==
    /\ running' = [running EXCEPT ![e] = FALSE]
    /\ downSince' = [downSince EXCEPT ![e] = IF newOutage \/ @ = 0 THEN now ELSE @]
    /\ failed' = [failed EXCEPT ![e] = @ \cup {now}]

Up(e) ==
    /\ running' = [running EXCEPT ![e] = TRUE]
    /\ UNCHANGED <<downSince, failed>>

StopState(e) ==
    /\ running' = [running EXCEPT ![e] = FALSE]
    /\ downSince' = [downSince EXCEPT ![e] = 0]
    /\ failed' = [failed EXCEPT ![e] = {}]

\* Whether Healthy reports entry e (a closed manager it reports as such).
Reported(e) == sup[e] # "off" /\ ~running[e] /\ downSince[e] # 0 /\ now - downSince[e] >= Grace
-----------------------------------------------------------------------------
(* Register and Start.                                                     *)

Register ==
    /\ registered < MaxEntries
    /\ registered' = registered + 1
    /\ UNCHANGED <<started, shutdown, startVars, sup, open, now, healthVars, failures>>

\* start takes the entries registered since the last start.  (After Close, or
\* with nothing new, it returns and changes nothing.)
StartBegins(s) ==
    /\ at[s] = "idle"
    /\ ~closed
    /\ started < registered
    /\ at' = [at EXCEPT ![s] = "create"]
    /\ next' = [next EXCEPT ![s] = started + 1]
    /\ last' = [last EXCEPT ![s] = registered]
    /\ started' = registered
    /\ UNCHANGED <<registered, shutdown, got, sup, open, now, healthVars, failures>>

\* The loop of start goes on to its next entry, or returns.
NextEntry(s) ==
    /\ at' = [at EXCEPT ![s] = IF next[s] < last[s] THEN "create" ELSE "idle"]
    /\ next' = [next EXCEPT ![s] = @ + 1]
    /\ got' = [got EXCEPT ![s] = FALSE]
    /\ UNCHANGED last

\* ErrTopicRequired.
SkipsTopicless(s) ==
    /\ at[s] = "create"
    /\ next[s] \in Topicless
    /\ NextEntry(s)
    /\ UNCHANGED <<entries, shutdown, sup, open, now, healthVars, failures>>

\* newConsumer succeeds.
Creates(s) ==
    /\ at[s] = "create"
    /\ next[s] \notin Topicless
    /\ at' = [at EXCEPT ![s] = "list"]
    /\ got' = [got EXCEPT ![s] = TRUE]
    /\ open' = [open EXCEPT ![next[s]] = @ + 1]
    /\ UNCHANGED <<entries, shutdown, next, last, sup, now, healthVars, failures>>

\* newConsumer fails: the supervisor will retry.
CreateFails(s) ==
    /\ at[s] = "create"
    /\ next[s] \notin Topicless
    /\ failures < MaxFailures
    /\ failures' = failures + 1
    /\ at' = [at EXCEPT ![s] = "list"]
    /\ Down(next[s], FALSE)
    /\ UNCHANGED <<entries, shutdown, next, last, got, sup, open, now, began, longRun>>

\* A start that does not look at m.closed again.
SupervisesAnyway(s) ==
    /\ at[s] = "list"
    /\ sup' = [sup EXCEPT ![next[s]] = IF got[s] THEN "up" ELSE "sleep"]
    /\ NextEntry(s)
    /\ UNCHANGED <<entries, shutdown, open, now, healthVars, failures>>

\* The second critical section: unless the manager closed meanwhile, m.wg
\* counts the supervisor and it starts, with the consumer if there is one.
Supervises(s) ==
    /\ at[s] = "list"
    /\ ~closed
    /\ sup' = [sup EXCEPT ![next[s]] = IF got[s] THEN "up" ELSE "sleep"]
    /\ NextEntry(s)
    /\ UNCHANGED <<entries, shutdown, open, now, healthVars, failures>>

\* The manager closed while the consumer was created: start closes it itself,
\* out of the critical section.
TooLate(s) ==
    /\ at[s] = "list"
    /\ closed
    /\ IF got[s] THEN at' = [at EXCEPT ![s] = "discard"] /\ UNCHANGED <<next, last, got>>
                 ELSE NextEntry(s)
    /\ UNCHANGED <<entries, shutdown, sup, open, now, healthVars, failures>>

\* A start that drops the consumer without closing it.
Drops(s) ==
    /\ at[s] = "discard"
    /\ NextEntry(s)
    /\ UNCHANGED <<entries, shutdown, sup, open, now, healthVars, failures>>

Discards(s) ==
    /\ at[s] = "discard"
    /\ open' = [open EXCEPT ![next[s]] = @ - 1]
    /\ NextEntry(s)
    /\ UNCHANGED <<entries, shutdown, sup, now, healthVars, failures>>
-----------------------------------------------------------------------------
(* supervise.                                                              *)

SleepOver(e) ==
    /\ sup[e] = "sleep"
    /\ sup' = [sup EXCEPT ![e] = "create"]
    /\ UNCHANGED <<entries, shutdown, startVars, open, now, healthVars, failures>>

\* The context ends the backoff: m.wg.Done.
SleepCut(e) ==
    /\ sup[e] = "sleep"
    /\ cancelled
    /\ sup' = [sup EXCEPT ![e] = "ended"]
    /\ StopState(e)
    /\ UNCHANGED <<entries, shutdown, startVars, open, now, began, longRun, failures>>

Recreates(e) ==
    /\ sup[e] = "create"
    /\ sup' = [sup EXCEPT ![e] = "up"]
    /\ open' = [open EXCEPT ![e] = @ + 1]
    /\ UNCHANGED <<entries, shutdown, startVars, now, healthVars, failures>>

RecreateFails(e) ==
    /\ sup[e] = "create"
    /\ failures < MaxFailures
    /\ failures' = failures + 1
    /\ sup' = [sup EXCEPT ![e] = "sleep"]
    /\ Down(e, FALSE)
    /\ UNCHANGED <<entries, shutdown, startVars, open, now, began, longRun>>

\* st.up, then Consume.
Consumes(e) ==
    /\ sup[e] = "up"
    /\ sup' = [sup EXCEPT ![e] = "consume"]
    /\ Up(e)
    /\ began' = [began EXCEPT ![e] = now]
    /\ UNCHANGED <<entries, shutdown, startVars, open, now, longRun, failures>>

\* Consume returns because the context ended, its handlers having returned.
RunEnds(e) ==
    /\ sup[e] = "consume"
    /\ cancelled
    /\ sup' = [sup EXCEPT ![e] = "close"]
    /\ UNCHANGED <<entries, shutdown, startVars, open, now, healthVars, failures>>

\* Consume fails, or stops on its own.
ConsumeFails(e) ==
    /\ sup[e] = "consume"
    /\ failures < MaxFailures
    /\ failures' = failures + 1
    /\ sup' = [sup EXCEPT ![e] = "close"]
    /\ UNCHANGED <<entries, shutdown, startVars, open, now, healthVars>>

RanLong(e) == now - began[e] >= Grace

\* The consumer is closed; the supervisor ends with the context, or restarts.
Closes(e) ==
    /\ sup[e] = "close"
    /\ open' = [open EXCEPT ![e] = @ - 1]
    /\ began' = [began EXCEPT ![e] = 0]
    /\ \/ /\ cancelled
          /\ sup' = [sup EXCEPT ![e] = "ended"]
          /\ StopState(e)
          /\ UNCHANGED longRun
       \/ /\ ~cancelled
          /\ sup' = [sup EXCEPT ![e] = "sleep"]
          /\ Down(e, RanLong(e))
          /\ longRun' = [longRun EXCEPT ![e] = IF RanLong(e) THEN now ELSE @]
    /\ UNCHANGED <<entries, shutdown, startVars, now, failures>>
-----------------------------------------------------------------------------
(* CloseContext.                                                           *)

\* The first caller closes the manager; the others wait for the same drain.
CloseBegins(c) ==
    /\ closer[c] \in {"idle", "err"}
    /\ closer' = [closer EXCEPT ![c] = IF closed THEN "wait" ELSE "cancel"]
    /\ closed' = TRUE
    /\ UNCHANGED <<entries, cancelled, draining, done, startVars, sup, open, now, healthVars, failures>>

\* It then cancels m.ctx and starts the goroutine that waits for m.wg.
Cancels(c) ==
    /\ closer[c] = "cancel"
    /\ closer' = [closer EXCEPT ![c] = "wait"]
    /\ cancelled' = TRUE
    /\ draining' = TRUE
    /\ UNCHANGED <<entries, closed, done, startVars, sup, open, now, healthVars, failures>>

\* m.wg.Wait returns.
Drained ==
    /\ draining
    /\ Supervised = {}
    /\ draining' = FALSE
    /\ done' = TRUE
    /\ UNCHANGED <<entries, closed, cancelled, closer, startVars, sup, open, now, healthVars, failures>>

CloseReturns(c) ==
    /\ closer[c] = "wait"
    /\ done
    /\ closer' = [closer EXCEPT ![c] = "nil"]
    /\ UNCHANGED <<entries, closed, cancelled, draining, done, startVars, sup, open, now, healthVars,
                   failures>>

\* The caller's context ends first; the drain goes on in the background.
CloseTimesOut(c) ==
    /\ closer[c] = "wait"
    /\ c \in Impatient
    /\ closer' = [closer EXCEPT ![c] = "err"]
    /\ UNCHANGED <<entries, closed, cancelled, draining, done, startVars, sup, open, now, healthVars,
                   failures>>

Tick ==
    /\ now < MaxTime
    /\ now' = now + 1
    /\ UNCHANGED <<entries, shutdown, startVars, sup, open, healthVars, failures>>
-----------------------------------------------------------------------------
Start(s) ==
    \/ StartBegins(s) \/ SkipsTopicless(s) \/ Creates(s) \/ CreateFails(s)
    \/ Supervises(s) \/ TooLate(s) \/ Discards(s)

Supervise(e) ==
    \/ SleepOver(e) \/ SleepCut(e) \/ Recreates(e) \/ RecreateFails(e)
    \/ Consumes(e) \/ RunEnds(e) \/ ConsumeFails(e) \/ Closes(e)

Close(c) == CloseBegins(c) \/ Cancels(c) \/ CloseReturns(c) \/ CloseTimesOut(c)

Next ==
    \/ Register \/ Drained \/ Tick
    \/ \E s \in Starter : Start(s)
    \/ \E e \in Entry : Supervise(e)
    \/ \E c \in Closer : Close(c)

Spec == Init /\ [][Next]_vars

\* The goroutines run: a start that began goes on, so do the supervisors, the
\* drain and the closers; a Consume whose context is done returns, which is
\* what the providers promise (LeasedConsumer!Drains).  Nothing makes anyone
\* call Start or CloseContext, or a consumer fail.
Fairness ==
    /\ \A s \in Starter :
        WF_vars(SkipsTopicless(s) \/ Creates(s) \/ Supervises(s) \/ TooLate(s) \/ Discards(s))
    /\ \A e \in Entry :
        /\ WF_vars(SleepOver(e) \/ SleepCut(e) \/ Recreates(e) \/ Consumes(e) \/ Closes(e))
        /\ WF_vars(RunEnds(e))
    /\ \A c \in Closer : WF_vars(Cancels(c) \/ CloseReturns(c))
    /\ WF_vars(Drained)

FairSpec == Spec /\ Fairness
-----------------------------------------------------------------------------
(* Properties.                                                             *)

TypeOK ==
    /\ registered \in 0..MaxEntries /\ started \in 0..registered
    /\ closed \in BOOLEAN /\ cancelled \in BOOLEAN /\ draining \in BOOLEAN /\ done \in BOOLEAN
    /\ at \in [Starter -> {"idle", "create", "list", "discard"}]
    /\ next \in [Starter -> 1..(MaxEntries + 1)]
    /\ last \in [Starter -> 0..MaxEntries]
    /\ got \in [Starter -> BOOLEAN]
    /\ sup \in [Entry -> {"off", "sleep", "create", "up", "consume", "close", "ended"}]
    /\ open \in [Entry -> Int]
    /\ closer \in [Closer -> {"idle", "cancel", "wait", "nil", "err"}]
    /\ now \in 1..MaxTime
    /\ running \in [Entry -> BOOLEAN]
    /\ downSince \in [Entry -> 0..MaxTime] /\ began \in [Entry -> 0..MaxTime]
    /\ failed \in [Entry -> SUBSET (1..MaxTime)] /\ longRun \in [Entry -> 0..MaxTime]
    /\ failures \in 0..MaxFailures

\* The starts that hold a consumer of e they have not handed over.
Holding(e) == {s \in Starter : at[s] \in {"list", "discard"} /\ got[s] /\ next[s] = e}

\* Concurrent starts never run an entry twice, and a supervisor closes a
\* consumer before it creates the next one ("calling Start twice must not
\* duplicate consumers", start).
OneConsumer ==
    \A e \in Entry :
        /\ open[e] \in {0, 1}
        /\ open[e] = 1 => sup[e] \in {"up", "consume", "close"} \/ Holding(e) # {}

\* CloseContext returns nil only when every supervisor is over and its consumer
\* closed, and none starts later: an open consumer is one that a Start still in
\* progress is about to close (wg.Add under the mutex, after looking at closed).
DoneMeansDrained ==
    done => /\ Supervised = {}
            /\ \A e \in Entry : open[e] = 1 => Holding(e) # {}

\* Healthy reports a consumer exactly when it is down and has been failing for
\* the grace: some failure since its last long run is that old.  A crash loop
\* does not restart the outage, and a long run ends it (down, supervise's
\* ranLong).
HealthTruthful ==
    \A e \in Entry :
        sup[e] # "off" =>
            (Reported(e) <=> /\ ~running[e]
                             /\ \E t \in failed[e] : t >= longRun[e] /\ now - t >= Grace)

\* A caller with time to wait gets its nil.
CloseTerminates ==
    \A c \in Closer \ Impatient : closer[c] \in {"cancel", "wait"} ~> closer[c] = "nil"

\* After CloseContext every consumer that was ever created ends up closed.
NothingLeaks == closed ~> [](\A e \in Entry : open[e] = 0)

\* What CloseContext brings about: its callers with time to wait return, and
\* every consumer ends up closed (CloseContext, supervise, discard).
CloseEnds == CloseTerminates /\ NothingLeaks
=============================================================================
