---------------------------- MODULE BrokerService ----------------------------
(***************************************************************************)
(* BrokerService (msq/core/service.go) and the registry that opens its     *)
(* broker (msq/registry.go): consumers with their dead-letter producer,    *)
(* the list of managers, and CloseContext, which closes them in parallel.  *)
(* A manager is here what the service sees of it (its own module is        *)
(* ConsumerManager): CloseContext answers nil once the manager is drained, *)
(* and an error when ctx ends first.                                       *)
(***************************************************************************)
EXTENDS Naturals, Sequences

CONSTANTS
    ServiceCloser,  \* goroutines that call CloseContext
    MaxManagers,    \* bound: managers created
    MaxConsumers    \* bound: calls of NewConsumer

ASSUME BrokerServiceAssumption == MaxManagers \in Nat /\ MaxConsumers \in Nat

VARIABLES
    imported,       \* the provider's package has run Register
    broker,         \* "none", "open", "failed"
    managers,       \* s.managers: "running", "closing" or "drained"
    closing,        \* each closer: the managers it closes and their answers
    handles         \* provider consumers open, dead-letter producers open, and the callers'

svcVars == <<imported, broker, managers, closing, handles>>

BrokerServiceInit ==
    /\ imported = FALSE /\ broker = "none" /\ managers = <<>>
    /\ closing = [c \in ServiceCloser |-> [pc |-> "idle", errs |-> <<>>, seen |-> 0]]
    /\ handles = [consumers |-> 0, dlqs |-> 0, owned |-> 0, calls |-> 0]

\* Register, which a provider package calls from init.
RegisterProvider ==
    /\ broker = "none" /\ ~imported
    /\ imported' = TRUE
    /\ UNCHANGED <<broker, managers, closing, handles>>

\* Open and New: an unregistered provider is an error; so may the opener's answer be.
OpenBroker ==
    /\ broker = "none"
    /\ broker' \in (IF imported THEN {"open", "failed"} ELSE {"failed"})
    /\ UNCHANGED <<imported, managers, closing, handles>>

\* NewConsumer: the provider's consumer (c), then its dead-letter producer (p),
\* without which the consumer is closed again.
NewConsumer(deadLetters) ==
    /\ broker = "open" /\ handles.calls < MaxConsumers
    /\ \E c, p \in BOOLEAN :
        LET ok == c /\ (deadLetters => p)
        IN  handles' = [calls |-> handles.calls + 1,
                        consumers |-> handles.consumers + (IF c THEN 1 ELSE 0) - (IF c /\ ~ok THEN 1 ELSE 0),
                        dlqs |-> handles.dlqs + (IF ok /\ deadLetters THEN 1 ELSE 0),
                        owned |-> handles.owned + (IF ok THEN 1 ELSE 0)]
    /\ UNCHANGED <<imported, broker, managers, closing>>

NewConsumerManager ==
    /\ broker = "open" /\ Len(managers) < MaxManagers
    /\ managers' = Append(managers, "running")
    /\ UNCHANGED <<imported, broker, closing, handles>>

\* CloseContext copies the list under the mutex; every manager of the copy is
\* closed by a goroutine of its own.
CloseSnapshot(c) ==
    /\ broker = "open" /\ closing[c].pc = "idle"
    /\ closing' = [closing EXCEPT ![c] = [pc |-> "wait", seen |-> Len(managers),
                                           errs |-> [i \in DOMAIN managers |-> "none"]]]
    /\ UNCHANGED <<imported, broker, managers, handles>>

ManagerCloses(c, i) ==
    /\ closing[c].pc = "wait" /\ i \in DOMAIN closing[c].errs /\ managers[i] = "running"
    /\ managers' = [managers EXCEPT ![i] = "closing"]
    /\ UNCHANGED <<imported, broker, closing, handles>>

\* A manager is drained once it closes and its handlers are done.
ManagerDrains(i) ==
    /\ managers[i] = "closing"
    /\ managers' = [managers EXCEPT ![i] = "drained"]
    /\ UNCHANGED <<imported, broker, closing, handles>>

ManagerAnswers(c, i) ==
    /\ closing[c].pc = "wait" /\ i \in DOMAIN closing[c].errs /\ closing[c].errs[i] = "none"
    /\ \/ managers[i] = "drained" /\ closing' = [closing EXCEPT ![c].errs[i] = "nil"]
       \/ managers[i] = "closing" /\ closing' = [closing EXCEPT ![c].errs[i] = "ctx"]
    /\ UNCHANGED <<imported, broker, managers, handles>>

\* Variant: CloseContext returns the first answer instead of waiting for all.
ServiceReturnsEarly(c) ==
    /\ closing[c].pc = "wait"
    /\ closing[c].errs = <<>> \/ \E i \in DOMAIN closing[c].errs : closing[c].errs[i] # "none"
    /\ closing' = [closing EXCEPT ![c].pc = IF \E i \in DOMAIN closing[c].errs : closing[c].errs[i] = "ctx"
                                            THEN "error" ELSE "nil"]
    /\ UNCHANGED <<imported, broker, managers, handles>>

ServiceReturns(c) ==
    /\ closing[c].pc = "wait"
    /\ \A i \in DOMAIN closing[c].errs : closing[c].errs[i] # "none"
    /\ closing' = [closing EXCEPT ![c].pc = IF \E i \in DOMAIN closing[c].errs : closing[c].errs[i] = "ctx"
                                            THEN "error" ELSE "nil"]
    /\ UNCHANGED <<imported, broker, managers, handles>>

BrokerServiceNext ==
    \/ RegisterProvider \/ OpenBroker \/ NewConsumerManager
    \/ \E d \in BOOLEAN : NewConsumer(d)
    \/ \E i \in DOMAIN managers : ManagerDrains(i)
    \/ \E c \in ServiceCloser :
        \/ CloseSnapshot(c) \/ ServiceReturns(c)
        \/ \E i \in DOMAIN managers : ManagerCloses(c, i) \/ ManagerAnswers(c, i)

BrokerServiceSpec == BrokerServiceInit /\ [][BrokerServiceNext]_svcVars
-----------------------------------------------------------------------------
\* CloseContext returning nil means that every manager created before the call
\* is drained, so the broker and the pools may be closed; and every consumer
\* and producer the provider has open belongs to a caller that can close it.
CloseDrains ==
    /\ \A c \in ServiceCloser : closing[c].pc = "nil" =>
            \A i \in 1 .. closing[c].seen : managers[i] = "drained"
    /\ handles.consumers = handles.owned
=============================================================================
