----------------------------- MODULE RabbitConn -----------------------------
(***************************************************************************)
(* The AMQP connection of msq/provider/rabbitmq/conn.go: dial, attach,     *)
(* watch and Close.  A connection that the broker drops is dialled again   *)
(* by the goroutine that watches it.                                       *)
(*                                                                         *)
(* conn.link numbers the connections dialled so far; conn.alive says       *)
(* whether the newest is up, as the amqp091 library sees it.  A channel is *)
(* a record [link, ok]: it dies with its connection or on its own.         *)
(***************************************************************************)
EXTENDS Naturals, FiniteSets

CONSTANTS MaxDrops      \* bound on the connections that are lost

ASSUME RabbitConnAssumption == MaxDrops \in Nat

VARIABLES conn

NoChannel == [link |-> 0, ok |-> FALSE]

IsOpen(ch) == ch.ok /\ conn.alive /\ ch.link = conn.link

\* conn.channel(): nil connection or a dead one gives an error.
CanOpen == conn.set /\ conn.alive

NewChannel == [link |-> conn.link, ok |-> TRUE]

IsConnected == conn.set /\ conn.alive

\* dial: the first connection is attached, not yet watched.
RabbitConnInit ==
    conn = [set |-> TRUE, link |-> 1, alive |-> TRUE, closed |-> FALSE,
            watch |-> "attached", drops |-> 0]

\* The end of attach: NotifyClose on a connection that is already lost closes
\* the notification channel at once, which watch takes for a graceful close.
NotifyClose ==
    /\ conn.watch = "attached"
    /\ conn' = IF conn.alive THEN [conn EXCEPT !.watch = "watching"]
               ELSE [conn EXCEPT !.watch = "gone"]

WatchLost ==
    /\ conn.watch = "watching" /\ ~conn.alive
    /\ conn' = IF conn.closed THEN [conn EXCEPT !.watch = "gone"]
               ELSE [conn EXCEPT !.watch = "backoff", !.set = FALSE]

\* The loop of watch: done is checked while the timer runs; a failed dial
\* waits again.
Redial ==
    /\ conn.watch = "backoff"
    /\ conn' = [conn EXCEPT !.watch = "dialed", !.link = @ + 1, !.alive = TRUE]

RedialStops ==
    /\ conn.watch = "backoff" /\ conn.closed
    /\ conn' = [conn EXCEPT !.watch = "gone"]

Attach ==
    /\ conn.watch = "dialed"
    /\ conn' = IF conn.closed THEN [conn EXCEPT !.alive = FALSE, !.watch = "gone"]
               ELSE [conn EXCEPT !.set = TRUE, !.watch = "attached"]

ConnClose ==
    /\ ~conn.closed
    /\ conn' = [conn EXCEPT !.closed = TRUE, !.set = FALSE,
                            !.alive = @ /\ ~conn.set]

\* External: the broker or the network drops the connection.
Drop ==
    /\ conn.alive /\ conn.drops < MaxDrops
    /\ conn' = [conn EXCEPT !.alive = FALSE, !.drops = @ + 1]

RabbitConnStep == NotifyClose \/ WatchLost \/ Redial \/ RedialStops \/ Attach

RabbitConnNext == RabbitConnStep \/ ConnClose \/ Drop
=============================================================================
