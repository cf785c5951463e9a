---------------------------- MODULE Transaction ----------------------------
(***************************************************************************)
(* sqln/transaction: Execute runs a function inside a database             *)
(* transaction, joins the transaction its context already carries for the  *)
(* same pool, and repeats the whole function after a conflict.             *)
(*                                                                         *)
(* A program is the caller's code: Execute calls, statements and the ends  *)
(* of the functions passed to Execute.  The frames on `stack' are the      *)
(* Execute calls in progress; the transactions of the frames are the       *)
(* bindings WithTx leaves in the context.                                  *)
(***************************************************************************)
EXTENDS Integers, Sequences, FiniteSets

CONSTANTS Programs,     \* the callers: sequences of operations
          MaxCalls      \* bound on the Execute calls of a behaviour

ASSUME TransactionAssumption ==
  /\ MaxCalls \in Nat \ {0} /\ Programs # {}
  /\ \A p \in Programs :
       /\ Len(p) \in Nat
       /\ \A k \in 1 .. Len(p) : p[k].op = "execute" => p[k].end \in Nat

VARIABLES program, pc, stack, mode, fault, txs, results, auto

txVars == <<program, pc, stack, mode, fault, txs, results, auto>>

\* No error in flight.
NoFault == [retryable |-> FALSE, lost |-> FALSE]

Bindings(frames) == {i \in 1 .. Len(frames) : frames[i].tx # 0}

(* The transaction the context carries for the pool db, 0 when none: the   *)
(* innermost binding of that pool.                                         *)
TxFor(frames, db) ==
  LET own == {i \in Bindings(frames) : txs[frames[i].tx].db = db}
  IN IF own = {} THEN 0 ELSE frames[CHOOSE i \in own : \A j \in own : j <= i].tx

Op == program[pc]
Top == stack[Len(stack)]
Outer == SubSeq(stack, 1, Len(stack) - 1)

TransactionInit ==
  /\ program = <<>> /\ pc = 1 /\ stack = <<>> /\ mode = "start"
  /\ fault = NoFault /\ txs = <<>> /\ results = <<>> /\ auto = {}

CallerStep ==
  /\ mode = "start"
  /\ program' \in Programs
  /\ mode' = "run"
  /\ UNCHANGED <<pc, stack, fault, txs, results, auto>>

Opened(call, db) ==
  Append(txs, [db |-> db, call |-> call, writes |-> {}, status |-> "open"])

(* executeTransaction up to the call of fn: fn runs in the transaction the *)
(* context already has, or in a new one.                                   *)
Execute ==
  /\ mode = "run" /\ pc <= Len(program) /\ Op.op = "execute"
  /\ Len(results) < MaxCalls
  /\ LET call == Len(results) + 1
         frame == [at |-> pc, call |-> call, attempt |-> 0, tx |-> 0]
     IN /\ results' = Append(results, "open")
        /\ \/ /\ TxFor(stack, Op.db) # 0
              /\ stack' = Append(stack, frame)
              /\ pc' = pc + 1
              /\ UNCHANGED <<txs, mode, fault>>
           \/ /\ TxFor(stack, Op.db) = 0
              /\ txs' = Opened(call, Op.db)
              /\ stack' = Append(stack, [frame EXCEPT !.tx = Len(txs) + 1])
              /\ pc' = pc + 1
              /\ UNCHANGED <<mode, fault>>
           \/ /\ TxFor(stack, Op.db) = 0         \* beginTransaction fails
              /\ stack' = Append(stack, frame)
              /\ mode' = "attemptFailed" /\ fault' = NoFault
              /\ UNCHANGED <<txs, pc>>
  /\ UNCHANGED <<program, auto>>

(* A statement of the caller: QuerierFrom picks the transaction of its     *)
(* pool, or the pool itself.  It may fail, with a conflict or otherwise,   *)
(* and the code around it may panic.                                       *)
Statement ==
  /\ mode = "run" /\ pc <= Len(program) /\ Op.op = "write"
  /\ \/ LET t == TxFor(stack, Op.db) IN
        /\ pc' = pc + 1
        /\ IF t # 0
           THEN /\ txs' = [txs EXCEPT ![t].writes = @ \cup {[at |-> pc, db |-> Op.db]}]
                /\ UNCHANGED auto
           ELSE /\ auto' = auto \cup {[db |-> Op.db,
                      inside |-> \E i \in 1 .. Len(stack) : program[stack[i].at].db = Op.db]}
                /\ UNCHANGED txs
        /\ UNCHANGED <<mode, fault>>
     \/ /\ mode' = "fail"
        /\ fault' \in {NoFault, [NoFault EXCEPT !.retryable = TRUE]}
        /\ UNCHANGED <<pc, txs, auto>>
     \/ /\ mode' = "panic"
        /\ UNCHANGED <<pc, fault, txs, auto>>
  /\ UNCHANGED <<program, stack, results>>

Finish(r) ==
  /\ results' = [results EXCEPT ![Top.call] = r]
  /\ stack' = Outer

(* fn returned nil: the frame that opened the transaction commits it.  A   *)
(* commit fails with a conflict, or the connection is lost and nobody      *)
(* knows whether the server committed.                                     *)
FnReturns ==
  /\ mode = "run" /\ pc <= Len(program) /\ Op.op = "end" /\ stack # <<>>
  /\ \/ /\ Top.tx = 0
        /\ Finish("nil") /\ pc' = pc + 1
        /\ UNCHANGED <<txs, mode, fault>>
     \/ /\ Top.tx # 0
        /\ txs' = [txs EXCEPT ![Top.tx].status = "committed"]
        /\ Finish("nil") /\ pc' = pc + 1
        /\ UNCHANGED <<mode, fault>>
     \/ /\ Top.tx # 0
        /\ \E lost \in BOOLEAN :
             /\ txs' = [txs EXCEPT ![Top.tx].status = IF lost THEN "lost" ELSE "rolledBack"]
             /\ fault' = [retryable |-> ~lost, lost |-> lost]
        /\ stack' = Append(Outer, [Top EXCEPT !.tx = 0])
        /\ mode' = "attemptFailed"
        /\ UNCHANGED <<pc, results>>
  /\ UNCHANGED <<program, auto>>

(* fn returned an error: the frame that opened the transaction rolls it    *)
(* back.  When the rollback fails too the pool discards the connection and *)
(* the server ends the transaction; both errors are wrapped.               *)
FnFails ==
  /\ mode = "fail" /\ stack # <<>>
  /\ mode' = "attemptFailed"
  /\ IF Top.tx = 0 THEN UNCHANGED <<txs, stack>>
     ELSE /\ txs' = [txs EXCEPT ![Top.tx].status = "rolledBack"]
          /\ stack' = Append(Outer, [Top EXCEPT !.tx = 0])
  /\ UNCHANGED <<program, pc, fault, results, auto>>

\* A panic that skips the deferred rollback.
FnPanicsOpen ==
  /\ mode = "panic" /\ stack # <<>>
  /\ Finish("panic")
  /\ UNCHANGED <<program, pc, mode, fault, txs, auto>>

\* A panic of fn rolls the transaction back and goes on.
FnPanics ==
  /\ mode = "panic" /\ stack # <<>>
  /\ IF Top.tx = 0 THEN UNCHANGED txs
     ELSE txs' = [txs EXCEPT ![Top.tx].status = "rolledBack"]
  /\ Finish("panic")
  /\ UNCHANGED <<program, pc, mode, fault, auto>>

(* Only a conflict is repeated, and only by the call that is not inside    *)
(* another transaction of its pool.                                        *)
MayRetry ==
  /\ Top.attempt < program[Top.at].retries
  /\ fault.retryable
  /\ TxFor(Outer, program[Top.at].db) = 0

(* 20ms << attempt in 64-bit nanoseconds, capped at a second: 20ms is      *)
(* 78125 * 2^8, so the shift keeps the bits of 78125 below 2^(56-attempt). *)
(* A negative delay makes rand.N panic.                                    *)
DelayPanics(attempt) ==
  /\ attempt < 56
  /\ 78125 % 2^(IF attempt < 36 THEN 20 ELSE 56 - attempt)
       >= 2^(IF attempt < 36 THEN 20 ELSE 55 - attempt)

(* executeWithRetry after a failed attempt: sleep and run fn again in a    *)
(* new transaction, which may not open; or give up.                        *)
Retry ==
  /\ mode = "attemptFailed" /\ MayRetry
  /\ IF DelayPanics(Top.attempt)
     THEN /\ mode' = "panic" /\ UNCHANGED <<pc, stack, fault, txs>>
     ELSE \/ /\ txs' = Opened(Top.call, program[Top.at].db)
             /\ stack' = Append(Outer, [Top EXCEPT !.attempt = @ + 1, !.tx = Len(txs) + 1])
             /\ mode' = "run" /\ fault' = NoFault /\ pc' = Top.at + 1
          \/ /\ stack' = Append(Outer, [Top EXCEPT !.attempt = @ + 1])
             /\ fault' = NoFault
             /\ UNCHANGED <<mode, pc, txs>>
  /\ UNCHANGED <<program, results, auto>>

(* Execute returns its error: the last attempt may not be repeated, or the *)
(* context ended during the sleep.  The caller's function returns it too,  *)
(* or handles it and goes on.                                              *)
GiveUp ==
  /\ mode = "attemptFailed"
  /\ Finish(IF fault.lost THEN "lost" ELSE "err")
  /\ \/ mode' = "fail" /\ UNCHANGED <<pc, fault>>
     \/ mode' = "run" /\ pc' = program[Top.at].end + 1 /\ fault' = NoFault
  /\ UNCHANGED <<program, txs, auto>>

TransactionNext ==
  CallerStep \/ Execute \/ Statement \/ FnReturns \/ FnFails \/ FnPanics \/ Retry \/ GiveUp

TransactionSpec == TransactionInit /\ [][TransactionNext]_txVars

(***************************************************************************)
(* What Execute promises.  A statement on a pool goes to the transaction   *)
(* of that pool whenever one of its Execute calls encloses it, and never   *)
(* to another pool's.  An Execute that returned left no transaction open;  *)
(* nil means its last attempt, and only that one, is committed; an error   *)
(* or a panic means nothing is, unless a commit was lost, which is never   *)
(* run again.                                                              *)
(***************************************************************************)
ExecuteAtomic ==
  /\ \A t \in 1 .. Len(txs) : \A w \in txs[t].writes : w.db = txs[t].db
  /\ \A w \in auto : ~w.inside
  /\ \A c \in 1 .. Len(results) :
       LET own == {t \in 1 .. Len(txs) : txs[t].call = c}
           last(t) == \A u \in own : u <= t
           with(s) == {t \in own : txs[t].status = s}
       IN results[c] # "open" =>
            /\ with("open") = {}
            /\ \A t \in with("committed") : last(t) /\ results[c] = "nil"
            /\ results[c] = "nil" => \A t \in own : last(t) => t \in with("committed")
            /\ \A t \in with("lost") : last(t) /\ results[c] = "lost"
=============================================================================
