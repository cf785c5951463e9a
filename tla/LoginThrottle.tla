--------------------------- MODULE LoginThrottle ---------------------------
(* iam: Authenticate of the built-in AuthPort and the login throttlers it   *)
(* consults, the in-memory one and the Redis one.  The application's user   *)
(* and tenant ports are external.                                           *)
EXTENDS Naturals, Sequences, SequencesExt, FiniteSets

CONSTANTS
    Logins,        \* goroutines that call Authenticate
    Emails, Addresses,   \* what an attempt names; "" is no address
    MaxAttempts, IPMaxAttempts, Window, Lockout,   \* ThrottleConfig, in ticks
    MaxTime,       \* bound: ticks of the clock
    MaxErrors      \* bound: store commands that fail

ASSUME ThrottleAssumption ==
    {MaxAttempts, IPMaxAttempts, Window, Lockout} \subseteq Nat \ {0} /\ MaxTime \in Nat

VARIABLES
    store,     \* "memory" or "redis"
    now,
    failures,  \* key -> times of the failures in the window
    locked,    \* key -> end of the lockout, 0 for none
    login,     \* login -> its call of Authenticate
    tries,     \* key -> times of the wrong passwords of the last Span ticks, since it was cleared
    missed     \* key -> wrong passwords the store failed to record
throttleVars == <<store, now, failures, locked, login, tries, missed>>

ThrottleKeys == {<<"e", e>> : e \in Emails} \cup {<<"i", a>> : a \in Addresses \ {""}}
Limit(k) == IF k[1] = "e" THEN MaxAttempts ELSE IPMaxAttempts

(* keys: the email's, and the address's when there is one. *)
KeysOf(at) == <<<<"e", at.email>>>> \o (IF at.ip = "" THEN << >> ELSE <<<<"i", at.ip>>>>)

Offline == [pc |-> "idle", at |-> [email |-> "", ip |-> ""], k |-> 1]

ThrottleInit ==
    /\ store \in {"memory", "redis"} /\ now = 1
    /\ failures = [k \in ThrottleKeys |-> << >>] /\ locked = [k \in ThrottleKeys |-> 0]
    /\ login = [l \in Logins |-> Offline]
    /\ tries = failures /\ missed = [k \in ThrottleKeys |-> 0]

(* Authenticate returns: with its ticket or with the error named beside it. *)
Return(l) == login' = [login EXCEPT ![l] = Offline]

Authenticate(l, e, a) ==
    /\ login[l].pc = "idle"
    /\ login' = [login EXCEPT ![l] = [Offline EXCEPT !.pc = "allow", !.at = [email |-> e, ip |-> a]]]
    /\ UNCHANGED <<store, now, failures, locked, tries, missed>>

-----------------------------------------------------------------------------
(* Allow: in memory both keys under the mutex, in Redis one EXISTS per key. *)

Refuses(k) == locked[k] > now

Allow(l) ==
    /\ login[l].pc = "allow"
    /\ LET keys == KeysOf(login[l].at)
           seen == IF store = "memory" THEN Range(keys) ELSE {keys[login[l].k]}
       IN IF \E k \in seen : Refuses(k) THEN Return(l)   \* ErrTooManyAttempts
          ELSE IF store = "memory" \/ login[l].k = Len(keys)
          THEN login' = [login EXCEPT ![l].pc = "password", ![l].k = 1]
          ELSE login' = [login EXCEPT ![l].k = @ + 1]
    /\ UNCHANGED <<store, now, failures, locked, tries, missed>>

(* A store failure fails closed. *)
AllowFails(l) ==
    /\ login[l].pc = "allow" /\ store = "redis"
    /\ Return(l)   \* the throttler's error
    /\ UNCHANGED <<store, now, failures, locked, tries, missed>>

(* FindByEmail and ValidatePassword: an unknown user costs a dummy check    *)
(* and fails like a wrong password.                                         *)
Password(l) ==
    /\ login[l].pc = "password"
    /\ \/ /\ login' = [login EXCEPT ![l].pc = "failure"]
          /\ tries' = [k \in ThrottleKeys |-> IF k \in Range(KeysOf(login[l].at))
                                              THEN Append(tries[k], now) ELSE tries[k]]
       \/ login' = [login EXCEPT ![l].pc = "success"] /\ UNCHANGED tries
    /\ UNCHANGED <<store, now, failures, locked, missed>>

-----------------------------------------------------------------------------
(* Failure: trim the window, add the failure, lock the key at its limit.    *)

InWindow(times) == SelectSeq(times, LAMBDA t : t + Window > now)
Recorded(f) == Append(InWindow(f), now)
RecordLate(keys) ==
    LET full(k) == Len(Recorded(failures[k])) > Limit(k)
    IN /\ failures' = [k \in ThrottleKeys |->
                         IF k \notin keys THEN failures[k]
                         ELSE IF full(k) THEN << >> ELSE Recorded(failures[k])]
       /\ locked' = [k \in ThrottleKeys |-> IF k \in keys /\ full(k) THEN now + Lockout ELSE locked[k]]
Record(keys) ==
    LET full(k) == Len(Recorded(failures[k])) >= Limit(k)
    IN /\ failures' = [k \in ThrottleKeys |->
                         IF k \notin keys THEN failures[k]
                         ELSE IF full(k) THEN << >> ELSE Recorded(failures[k])]
       /\ locked' = [k \in ThrottleKeys |-> IF k \in keys /\ full(k) THEN now + Lockout ELSE locked[k]]

Failure(l) ==
    /\ login[l].pc = "failure"
    /\ LET keys == KeysOf(login[l].at)
       IN /\ Record(IF store = "memory" THEN Range(keys) ELSE {keys[login[l].k]})
          /\ IF store = "memory" \/ login[l].k = Len(keys) THEN Return(l)   \* ErrInvalidCredentials
             ELSE login' = [login EXCEPT ![l].k = @ + 1]
    /\ UNCHANGED <<store, now, tries, missed>>

(* The script of one key fails: Failure returns, the keys after it are not  *)
(* counted either, and the caller only notes it in the event.               *)
FailureFails(l) ==
    /\ login[l].pc = "failure" /\ store = "redis"
    /\ \A k \in ThrottleKeys : missed[k] < MaxErrors
    /\ LET keys == KeysOf(login[l].at)
       IN missed' = [k \in ThrottleKeys |->
                       IF \E j \in login[l].k .. Len(keys) : keys[j] = k THEN missed[k] + 1 ELSE missed[k]]
    /\ Return(l)   \* ErrInvalidCredentials
    /\ UNCHANGED <<store, now, failures, locked, tries>>

(* Success clears the email's failures; the address's count and any lockout *)
(* stay.  Whether the account is active is looked at after it.              *)
LoginSuccess(l) ==
    /\ login[l].pc = "success"
    /\ failures' = [failures EXCEPT ![<<"e", login[l].at.email>>] = << >>]
    /\ tries' = [tries EXCEPT ![<<"e", login[l].at.email>>] = << >>]
    /\ login' = [login EXCEPT ![l].pc = "account"]
    /\ UNCHANGED <<store, now, locked, missed>>

(* The DEL fails: the failures stay and the login goes on. *)
LoginSuccessFails(l) ==
    /\ login[l].pc = "success" /\ store = "redis"
    /\ login' = [login EXCEPT ![l].pc = "account"]
    /\ UNCHANGED <<store, now, failures, locked, tries, missed>>

(* Inactive, the tenants cannot be listed, or the ticket. *)
Account(l) ==
    /\ login[l].pc = "account"
    /\ Return(l)
    /\ UNCHANGED <<store, now, failures, locked, tries, missed>>

Span == IF Window < Lockout THEN Window ELSE Lockout
Tick ==
    /\ now < MaxTime
    /\ now' = now + 1
    /\ tries' = [k \in ThrottleKeys |-> SelectSeq(tries[k], LAMBDA t : t + Span > now')]
    /\ UNCHANGED <<store, failures, locked, login, missed>>

ThrottleNext ==
    \/ \E l \in Logins :
         \/ \E e \in Emails, a \in Addresses : Authenticate(l, e, a)
         \/ Allow(l) \/ AllowFails(l) \/ Password(l) \/ Failure(l) \/ FailureFails(l)
         \/ LoginSuccess(l) \/ LoginSuccessFails(l) \/ Account(l)
    \/ Tick

(* The throttle holds (localAuth.Authenticate, LoginThrottler): however     *)
(* logins interleave between Allow and Failure, and whatever an email's own *)
(* successful logins clear, the wrong passwords tried within the shorter of *)
(* the window and the lockout, for an email or from an address, are at most *)
(* its limit plus one for each other login in flight, and one for each      *)
(* failure the store did not record.                                        *)
GuessesBounded ==
    \A k \in ThrottleKeys : Len(tries[k]) <= Limit(k) + Cardinality(Logins) - 1 + missed[k]
=============================================================================
