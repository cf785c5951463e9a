--------------------------- MODULE SessionsProofs ---------------------------
(***************************************************************************)
(* Theorems about iam: Sessions, for any number of calls, tickets,         *)
(* sessions and store failures, over either store; and, last, the shared   *)
(* fetches of Idp.                                                         *)
(*                                                                         *)
(* A session id is used once: a session is active until it is revoked or   *)
(* removed and never again (Spent).  So the call that rotates a session is *)
(* the only one that ever will, and a call that begins after a logout is   *)
(* stopped by the session's state or by the cut-off, which is at least     *)
(* that of every completed LogoutAll as long as none was overtaken.        *)
(***************************************************************************)
EXTENDS Sessions, Idp, TLAPS
-----------------------------------------------------------------------------
(* The inductive invariant.                                                *)

CallRecord ==
    [pc : Pc, began : Nat, sid : Sid \cup {0}, tk : Ticket \cup {0}, from : Sid \cup {0}, time : Nat, exp : Nat,
     ids : SUBSET Sid, stale : SUBSET Sid, all : BOOLEAN, failed : BOOLEAN, dead : BOOLEAN]

Types ==
    /\ StoreTypeOK /\ now # 0
    /\ ticket \in [Ticket -> Tickets]
    /\ call \in [Call -> CallRecord]
    /\ issued \in SUBSET Sid /\ out \in SUBSET Sid /\ outTime \in Nat
    /\ failures \in 0 .. MaxFailures /\ calls \in 0 .. MaxCalls
    /\ heirs \in [Sid -> Nat]
    /\ overtaken \in BOOLEAN /\ revived \in BOOLEAN

\* The id was used, and its session is revoked or gone: it is never active again.
Spent(s) == sess[s].exp # 0 /\ sess[s].st # "active"

\* A session: once its token is out the store forgets it only after its time;
\* a logged out or rotated one is spent.
SessOK(s) ==
    /\ sess[s].st # "none" => sess[s].exp # 0
    /\ sess[s].exp # 0 => sess[s].auth # 0
    /\ sess[s].exp <= sess[s].hold
    /\ s \in issued => sess[s].exp # 0 /\ (sess[s].st = "none" => sess[s].exp < now)
    /\ s \in out \/ heirs[s] # 0 => Spent(s)
    /\ heirs[s] \in {0, 1}

\* A ticket that was used is remembered for Slack past its time.
TicketOK(t) ==
    /\ ticket[t].exp # 0 => TicketTTL < ticket[t].exp
    /\ ticket[t].uses \in {0, 1}
    /\ ticket[t].uses # 0 => ticket[t].exp # 0 /\ ticket[t].seen = ticket[t].exp + Slack

\* A call in progress.  One that rotates a session has spent it and not issued
\* its heir yet; one that began after a logout gets no further than the cut-off,
\* unless a cut-off was overtaken.
RecOK(c) ==
    /\ c.pc # "idle" => now <= c.began + CallTime
    /\ c.pc = "consume" \/ (c.pc = "stamp" /\ c.from = 0) => c.tk \in Ticket /\ ticket[c.tk].exp # 0
    /\ c.pc = "consume" => c.began <= ticket[c.tk].exp /\ ~c.dead
    /\ c.pc = "get" => c.time = 0
    /\ c.pc \in {"get", "refreshCutoff", "rotate", "check", "checkCutoff"} => c.sid \in issued
    /\ c.from # 0 => c.pc \in {"stamp", "save"} /\ Spent(c.from) /\ heirs[c.from] = 0
    /\ c.pc = "save" => c.time # 0 /\ c.exp # 0
    /\ c.pc \in {"setCutoff", "members", "each", "prune"} => c.time <= now
    /\ c.pc \in {"members", "each", "prune"} => overtaken \/ c.time <= cutoff
    /\ c.dead /\ c.pc \in {"get", "check"} => LoggedOut(c.sid)
    /\ c.dead /\ c.pc \in {"refreshCutoff", "checkCutoff"} => sess[c.sid].auth <= outTime
    /\ c.dead /\ c.pc \in {"rotate", "stamp", "save"} => overtaken

\* Two calls never rotate the same session.
Rotations == \A p, q \in Call : p # q /\ call[p].from # 0 => call[p].from # call[q].from

\* The cut-off is at least that of every LogoutAll that returned nil.
CutoffOK ==
    /\ cutoff <= now /\ outTime <= now
    /\ overtaken \/ outTime <= cutoff
    /\ revived => overtaken

SInv ==
    /\ Types
    /\ \A s \in Sid : SessOK(s)
    /\ \A t \in Ticket : TicketOK(t)
    /\ \A p \in Call : RecOK(call[p])
    /\ Rotations
    /\ CutoffOK

-----------------------------------------------------------------------------
(* Types.                                                                  *)

SessRecord == [st : {"none", "active", "revoked"}, auth : Nat, exp : Nat, hold : Nat]

IndexRecord == [ids : SUBSET Sid, until : Nat]

LEMMA ConstantFacts ==
    /\ 0 \notin Sid /\ Sid \subseteq Nat
    /\ RefreshTTL \in Nat /\ RefreshTTL # 0 /\ MaxLifetime \in Nat /\ MaxLifetime # 0 /\ TicketTTL \in Nat
    /\ CallTime \in Nat /\ MaxTime \in Nat /\ MaxFailures \in Nat /\ MaxCalls \in Nat
    /\ Slack \in Nat /\ Retention \in Nat
<1>1. 0 \notin Sid /\ Sid \subseteq Nat /\ Slack \in Nat /\ Retention \in Nat
  BY StoreAssumption
<1>2. /\ RefreshTTL \in Nat /\ RefreshTTL # 0 /\ MaxLifetime \in Nat /\ MaxLifetime # 0 /\ TicketTTL \in Nat
      /\ CallTime \in Nat /\ MaxTime \in Nat /\ MaxFailures \in Nat /\ MaxCalls \in Nat
  BY SessionsAssumption
<1> QED
  BY Zenon, <1>1, <1>2

LEMMA SessFields ==
    ASSUME Types, NEW s \in Sid
    PROVE  /\ sess[s] \in SessRecord /\ sess[s].auth \in Nat /\ sess[s].exp \in Nat /\ sess[s].hold \in Nat
           /\ sess[s].st \in {"none", "active", "revoked"}
<1>1. sess[s] \in SessRecord
  BY Zenon DEF Types, StoreTypeOK, SessRecord
<1> QED
  BY <1>1 DEF SessRecord

LEMMA TicketFields ==
    ASSUME Types, NEW t \in Ticket
    PROVE  ticket[t] \in Tickets /\ ticket[t].exp \in Nat /\ ticket[t].seen \in Nat /\ ticket[t].uses \in Nat
<1>1. ticket[t] \in Tickets
  BY Zenon DEF Types
<1> QED
  BY <1>1 DEF Tickets

LEMMA CallFields ==
    ASSUME NEW c \in CallRecord
    PROVE  /\ c.pc \in Pc /\ c.began \in Nat /\ c.sid \in Sid \cup {0} /\ c.tk \in Ticket \cup {0}
           /\ c.from \in Sid \cup {0} /\ c.time \in Nat /\ c.exp \in Nat
           /\ c.ids \in SUBSET Sid /\ c.stale \in SUBSET Sid
           /\ c.all \in BOOLEAN /\ c.failed \in BOOLEAN /\ c.dead \in BOOLEAN
  BY DEF CallRecord

\* Two records agree on what the invariant says of a call, its pc aside.
Alike(r, c) ==
    /\ r.began = c.began /\ r.sid = c.sid /\ r.tk = c.tk /\ r.from = c.from
    /\ r.time = c.time /\ r.exp = c.exp /\ r.dead = c.dead

LEMMA GoesRecord ==
    ASSUME NEW c \in CallRecord, NEW x \in Pc
    PROVE  \E r \in CallRecord : r = [c EXCEPT !.pc = x] /\ r.pc = x /\ Alike(r, c)
<1>1. PICK r : r = [c EXCEPT !.pc = x]
  BY Zenon
<1>2. r \in CallRecord
  BY <1>1 DEF CallRecord
<1>3. r.pc = x /\ r.began = c.began /\ r.sid = c.sid /\ r.tk = c.tk /\ r.from = c.from
  BY <1>1 DEF CallRecord
<1>4. r.time = c.time /\ r.exp = c.exp /\ r.dead = c.dead
  BY <1>1 DEF CallRecord
<1> QED
  BY Zenon, <1>1, <1>2, <1>3, <1>4 DEF Alike

LEMMA IdleCall ==
    Idle \in CallRecord /\ Idle.pc = "idle" /\ Idle.from = 0 /\ Idle.dead = FALSE
<1>1. "idle" \in Pc
  BY Zenon DEF Pc
<1> QED
  BY <1>1 DEF Idle, CallRecord

\* The record of a call that begins.
Begun(x, n, s, d) == [Idle EXCEPT !.pc = x, !.began = n, !.sid = s, !.dead = d]

IsBegun(r, x, n, s, d) ==
    /\ r = Begun(x, n, s, d)
    /\ r.pc = x /\ r.began = n /\ r.sid = s /\ r.dead = d /\ r.from = 0 /\ r.time = 0

LEMMA BegunCall ==
    ASSUME NEW x \in Pc, NEW n \in Nat, NEW s \in Sid, NEW d \in BOOLEAN
    PROVE  \E r \in CallRecord : IsBegun(r, x, n, s, d)
<1>1. PICK y \in CallRecord : y = Idle
  BY Zenon, IdleCall
<1>2. y.from = 0 /\ y.time = 0
  BY <1>1 DEF Idle
<1> DEFINE r == [y EXCEPT !.pc = x, !.began = n, !.sid = s, !.dead = d]
<1>3. r \in CallRecord /\ r.pc = x /\ r.began = n /\ r.sid = s /\ r.dead = d /\ r.from = 0 /\ r.time = 0
  BY <1>2 DEF CallRecord
<1>4. r = Begun(x, n, s, d)
  BY Zenon, <1>1 DEF Begun
<1> HIDE DEF r
<1> QED
  BY Zenon, <1>3, <1>4 DEF IsBegun

LEMMA TypesImply == Types => TypeOK
<1> SUFFICES ASSUME Types PROVE TypeOK
  OBVIOUS
<1>1. ASSUME NEW p \in Call
      PROVE  /\ call[p].pc \in Pc /\ call[p].sid \in Sid \cup {0} /\ call[p].from \in Sid \cup {0}
             /\ call[p].ids \subseteq Sid /\ call[p].stale \subseteq Sid
             /\ call[p].time \in Nat /\ call[p].exp \in Nat
  BY Zenon, CallFields DEF Types
<1>2. issued \subseteq Sid /\ out \subseteq Sid
  BY Zenon DEF Types
<1> QED
  BY Zenon, <1>1, <1>2 DEF Types, TypeOK

\* How the counters of the model's bounds move.
Budget ==
    /\ failures' = failures \/ (failures < MaxFailures /\ failures' = failures + 1)
    /\ calls' = calls \/ (calls < MaxCalls /\ calls' = calls + 1)

LEMMA BudgetTypes ==
    ASSUME Types, Budget
    PROVE  failures' \in 0 .. MaxFailures /\ calls' \in 0 .. MaxCalls
<1>1. failures \in 0 .. MaxFailures /\ calls \in 0 .. MaxCalls
  BY Zenon DEF Types
<1> QED
  BY <1>1, ConstantFacts DEF Budget
-----------------------------------------------------------------------------
(* How the store moves.                                                    *)

\* Whatever is done to a session that was saved, but for forgetting it after
\* its time, it is only revoked.
SessMoves(s) ==
    /\ sess'[s].auth = sess[s].auth /\ sess'[s].exp = sess[s].exp
    /\ sess[s].hold <= sess'[s].hold
    /\ \/ sess'[s].st = sess[s].st
       \/ sess[s].st # "none" /\ sess'[s].st = "revoked"
       \/ sess'[s].st = "none" /\ sess[s].exp < now

LEMMA SameSession ==
    ASSUME Types, NEW s \in Sid, sess'[s] = sess[s]
    PROVE  SessMoves(s)
<1>1. sess[s].hold <= sess[s].hold
  BY SessFields
<1> QED
  BY Zenon, <1>1 DEF SessMoves

LEMMA RevokedRecord ==
    ASSUME Types, NEW s \in Sid
    PROVE  /\ Revoked(s) \in SessRecord /\ Revoked(s).st = "revoked"
           /\ Revoked(s).auth = sess[s].auth /\ Revoked(s).exp = sess[s].exp /\ sess[s].hold <= Revoked(s).hold
<1>1. now \in Nat
  BY Zenon DEF Types, StoreTypeOK
<1>2. PICK h : h = IF store = "redis" THEN Later(sess[s].hold, now + Retention) ELSE sess[s].hold
  BY Zenon
<1>3. h \in Nat /\ sess[s].hold <= h
  BY <1>1, <1>2, SessFields, ConstantFacts DEF Later
<1>4. PICK r : r = [sess[s] EXCEPT !.st = "revoked", !.hold = h]
  BY Zenon
<1>5. r = Revoked(s)
  BY Zenon, <1>2, <1>4 DEF Revoked
<1>6. sess[s] \in SessRecord
  BY Zenon, SessFields
<1>7. r \in SessRecord /\ r.st = "revoked" /\ r.auth = sess[s].auth /\ r.exp = sess[s].exp /\ r.hold = h
  BY <1>3, <1>4, <1>6 DEF SessRecord
<1> QED
  BY Zenon, <1>3, <1>5, <1>7

LEMMA RevokeMoves ==
    ASSUME Types, NEW ids, Revoke(ids)
    PROVE  /\ sess' \in [Sid -> SessRecord] /\ \A s \in Sid : SessMoves(s)
           /\ \A s \in Sid : s \in ids /\ Stored(s) => sess'[s].st = "revoked"
<1>1. \A s \in Sid : sess'[s] = IF s \in ids /\ Stored(s) THEN Revoked(s) ELSE sess[s]
  BY Zenon DEF Revoke
<1>2. ASSUME NEW s \in Sid PROVE SessMoves(s) /\ sess'[s] \in SessRecord /\ (s \in ids /\ Stored(s) => sess'[s].st = "revoked")
  <2>1. CASE s \in ids /\ Stored(s)
    BY Zenon, <1>1, <2>1, RevokedRecord DEF SessMoves, Stored
  <2>2. CASE ~(s \in ids /\ Stored(s))
    BY Zenon, <1>1, <2>2, SessFields, SameSession
  <2> QED
    BY Zenon, <2>1, <2>2
<1>3. sess' \in [Sid -> SessRecord]
  BY Zenon, <1>1, <1>2 DEF Revoke
<1> QED
  BY Zenon, <1>2, <1>3

LEMMA MemoryMoves ==
    ASSUME Types, RevokeAllInMemory
    PROVE  sess' \in [Sid -> SessRecord] /\ \A s \in Sid : SessMoves(s)
<1>1. \A s \in Sid : sess'[s] = IF sess[s].st = "active" THEN Revoked(s) ELSE sess[s]
  BY Zenon DEF RevokeAllInMemory
<1>2. ASSUME NEW s \in Sid PROVE SessMoves(s) /\ sess'[s] \in SessRecord
  <2>1. CASE sess[s].st = "active"
    BY Zenon, <1>1, <2>1, RevokedRecord DEF SessMoves
  <2>2. CASE sess[s].st # "active"
    BY Zenon, <1>1, <2>2, SessFields, SameSession
  <2> QED
    BY Zenon, <2>1, <2>2
<1>3. sess' \in [Sid -> SessRecord]
  BY Zenon, <1>1, <1>2 DEF RevokeAllInMemory
<1> QED
  BY Zenon, <1>2, <1>3

LEMMA ForgottenRecord ==
    ASSUME Types, NEW s \in Sid
    PROVE  \E r \in SessRecord : /\ r = [sess[s] EXCEPT !.st = "none"] /\ r.st = "none" /\ r.auth = sess[s].auth
                                 /\ r.exp = sess[s].exp /\ sess[s].hold <= r.hold
<1>1. sess[s] \in SessRecord /\ sess[s].hold <= sess[s].hold
  BY SessFields
<1>2. PICK r : r = [sess[s] EXCEPT !.st = "none"]
  BY Zenon
<1>3. r \in SessRecord /\ r.st = "none" /\ r.auth = sess[s].auth /\ r.exp = sess[s].exp /\ r.hold = sess[s].hold
  BY <1>1, <1>2 DEF SessRecord
<1> QED
  BY Zenon, <1>1, <1>2, <1>3

LEMMA GetMoves ==
    ASSUME Types, NEW x \in Sid, GetEffect(x)
    PROVE  sess' \in [Sid -> SessRecord] /\ (\A s \in Sid : SessMoves(s)) /\ (Found(x) => sess' = sess)
<1>1. sess \in [Sid -> SessRecord]
  BY Zenon DEF Types, StoreTypeOK, SessRecord
<1>2. CASE Stored(x) /\ ~Found(x)
  <2>1. PICK r \in SessRecord : /\ r = [sess[x] EXCEPT !.st = "none"] /\ r.st = "none" /\ r.auth = sess[x].auth
                                /\ r.exp = sess[x].exp /\ sess[x].hold <= r.hold
    BY Zenon, ForgottenRecord
  <2>2. sess' = [sess EXCEPT ![x] = r]
    BY Zenon, <1>2, <2>1 DEF GetEffect
  <2>3. ~(now <= sess[x].exp)
    BY Zenon, <1>2 DEF Found
  <2>4. sess[x].exp < now
    <3>1. now \in Nat /\ sess[x].exp \in Nat
      BY Zenon, SessFields DEF Types, StoreTypeOK
    <3> QED
      BY <2>3, <3>1
  <2>5. SessMoves(x)
    BY Zenon, <1>1, <2>1, <2>2, <2>4 DEF SessMoves
  <2>6. \A s \in Sid \ {x} : sess'[s] = sess[s]
    BY Zenon, <1>1, <2>2
  <2> QED
    BY Zenon, <1>1, <1>2, <2>1, <2>2, <2>5, <2>6, SameSession
<1>3. CASE ~(Stored(x) /\ ~Found(x))
  <2>1. sess' = sess
    BY Zenon, <1>3 DEF GetEffect
  <2> QED
    BY Zenon, <1>1, <2>1, SameSession
<1> QED
  BY Zenon, <1>2, <1>3

LEMMA GcMoves ==
    ASSUME Types, Gc
    PROVE  sess' \in [Sid -> SessRecord] /\ \A s \in Sid : SessMoves(s)
<1>1. PICK old : /\ old = {s \in Sid : sess[s].st # "none" /\ now > sess[s].exp + Retention}
                 /\ sess' = [s \in Sid |-> IF s \in old THEN [sess[s] EXCEPT !.st = "none"] ELSE sess[s]]
  BY Zenon DEF Gc
<1>2. ASSUME NEW s \in Sid PROVE SessMoves(s) /\ sess'[s] \in SessRecord
  <2>1. CASE s \in old
    <3>1. PICK r \in SessRecord : /\ r = [sess[s] EXCEPT !.st = "none"] /\ r.st = "none" /\ r.auth = sess[s].auth
                                  /\ r.exp = sess[s].exp /\ sess[s].hold <= r.hold
      BY Zenon, ForgottenRecord
    <3>2. sess'[s] = r
      BY Zenon, <1>1, <2>1, <3>1
    <3>3. now > sess[s].exp + Retention
      BY Zenon, <1>1, <2>1
    <3>4. now \in Nat /\ sess[s].exp \in Nat
      BY Zenon, SessFields DEF Types, StoreTypeOK
    <3>5. sess[s].exp < now
      BY <3>3, <3>4, ConstantFacts
    <3> QED
      BY Zenon, <3>1, <3>2, <3>5 DEF SessMoves
  <2>2. CASE s \notin old
    BY Zenon, <1>1, <2>2, SessFields, SameSession
  <2> QED
    BY Zenon, <2>1, <2>2
<1> QED
  BY Zenon, <1>1, <1>2
-----------------------------------------------------------------------------
(* What every step but the clock's does, and what it leaves of the others. *)

Moves ==
    /\ UNCHANGED <<store, now>>
    /\ \A s \in Sid : sess[s].exp # 0 => SessMoves(s)
    /\ issued \subseteq issued' /\ out \subseteq out'
    /\ \A n \in Nat : n <= outTime => n <= outTime'
    /\ overtaken => overtaken'
    /\ overtaken' \/ \A n \in Nat : n <= cutoff => n <= cutoff'
    /\ \A t \in Ticket : ticket[t].exp # 0 => ticket'[t].exp = ticket[t].exp

\* A spent session stays spent.
LEMMA SpentStays ==
    ASSUME NEW s \in Sid, Spent(s), SessMoves(s)
    PROVE  Spent(s)'
  BY Zenon DEF Spent, SessMoves

LEMMA SessKept ==
    ASSUME SInv, now' = now, NEW s \in Sid, SessMoves(s), sess' \in [Sid -> SessRecord],
           UNCHANGED <<issued, heirs>>, s \in out' => s \in out \/ Spent(s)'
    PROVE  SessOK(s)'
<1>1. SessOK(s) /\ Types
  BY Zenon DEF SInv
<1>2. sess'[s].exp <= sess'[s].hold
  <2>1. sess'[s].hold \in Nat
    <3>1. sess'[s] \in SessRecord
      BY Zenon
    <3> QED
      BY <3>1 DEF SessRecord
  <2>2. sess[s].exp \in Nat /\ sess[s].hold \in Nat /\ sess[s].exp <= sess[s].hold
        /\ sess'[s].exp = sess[s].exp /\ sess[s].hold <= sess'[s].hold
    BY Zenon, <1>1, SessFields DEF SessOK, SessMoves
  <2> QED
    BY <2>1, <2>2
<1>3. Spent(s) => Spent(s)'
  BY Zenon, SpentStays
<1>4. (s \in issued => sess[s].exp # 0 /\ (sess[s].st = "none" => sess[s].exp < now))'
  BY Zenon, <1>1 DEF SessOK, SessMoves
<1>5. (sess[s].st # "none" => sess[s].exp # 0)' /\ (sess[s].exp # 0 => sess[s].auth # 0)'
  BY Zenon, <1>1 DEF SessOK, SessMoves
<1>6. (s \in out \/ heirs[s] # 0 => Spent(s))' /\ (heirs[s] \in {0, 1})'
  BY Zenon, <1>1, <1>3 DEF SessOK
<1> QED
  BY Zenon, <1>2, <1>4, <1>5, <1>6 DEF SessOK

\* A call that does not move keeps what the invariant says of it.
LEMMA OthersOK ==
    ASSUME SInv, Moves, NEW c \in CallRecord, RecOK(c), c.from # 0 => heirs'[c.from] = heirs[c.from]
    PROVE  RecOK(c)'
<1>1. Types /\ c.from \in Sid \cup {0} /\ now' = now /\ issued \in SUBSET Sid
  BY Zenon, CallFields DEF SInv, Moves, Types
<1>2. c.pc \in {"get", "refreshCutoff", "rotate", "check", "checkCutoff"} =>
        c.sid \in issued /\ c.sid \in Sid /\ SessMoves(c.sid) /\ sess[c.sid].auth \in Nat
  BY Zenon, <1>1, SessFields DEF RecOK, Moves, SInv, SessOK
<1>3. c.from # 0 => Spent(c.from)' /\ heirs'[c.from] = 0
  <2> SUFFICES ASSUME c.from # 0 PROVE Spent(c.from)' /\ heirs'[c.from] = 0
    OBVIOUS
  <2>1. c.from \in Sid /\ Spent(c.from) /\ heirs[c.from] = 0
    BY Zenon, <1>1 DEF RecOK
  <2>2. SessMoves(c.from)
    BY Zenon, <2>1 DEF Moves, Spent
  <2> QED
    BY Zenon, <2>1, <2>2, SpentStays
<1>4. /\ (c.pc = "consume" \/ (c.pc = "stamp" /\ c.from = 0) => c.tk \in Ticket /\ ticket[c.tk].exp # 0)'
      /\ (c.pc = "consume" => c.began <= ticket[c.tk].exp /\ ~c.dead)'
  BY Zenon DEF RecOK, Moves
<1>5. (c.pc \in {"members", "each", "prune"} => overtaken \/ c.time <= cutoff)'
  BY Zenon, CallFields DEF RecOK, Moves
<1>6. /\ (c.dead /\ c.pc \in {"get", "check"} => LoggedOut(c.sid))'
      /\ (c.dead /\ c.pc \in {"refreshCutoff", "checkCutoff"} => sess[c.sid].auth <= outTime)'
  BY Zenon, <1>2 DEF RecOK, Moves, LoggedOut, SessMoves
<1>7. /\ (c.pc # "idle" => now <= c.began + CallTime)' /\ (c.pc = "get" => c.time = 0)'
      /\ (c.pc = "save" => c.time # 0 /\ c.exp # 0)'
      /\ (c.pc \in {"setCutoff", "members", "each", "prune"} => c.time <= now)'
  BY Zenon, <1>1 DEF RecOK
<1>8. /\ (c.pc \in {"get", "refreshCutoff", "rotate", "check", "checkCutoff"} => c.sid \in issued)'
      /\ (c.dead /\ c.pc \in {"rotate", "stamp", "save"} => overtaken)'
      /\ c.from # 0 => c.pc \in {"stamp", "save"}
  BY Zenon DEF RecOK, Moves
<1> QED
  BY Zenon, <1>3, <1>4, <1>5, <1>6, <1>7, <1>8 DEF RecOK

LEMMA RecPrimed ==
    ASSUME NEW r, NEW p \in Call, call'[p] = r, RecOK(r)'
    PROVE  RecOK(call[p])'
  BY ZenonT(40) DEF RecOK

\* A step of one call.
LEMMA CallStep ==
    ASSUME SInv, Types', Moves, NEW p \in Call, NEW r \in CallRecord, call' = [call EXCEPT ![p] = r],
           RecOK(r)', \A s \in Sid : SessOK(s)', \A t \in Ticket : TicketOK(t)', CutoffOK',
           \A s \in Sid : s # call[p].from => heirs'[s] = heirs[s],
           r.from # 0 => r.from = call[p].from \/ sess[r.from].st = "active"
    PROVE  SInv'
<1>1. Types /\ Rotations /\ \A q \in Call : call[q] \in CallRecord /\ RecOK(call[q])
  BY Zenon DEF SInv, Types
<1>2. call'[p] = r /\ \A q \in Call \ {p} : call'[q] = call[q]
  BY Zenon DEF SInv, Types
<1>3. ASSUME NEW q \in Call \ {p} PROVE RecOK(call[q])'
  <2>1. PICK c \in CallRecord : c = call[q]
    BY Zenon, <1>1
  <2>2. RecOK(c) /\ c.from \in Sid \cup {0}
    BY Zenon, <1>1, <2>1, CallFields
  <2>3. c.from # 0 => c.from # call[p].from
    BY Zenon, <1>1, <2>1 DEF Rotations
  <2>4. RecOK(c)'
    BY Zenon, <2>2, <2>3, OthersOK
  <2>5. call'[q] = c
    BY Zenon, <1>2, <2>1
  <2> QED
    BY Zenon, <2>4, <2>5, RecPrimed
<1>4. RecOK(call[p])'
  BY Zenon, <1>2, RecPrimed
<1>5. ASSUME NEW q \in Call, q # p
      PROVE  /\ r.from # 0 => r.from # call[q].from
             /\ call[q].from # 0 => call[q].from # r.from
  <2>1. call[q].from # 0 => Spent(call[q].from) /\ call[q].from # call[p].from
    BY Zenon, <1>1, <1>5 DEF RecOK, Rotations
  <2> QED
    BY Zenon, <2>1 DEF Spent
<1>6. Rotations'
  <2> SUFFICES ASSUME NEW u \in Call, NEW v \in Call, u # v, call'[u].from # 0
               PROVE  call'[u].from # call'[v].from
    BY Zenon DEF Rotations
  <2>1. CASE u = p
    BY Zenon, <1>2, <1>5, <2>1
  <2>2. CASE v = p
    BY Zenon, <1>2, <1>5, <2>2
  <2>3. CASE u # p /\ v # p
    <3>1. call'[u] = call[u] /\ call'[v] = call[v]
      BY Zenon, <1>2, <2>3
    <3>2. call[u].from # 0
      BY Zenon, <3>1
    <3>3. call[u].from # call[v].from
      BY Zenon, <1>1, <3>2 DEF Rotations
    <3> QED
      BY Zenon, <3>1, <3>3
  <2> QED
    BY Zenon, <2>1, <2>2, <2>3
<1> QED
  BY Zenon, <1>3, <1>4, <1>6 DEF SInv

\* A step of no call.
LEMMA QuietStep ==
    ASSUME SInv, Types', Moves, UNCHANGED <<call, heirs>>,
           \A s \in Sid : SessOK(s)', \A t \in Ticket : TicketOK(t)', CutoffOK'
    PROVE  SInv'
<1>1. ASSUME NEW q \in Call PROVE RecOK(call[q])'
  <2>1. PICK c \in CallRecord : c = call[q]
    BY Zenon DEF SInv, Types
  <2>2. RecOK(c)
    BY Zenon, <2>1 DEF SInv
  <2>3. RecOK(c)' /\ call'[q] = c
    BY Zenon, <2>1, <2>2, OthersOK
  <2> QED
    BY ZenonT(40), <2>3 DEF RecOK
<1>2. Rotations'
  BY Zenon DEF SInv, Rotations
<1> QED
  BY Zenon, <1>1, <1>2 DEF SInv

\* Nothing but the sessions, the index and the logged out move.
StoreOnly ==
    /\ UNCHANGED <<store, now, cutoff, ticket, issued, heirs, outTime, overtaken, revived>>
    /\ sess' \in [Sid -> SessRecord] /\ index' \in IndexRecord
    /\ \A s \in Sid : SessMoves(s)
    /\ out \subseteq out' /\ out' \in SUBSET Sid
    /\ \A s \in out' : s \in out \/ Spent(s)'

LEMMA StoreOnlyMoves ==
    ASSUME SInv, StoreOnly
    PROVE  Moves /\ (\A s \in Sid : SessOK(s)') /\ (\A t \in Ticket : TicketOK(t)') /\ CutoffOK'
<1>1. Moves
  BY Zenon DEF Moves, StoreOnly
<1>2. \A s \in Sid : SessOK(s)'
  BY Zenon, SessKept DEF StoreOnly
<1>3. \A t \in Ticket : TicketOK(t)'
  BY Zenon DEF SInv, TicketOK, StoreOnly
<1>4. CutoffOK'
  BY Zenon DEF SInv, CutoffOK, StoreOnly
<1> QED
  BY Zenon, <1>1, <1>2, <1>3, <1>4

LEMMA StoreOnlyTypes ==
    ASSUME Types, StoreOnly, Budget, call' \in [Call -> CallRecord]
    PROVE  Types'
<1>1. failures' \in 0 .. MaxFailures /\ calls' \in 0 .. MaxCalls
  BY Zenon, BudgetTypes
<1>2. StoreTypeOK'
  BY Zenon DEF Types, StoreTypeOK, StoreOnly, SessRecord, IndexRecord
<1> QED
  BY Zenon, <1>1, <1>2 DEF Types, StoreOnly

LEMMA StoreStep ==
    ASSUME SInv, StoreOnly, Budget, NEW p \in Call, NEW r \in CallRecord, call' = [call EXCEPT ![p] = r],
           RecOK(r)', r.from # 0 => r.from = call[p].from \/ sess[r.from].st = "active"
    PROVE  SInv'
<1>1. call' \in [Call -> CallRecord]
  BY Zenon DEF SInv, Types
<1>2. Types'
  BY Zenon, <1>1, StoreOnlyTypes DEF SInv
<1>3. \A s \in Sid : s # call[p].from => heirs'[s] = heirs[s]
  BY Zenon DEF StoreOnly
<1> QED
  BY Zenon, <1>2, <1>3, StoreOnlyMoves, CallStep

\* Nothing but a call moves.
CallOnly == UNCHANGED <<store, now, storeVars, ticket, issued, history>>

LEMMA CallOnlyStore ==
    ASSUME Types, CallOnly
    PROVE  StoreOnly
<1>1. sess \in [Sid -> SessRecord] /\ index \in IndexRecord /\ out \in SUBSET Sid
  BY Zenon DEF Types, StoreTypeOK, SessRecord, IndexRecord
<1>2. \A s \in Sid : SessMoves(s)
  BY Zenon, SameSession DEF CallOnly, storeVars
<1> QED
  BY Zenon, <1>1, <1>2 DEF StoreOnly, CallOnly, storeVars, history

LEMMA OnlyCall ==
    ASSUME SInv, CallOnly, Budget, NEW p \in Call, NEW r \in CallRecord, call' = [call EXCEPT ![p] = r],
           RecOK(r), r.from # 0 => r.from = call[p].from
    PROVE  SInv'
<1>1. RecOK(r)'
  BY ZenonT(40) DEF RecOK, Spent, LoggedOut, CallOnly, storeVars, history
<1> QED
  BY Zenon, <1>1, CallOnlyStore, StoreStep DEF SInv

\* A call returns, having changed at most the store.
LEMMA ReturnStep ==
    ASSUME SInv, StoreOnly, Budget, NEW p \in Call, Returns(p)
    PROVE  SInv'
<1>1. RecOK(Idle)'
  BY Zenon, IdleCall DEF RecOK
<1> QED
  BY Zenon, <1>1, IdleCall, StoreStep DEF Returns

\* A call goes to another pc, having changed at most the store.
LEMMA GoesStep ==
    ASSUME SInv, StoreOnly, Budget, NEW p \in Call, NEW x \in Pc, Goes(p, x), call[p].from = 0,
           \A r \in CallRecord : r.pc = x /\ Alike(r, call[p]) => RecOK(r)'
    PROVE  SInv'
<1>1. PICK c \in CallRecord : c = call[p]
  BY Zenon DEF SInv, Types
<1>2. PICK r \in CallRecord : r = [c EXCEPT !.pc = x] /\ r.pc = x /\ Alike(r, c)
  BY Zenon, GoesRecord
<1>3. call' = [call EXCEPT ![p] = r]
  BY Zenon, <1>1, <1>2 DEF Goes
<1>4. RecOK(r)' /\ r.from = 0
  BY Zenon, <1>1, <1>2 DEF Alike
<1> QED
  BY Zenon, <1>3, <1>4, StoreStep
-----------------------------------------------------------------------------
(* Login.                                                                  *)

\* Only the tickets move.
LEMMA TicketMoves ==
    ASSUME SInv, UNCHANGED <<store, now, storeVars, issued, history>>, Budget,
           ticket' \in [Ticket -> Tickets], call' \in [Call -> CallRecord],
           \A t \in Ticket : ticket[t].exp # 0 => ticket'[t].exp = ticket[t].exp
    PROVE  Types' /\ Moves /\ (\A s \in Sid : SessOK(s)') /\ CutoffOK' /\ heirs' = heirs
<1>1. Types /\ UNCHANGED <<sess, index, cutoff, heirs, out, outTime, overtaken, revived>>
  BY Zenon DEF SInv, storeVars, history
<1>2. failures' \in 0 .. MaxFailures /\ calls' \in 0 .. MaxCalls
  BY Zenon, <1>1, BudgetTypes
<1>3. Types'
  BY Zenon, <1>1, <1>2 DEF Types, StoreTypeOK
<1>4. \A s \in Sid : SessMoves(s)
  BY Zenon, <1>1, SameSession
<1>5. Moves
  BY Zenon, <1>1, <1>4 DEF Moves
<1>6. (\A s \in Sid : SessOK(s)') /\ CutoffOK'
  BY Zenon, <1>1 DEF SInv, SessOK, Spent, CutoffOK
<1> QED
  BY Zenon, <1>1, <1>3, <1>5, <1>6

LEMMA AuthenticateKeeps ==
    ASSUME SInv, NEW t \in Ticket, Authenticate(t)
    PROVE  SInv'
<1>1. Types /\ ticket[t].exp = 0 /\ now \in Nat /\ now # 0
  BY Zenon DEF SInv, Types, StoreTypeOK, Authenticate
<1>2. PICK e : e = now + TicketTTL
  BY Zenon
<1>3. e \in Nat /\ TicketTTL < e
  BY <1>1, <1>2, ConstantFacts
<1>4. PICK r : r = [ticket[t] EXCEPT !.exp = e]
  BY Zenon
<1>5. r \in Tickets /\ r.exp = e /\ r.seen = ticket[t].seen /\ r.uses = ticket[t].uses
  BY <1>1, <1>3, <1>4, TicketFields DEF Tickets
<1>6. ticket' = [ticket EXCEPT ![t] = r]
  BY Zenon, <1>2, <1>4 DEF Authenticate
<1>7. ticket' \in [Ticket -> Tickets] /\ ticket'[t] = r /\ \A u \in Ticket \ {t} : ticket'[u] = ticket[u]
  BY Zenon, <1>1, <1>5, <1>6 DEF Types
<1>8. ASSUME NEW u \in Ticket PROVE TicketOK(u)' /\ (ticket[u].exp # 0 => ticket'[u].exp = ticket[u].exp)
  <2>1. TicketOK(u)
    BY Zenon DEF SInv
  <2>2. CASE u = t
    BY Zenon, <1>1, <1>3, <1>5, <1>7, <2>1, <2>2 DEF TicketOK
  <2>3. CASE u # t
    BY Zenon, <1>7, <2>1, <2>3 DEF TicketOK
  <2> QED
    BY Zenon, <2>2, <2>3
<1>9. /\ UNCHANGED <<store, now, storeVars, issued, history, call>> /\ Budget
      /\ call' \in [Call -> CallRecord]
  BY Zenon, <1>1 DEF Authenticate, Budget, Types
<1>10. Types' /\ Moves /\ (\A s \in Sid : SessOK(s)') /\ CutoffOK' /\ heirs' = heirs
  BY Zenon, <1>7, <1>8, <1>9, TicketMoves
<1> QED
  BY Zenon, <1>8, <1>9, <1>10, QuietStep

\* A call begins.
LEMMA NowBegins == SInv => now \in Nat /\ now <= now + CallTime
<1> SUFFICES ASSUME SInv PROVE now \in Nat /\ now <= now + CallTime
  OBVIOUS
<1>1. now \in Nat
  BY Zenon DEF SInv, Types, StoreTypeOK
<1> QED
  BY <1>1, ConstantFacts

LEMMA CalledBudget ==
    ASSUME NEW p \in Call, Called(p), Works \/ Fails
    PROVE  Budget
  BY Zenon DEF Called, Works, Fails, Budget

LEMMA SelectTenantKeeps ==
    ASSUME SInv, NEW p \in Call, NEW t \in Ticket, SelectTenant(p, t)
    PROVE  SInv'
<1>1. PICK r : r = [Idle EXCEPT !.pc = "consume", !.began = now, !.tk = t]
  BY Zenon
<1>2. "consume" \in Pc /\ now \in Nat /\ Idle \in CallRecord
  BY Zenon, NowBegins, IdleCall DEF Pc
<1>3. r \in CallRecord /\ r.pc = "consume" /\ r.began = now /\ r.tk = t
  BY <1>1, <1>2 DEF CallRecord
<1>4. r.from = 0 /\ r.dead = FALSE
  BY <1>1, <1>2, IdleCall DEF CallRecord
<1>5. RecOK(r)
  BY Zenon, <1>3, <1>4, NowBegins DEF SelectTenant, RecOK
<1>6. CallOnly /\ Budget /\ call' = [call EXCEPT ![p] = r]
  BY Zenon, <1>1 DEF SelectTenant, CallOnly, Budget, Called
<1> QED
  BY Zenon, <1>3, <1>4, <1>5, <1>6, OnlyCall

\* A ticket that was used is still remembered when a call comes to Consume.
LEMMA UsedIsSeen ==
    ASSUME SInv, NEW p \in Call, call[p].pc = "consume", now >= ticket[call[p].tk].seen
    PROVE  ticket[call[p].tk].uses = 0
<1>1. PICK c \in CallRecord : c = call[p]
  BY Zenon DEF SInv, Types
<1>2. c.tk \in Ticket /\ c.began <= ticket[c.tk].exp /\ now <= c.began + CallTime
  BY Zenon, <1>1 DEF SInv, RecOK
<1>3. TicketOK(c.tk)
  BY Zenon, <1>2 DEF SInv
<1>4. PICK e, n : e = ticket[c.tk].exp /\ n = c.began
  BY Zenon
<1>5. e \in Nat /\ n \in Nat /\ now \in Nat
  BY Zenon, <1>2, <1>4, CallFields, TicketFields, NowBegins DEF SInv
<1>6. ~(now >= e + Slack)
  BY <1>2, <1>4, <1>5, ConstantFacts, SlackAssumption
<1> QED
  BY Zenon, <1>1, <1>3, <1>4, <1>6 DEF TicketOK

LEMMA ConsumeTicketKeeps ==
    ASSUME SInv, NEW p \in Call, ConsumeTicket(p)
    PROVE  SInv'
<1>1. PICK c \in CallRecord : c = call[p]
  BY Zenon DEF SInv, Types
<1>2. PICK t \in Ticket : /\ t = c.tk /\ ticket[t].exp # 0 /\ c.pc = "consume" /\ c.from = 0 /\ ~c.dead /\ RecOK(c)
  BY Zenon, <1>1 DEF SInv, RecOK, ConsumeTicket, At
<1>3. UNCHANGED <<store, now, storeVars, issued, history>> /\ Budget
  BY Zenon DEF ConsumeTicket, Works, Fails, Budget
<1>4. PICK z : z = ticket[t].exp + Slack
  BY Zenon
<1>5. PICK m : m = [ticket[t] EXCEPT !.seen = z]
  BY Zenon
<1>6. ticket[t] \in Tickets /\ ticket[t].exp \in Nat /\ ticket[t].uses \in Nat
  BY Zenon, TicketFields DEF SInv
<1>7. z \in Nat
  BY <1>4, <1>6, ConstantFacts
<1>8. m \in Tickets /\ m.exp = ticket[t].exp /\ m.seen = z /\ m.uses = ticket[t].uses
  BY <1>5, <1>6, <1>7 DEF Tickets
<1>9. PICK k : k = [m EXCEPT !.uses = @ + 1]
  BY Zenon
<1>10. k \in Tickets /\ k.exp = ticket[t].exp /\ k.seen = z /\ k.uses = ticket[t].uses + 1
  BY <1>6, <1>8, <1>9 DEF Tickets
<1>11. ASSUME NEW w \in Tickets, ticket' = [ticket EXCEPT ![t] = w], w.exp = ticket[t].exp, w.seen = z, w.uses \in {0, 1},
              NEW r \in CallRecord, call' = [call EXCEPT ![p] = r], RecOK(r)', r.from = 0
       PROVE  SInv'
  <2>1. ticket \in [Ticket -> Tickets] /\ call \in [Call -> CallRecord]
    BY Zenon DEF SInv, Types
  <2>2. ticket' \in [Ticket -> Tickets] /\ ticket'[t] = w /\ (\A u \in Ticket \ {t} : ticket'[u] = ticket[u])
        /\ call' \in [Call -> CallRecord]
    BY Zenon, <1>11, <2>1
  <2>3. ASSUME NEW u \in Ticket PROVE TicketOK(u)' /\ (ticket[u].exp # 0 => ticket'[u].exp = ticket[u].exp)
    <3>1. TicketOK(u)
      BY Zenon DEF SInv
    <3>2. CASE u = t
      BY Zenon, <1>2, <1>4, <1>11, <2>2, <3>1, <3>2 DEF TicketOK
    <3>3. CASE u # t
      BY Zenon, <2>2, <3>1, <3>3 DEF TicketOK
    <3> QED
      BY Zenon, <3>2, <3>3
  <2>4. Types' /\ Moves /\ (\A s \in Sid : SessOK(s)') /\ CutoffOK' /\ heirs' = heirs
    BY Zenon, <1>3, <2>2, <2>3, TicketMoves
  <2> QED
    BY Zenon, <1>11, <2>3, <2>4, CallStep
<1>12. PICK consumed : consumed = [ticket EXCEPT ![t].seen = z]
  BY Zenon
<1>13. consumed = [ticket EXCEPT ![t] = m] /\ [consumed EXCEPT ![t].uses = @ + 1] = [ticket EXCEPT ![t] = k]
  <2>1. ticket \in [Ticket -> Tickets] /\ consumed = [ticket EXCEPT ![t] = m]
    BY Zenon, <1>5, <1>12 DEF SInv, Types
  <2>2. consumed[t] = m /\ consumed \in [Ticket -> Tickets]
    BY Zenon, <1>8, <2>1
  <2>3. [consumed EXCEPT ![t].uses = @ + 1] = [consumed EXCEPT ![t] = k]
    BY Zenon, <1>9, <2>2
  <2>4. [consumed EXCEPT ![t] = k] = [ticket EXCEPT ![t] = k]
    BY <2>1
  <2> QED
    BY Zenon, <2>1, <2>3, <2>4
<1>14. \/ /\ now >= ticket[t].seen /\ Goes(p, "stamp") /\ ticket' = [consumed EXCEPT ![t].uses = @ + 1]
       \/ Returns(p) /\ ticket' = consumed
       \/ Returns(p) /\ UNCHANGED ticket
  BY Zenon, <1>1, <1>2, <1>4, <1>12 DEF ConsumeTicket, SeenUntil
<1>15. CASE Returns(p) /\ UNCHANGED ticket
  <2>1. CallOnly
    BY Zenon, <1>3, <1>15 DEF CallOnly
  <2> QED
    BY Zenon, <1>3, <1>15, <2>1, CallOnlyStore, ReturnStep DEF SInv
<1>16. CASE Returns(p) /\ ticket' = consumed
  <2>1. RecOK(Idle)'
    BY Zenon, IdleCall DEF RecOK
  <2>2. m.uses \in {0, 1}
    BY Zenon, <1>8 DEF SInv, TicketOK
  <2> QED
    BY Zenon, <1>8, <1>11, <1>13, <1>16, <2>1, <2>2, IdleCall DEF Returns
<1>17. CASE now >= ticket[t].seen /\ Goes(p, "stamp") /\ ticket' = [consumed EXCEPT ![t].uses = @ + 1]
  <2>1. ticket[t].uses = 0
    BY Zenon, <1>1, <1>2, <1>17, UsedIsSeen
  <2>2. k.uses = 1
    BY <1>10, <2>1
  <2>3. "stamp" \in Pc
    BY Zenon DEF Pc
  <2>4. PICK r \in CallRecord : r = [c EXCEPT !.pc = "stamp"] /\ r.pc = "stamp" /\ Alike(r, c)
    BY Zenon, <2>3, GoesRecord
  <2>5. call' = [call EXCEPT ![p] = r]
    BY Zenon, <1>1, <1>17, <2>4 DEF Goes
  <2>6. ticket' = [ticket EXCEPT ![t] = k] /\ ticket'[t].exp # 0 /\ now' = now
    BY Zenon, <1>2, <1>3, <1>10, <1>13, <1>17 DEF SInv, Types
  <2>7. r.from = 0 /\ ~r.dead /\ r.tk = t /\ now <= r.began + CallTime
    BY Zenon, <1>2, <2>4 DEF Alike, RecOK
  <2>8. RecOK(r)'
    BY Zenon, <2>4, <2>6, <2>7 DEF RecOK
  <2> QED
    BY Zenon, <1>10, <1>11, <2>2, <2>5, <2>6, <2>7, <2>8
<1> QED
  BY Zenon, <1>14, <1>15, <1>16, <1>17

LEMMA ExpiryType ==
    ASSUME NEW n \in Nat, NEW a \in Nat, n # 0, a # 0
    PROVE  SessionExpiry(n, a) \in Nat /\ SessionExpiry(n, a) # 0
  BY ConstantFacts DEF SessionExpiry

LEMMA StampKeeps ==
    ASSUME SInv, NEW p \in Call, Stamp(p)
    PROVE  SInv'
<1>1. PICK c \in CallRecord : c = call[p]
  BY Zenon DEF SInv, Types
<1>2. RecOK(c) /\ c.pc = "stamp" /\ c.from \in Sid \cup {0} /\ now \in Nat /\ now # 0
  BY Zenon, <1>1, CallFields DEF SInv, Types, StoreTypeOK, Stamp, At
<1>3. CallOnly /\ Budget
  BY Zenon DEF Stamp, CallOnly, Budget
<1>4. PICK auth \in AuthTimes(p) :
         \/ Returns(p)
         \/ call' = [call EXCEPT ![p].pc = "save", ![p].tk = 0, ![p].time = auth, ![p].exp = SessionExpiry(now, auth)]
  BY Zenon DEF Stamp
<1>5. CASE Returns(p)
  BY Zenon, <1>3, <1>5, CallOnlyStore, ReturnStep DEF SInv
<1>6. CASE call' = [call EXCEPT ![p].pc = "save", ![p].tk = 0, ![p].time = auth, ![p].exp = SessionExpiry(now, auth)]
  <2>1. auth \in Nat /\ auth # 0
    <3>1. CASE c.from # 0
      <4>1. auth = sess[c.from].auth /\ c.from \in Sid
        BY Zenon, <1>1, <1>2, <1>4, <3>1 DEF AuthTimes
      <4> QED
        BY Zenon, <1>2, <3>1, <4>1, SessFields DEF RecOK, Spent, SInv, SessOK
    <3>2. CASE c.from = 0
      <4>1. c.tk \in Ticket /\ ticket[c.tk].exp # 0 /\ TicketOK(c.tk) /\ ticket[c.tk].exp \in Nat
        BY Zenon, <1>2, <3>2, TicketFields DEF RecOK, SInv
      <4>2. PICK e : e = ticket[c.tk].exp
        BY Zenon
      <4>3. e \in Nat /\ TicketTTL < e
        BY Zenon, <4>1, <4>2 DEF TicketOK
      <4>4. auth = now \/ auth = e - TicketTTL
        BY Zenon, <1>1, <1>4, <3>2, <4>2 DEF AuthTimes
      <4> QED
        BY <1>2, <4>3, <4>4, ConstantFacts
    <3> QED
      BY Zenon, <3>1, <3>2
  <2>2. PICK x : x = SessionExpiry(now, auth)
    BY Zenon
  <2>3. x \in Nat /\ x # 0
    BY Zenon, <1>2, <2>1, <2>2, ExpiryType
  <2>4. PICK r : r = [c EXCEPT !.pc = "save", !.tk = 0, !.time = auth, !.exp = x]
    BY Zenon
  <2>5. "save" \in Pc
    BY Zenon DEF Pc
  <2>6. r \in CallRecord
    BY <2>1, <2>3, <2>4, <2>5 DEF CallRecord
  <2>7. r.pc = "save" /\ r.time = auth /\ r.exp = x /\ r.from = c.from /\ r.dead = c.dead /\ r.began = c.began
    BY <2>4 DEF CallRecord
  <2>8. call' = [call EXCEPT ![p] = r]
    BY Zenon, <1>1, <1>6, <2>2, <2>4
  <2>9. RecOK(r)
    BY Zenon, <1>2, <2>1, <2>3, <2>7 DEF RecOK
  <2> QED
    BY Zenon, <1>1, <1>3, <2>6, <2>7, <2>8, <2>9, OnlyCall
<1> QED
  BY Zenon, <1>4, <1>5, <1>6

\* Save under an id that was never used.
LEMMA SaveMoves ==
    ASSUME SInv, NEW s \in Fresh, NEW a \in Nat, NEW e \in Nat, NEW done, Save(s, a, e, done)
    PROVE  /\ s \in Sid /\ sess[s].exp = 0
           /\ sess' \in [Sid -> SessRecord] /\ index' \in IndexRecord /\ cutoff' = cutoff
           /\ sess'[s].auth = a /\ sess'[s].exp = e /\ sess'[s].hold = e
           /\ sess'[s].st = IF "session" \in done THEN "active" ELSE "none"
           /\ \A u \in Sid \ {s} : sess'[u] = sess[u]
<1>1. s \in Sid /\ sess[s] = NoSession
  BY Zenon DEF Fresh
<1>2. sess[s].exp = 0
  BY <1>1 DEF NoSession
<1>3. PICK x \in {"active", "none"} : x = IF "session" \in done THEN "active" ELSE "none"
  BY Zenon
<1>4. PICK r : r = [st |-> x, auth |-> a, exp |-> e, hold |-> e]
  BY Zenon
<1>5. r \in SessRecord /\ r.st = x /\ r.auth = a /\ r.exp = e /\ r.hold = e
  BY <1>3, <1>4 DEF SessRecord
<1>6. sess' = [sess EXCEPT ![s] = r] /\ sess \in [Sid -> SessRecord] /\ index \in IndexRecord /\ cutoff' = cutoff
  BY Zenon, <1>3, <1>4 DEF Save, SInv, Types, StoreTypeOK, SessRecord, IndexRecord
<1>7. index' \in IndexRecord
  <2>1. index.ids \in SUBSET Sid
    BY <1>6 DEF IndexRecord
  <2>2. Indexed \cup {s} \in SUBSET Sid
    BY Zenon, <1>1, <2>1 DEF Indexed
  <2>3. e + Slack \in Nat
    BY ConstantFacts
  <2>4. [ids |-> Indexed \cup {s}, until |-> e + Slack] \in IndexRecord
    BY <2>2, <2>3 DEF IndexRecord
  <2> QED
    BY Zenon, <1>6, <2>4 DEF Save
<1> QED
  BY Zenon, <1>1, <1>2, <1>3, <1>5, <1>6, <1>7

LEMMA IssueKeeps ==
    ASSUME SInv, NEW p \in Call, Issue(p)
    PROVE  SInv'
<1>1. PICK c \in CallRecord : c = call[p]
  BY Zenon DEF SInv, Types
<1>2. /\ RecOK(c) /\ c.pc = "save" /\ c.from \in Sid \cup {0} /\ c.time \in Nat /\ c.exp \in Nat
      /\ c.time # 0 /\ c.exp # 0 /\ c.dead \in BOOLEAN
  BY Zenon, <1>1, CallFields DEF SInv, Issue, At, RecOK
<1>3. /\ UNCHANGED <<store, now, ticket, out, outTime, overtaken>> /\ Budget
      /\ call' = [call EXCEPT ![p] = Idle]
  BY Zenon DEF Issue, Works, Fails, Budget, Returns
<1>4. RecOK(Idle)' /\ Idle \in CallRecord /\ Idle.from = 0
  BY Zenon, IdleCall DEF RecOK
<1>5. PICK s \in Fresh :
        \/ /\ Save(s, c.time, c.exp, {"session", "index"}) /\ issued' = issued \cup {s}
           /\ heirs' = IF c.from = 0 THEN heirs ELSE [heirs EXCEPT ![c.from] = @ + 1]
           /\ revived' = (revived \/ c.dead)
        \/ UNCHANGED <<storeVars, issued, heirs, revived>>
        \/ /\ \E done \in SUBSET {"session", "index"} : Save(s, c.time, c.exp, done)
           /\ UNCHANGED <<issued, heirs, revived>>
  BY Zenon, <1>1 DEF Issue
<1>6. CASE UNCHANGED <<storeVars, issued, heirs, revived>>
  <2>1. CallOnly
    BY Zenon, <1>3, <1>6 DEF CallOnly, history
  <2> QED
    BY Zenon, <1>3, <2>1, CallOnlyStore, ReturnStep DEF SInv, Returns
<1>7. ASSUME NEW done, Save(s, c.time, c.exp, done), issued \subseteq issued', issued' \subseteq issued \cup {s},
             s \in issued' => "session" \in done,
             heirs' \in [Sid -> Nat], \A u \in Sid : u # c.from => heirs'[u] = heirs[u],
             c.from # 0 => heirs'[c.from] \in {0, 1},
             revived' \in BOOLEAN, revived' => overtaken
      PROVE  SInv'
  <2>1. /\ s \in Sid /\ sess[s].exp = 0
        /\ sess' \in [Sid -> SessRecord] /\ index' \in IndexRecord /\ cutoff' = cutoff
        /\ sess'[s].auth = c.time /\ sess'[s].exp = c.exp /\ sess'[s].hold = c.exp
        /\ sess'[s].st = IF "session" \in done THEN "active" ELSE "none"
        /\ \A u \in Sid \ {s} : sess'[u] = sess[u]
    BY Zenon, <1>2, <1>7, SaveMoves
  <2>2. Types'
    <3>1. failures' \in 0 .. MaxFailures /\ calls' \in 0 .. MaxCalls
      BY Zenon, <1>3, BudgetTypes DEF SInv
    <3>2. call' \in [Call -> CallRecord] /\ issued' \in SUBSET Sid
      BY Zenon, <1>3, <1>4, <1>7, <2>1 DEF SInv, Types
    <3>3. StoreTypeOK'
      BY Zenon, <1>3, <2>1 DEF SInv, Types, StoreTypeOK, SessRecord, IndexRecord
    <3> QED
      BY Zenon, <1>3, <1>7, <3>1, <3>2, <3>3 DEF SInv, Types
  <2>3. Moves
    <3>1. \A u \in Sid : sess[u].exp # 0 => SessMoves(u)
      BY Zenon, <2>1, SameSession DEF SInv
    <3> QED
      BY Zenon, <1>3, <1>7, <2>1, <3>1 DEF Moves
  <2>4. ASSUME NEW u \in Sid PROVE SessOK(u)'
    <3>0. u # 0 /\ SessOK(u) /\ (c.from # 0 => Spent(c.from))
      BY Zenon, <1>2, ConstantFacts DEF SInv, RecOK
    <3>1. SessOK(u) /\ heirs'[u] \in {0, 1} /\ (u = c.from => Spent(u))
      BY Zenon, <1>7, <3>0 DEF SessOK
    <3>2. CASE u = s
      <4>1. s \notin issued /\ s \notin out /\ heirs[s] = 0 /\ s # c.from
        BY Zenon, <1>2, <2>1, <3>1, <3>2 DEF SessOK, Spent
      <4>2. heirs'[s] = 0 /\ s \notin out' /\ c.exp <= c.exp
        <5>1. c.exp <= c.exp
          BY <1>2
        <5> QED
          BY Zenon, <1>3, <1>7, <2>1, <4>1, <5>1
      <4>3. s \in issued' => sess'[s].st = "active"
        BY Zenon, <1>7, <2>1
      <4>4. sess'[s].exp <= sess'[s].hold /\ sess'[s].exp # 0 /\ sess'[s].auth # 0
        BY Zenon, <1>2, <2>1, <4>2
      <4> QED
        BY Zenon, <3>1, <3>2, <4>2, <4>3, <4>4 DEF SessOK
    <3>3. CASE u # s
      <4>1. sess'[u] = sess[u] /\ now' = now /\ (u \in issued' => u \in issued) /\ out' = out
        BY Zenon, <1>3, <1>7, <2>1, <3>3
      <4>2. heirs'[u] # 0 => Spent(u)
        BY Zenon, <1>2, <1>7, <3>1 DEF SessOK
      <4> QED
        BY Zenon, <3>1, <4>1, <4>2 DEF SessOK, Spent
    <3> QED
      BY Zenon, <3>2, <3>3
  <2>5. (\A t \in Ticket : TicketOK(t)') /\ CutoffOK'
    BY Zenon, <1>3, <1>7, <2>1 DEF SInv, TicketOK, CutoffOK
  <2> QED
    BY Zenon, <1>1, <1>3, <1>4, <1>7, <2>2, <2>3, <2>4, <2>5, CallStep
<1>8. ASSUME NEW done, Save(s, c.time, c.exp, done), UNCHANGED <<issued, heirs, revived>>
      PROVE  SInv'
  <2>1. heirs \in [Sid -> Nat] /\ (c.from # 0 => heirs[c.from] \in {0, 1}) /\ revived \in BOOLEAN /\ (revived => overtaken)
    BY Zenon, <1>2 DEF SInv, Types, SessOK, CutoffOK
  <2>2. s \notin issued
    <3>1. s \in Sid /\ sess[s].exp = 0
      BY Zenon, <1>2, <1>8, SaveMoves
    <3> QED
      BY Zenon, <3>1 DEF SInv, SessOK
  <2> QED
    BY Zenon, <1>7, <1>8, <2>1, <2>2
<1>9. CASE /\ Save(s, c.time, c.exp, {"session", "index"}) /\ issued' = issued \cup {s}
           /\ heirs' = IF c.from = 0 THEN heirs ELSE [heirs EXCEPT ![c.from] = @ + 1]
           /\ revived' = (revived \/ c.dead)
  <2>1. heirs \in [Sid -> Nat] /\ revived \in BOOLEAN /\ (revived => overtaken)
    BY Zenon DEF SInv, Types, CutoffOK
  <2>2. revived' \in BOOLEAN /\ (revived' => overtaken)
    BY Zenon, <1>2, <1>9, <2>1 DEF RecOK
  <2>3. heirs' \in [Sid -> Nat] /\ (\A u \in Sid : u # c.from => heirs'[u] = heirs[u])
        /\ (c.from # 0 => heirs'[c.from] \in {0, 1})
    <3>1. CASE c.from = 0
      BY Zenon, <1>9, <2>1, <3>1
    <3>2. CASE c.from # 0
      <4>1. c.from \in Sid /\ heirs[c.from] = 0
        BY Zenon, <1>2, <3>2 DEF RecOK
      <4>2. PICK n : n = heirs[c.from] + 1
        BY Zenon
      <4>3. n = 1 /\ n \in Nat
        BY <4>1, <4>2
      <4>4. heirs' = [heirs EXCEPT ![c.from] = n]
        BY Zenon, <1>9, <3>2, <4>2
      <4> QED
        BY Zenon, <2>1, <4>1, <4>3, <4>4
    <3> QED
      BY Zenon, <3>1, <3>2
  <2>6. PICK done : done = {"session", "index"}
    BY Zenon
  <2>4. Save(s, c.time, c.exp, done) /\ "session" \in done
    BY Zenon, <1>9, <2>6
  <2>5. issued \subseteq issued' /\ issued' \subseteq issued \cup {s}
    BY Zenon, <1>9
  <2> QED
    BY Zenon, <1>7, <2>2, <2>3, <2>4, <2>5
<1> QED
  BY Zenon, <1>5, <1>6, <1>8, <1>9
-----------------------------------------------------------------------------
(* Refresh and validation.                                                 *)

LEMMA BeginsKeeps ==
    ASSUME SInv, NEW p \in Call, NEW x \in {"get", "check"}, NEW s \in issued, Begins(p, x, s), CallOnly, Works
    PROVE  SInv'
<1>1. PICK d \in BOOLEAN : d <=> s \in Sid /\ LoggedOut(s)
  BY Zenon
<1>2. x \in Pc /\ now \in Nat /\ s \in Sid
  BY Zenon, NowBegins DEF Pc, SInv, Types
<1>3. PICK r \in CallRecord :
        /\ r = Begun(x, now, s, d)
        /\ r.pc = x /\ r.began = now /\ r.sid = s /\ r.dead = d /\ r.from = 0 /\ r.time = 0
  <2>1. PICK r \in CallRecord : IsBegun(r, x, now, s, d)
    BY Zenon, <1>2, BegunCall
  <2> QED
    BY Zenon, <2>1 DEF IsBegun
<1>4. RecOK(r)
  BY Zenon, <1>1, <1>3, NowBegins DEF RecOK
<1>5. (s \in Sid /\ LoggedOut(s)) = d
  BY Zenon, <1>1 DEF LoggedOut
<1>6. call' = [call EXCEPT ![p] = r] /\ Budget
  BY Zenon, <1>3, <1>5 DEF Begins, Begun, Called, Budget, Works
<1> QED
  BY Zenon, <1>3, <1>4, <1>6, OnlyCall

LEMMA GetStore ==
    ASSUME SInv, NEW s \in Sid, GetEffect(s), UNCHANGED <<store, now, ticket, issued, history>>
    PROVE  StoreOnly
<1>1. sess' \in [Sid -> SessRecord] /\ (\A u \in Sid : SessMoves(u)) /\ index' \in IndexRecord /\ cutoff' = cutoff
  BY Zenon, GetMoves DEF SInv, Types, StoreTypeOK, GetEffect, IndexRecord
<1>2. out \in SUBSET Sid
  BY Zenon DEF SInv, Types
<1> QED
  BY Zenon, <1>1, <1>2 DEF StoreOnly, history

LEMMA RevokeStore ==
    ASSUME SInv, NEW ids, Revoke(ids), UNCHANGED <<store, now, ticket, issued, history>>
    PROVE  StoreOnly
<1>1. sess' \in [Sid -> SessRecord] /\ (\A u \in Sid : SessMoves(u)) /\ index' \in IndexRecord /\ cutoff' = cutoff
  BY Zenon, RevokeMoves DEF SInv, Types, StoreTypeOK, Revoke, IndexRecord
<1>2. out \in SUBSET Sid
  BY Zenon DEF SInv, Types
<1> QED
  BY Zenon, <1>1, <1>2 DEF StoreOnly, history

LEMMA SameStore ==
    ASSUME SInv, UNCHANGED storeVars, UNCHANGED <<store, now, ticket, issued, history>>
    PROVE  StoreOnly
  BY Zenon, CallOnlyStore DEF CallOnly, SInv

LEMMA RefreshableKeeps ==
    ASSUME SInv, NEW p \in Call, Refreshable(p)
    PROVE  SInv'
<1>1. PICK c \in CallRecord : c = call[p]
  BY Zenon DEF SInv, Types
<1>2. RecOK(c) /\ c.pc = "get" /\ c.from = 0 /\ c.time = 0 /\ now \in Nat
  BY Zenon, <1>1, NowBegins DEF SInv, Refreshable, At, RecOK
<1>3. c.sid \in issued /\ c.sid \in Sid
  BY Zenon, <1>2 DEF SInv, Types, RecOK
<1>4. UNCHANGED <<store, now, ticket, issued, history>> /\ Budget
  BY Zenon DEF Refreshable, Works, Fails, Budget
<1>5. \/ GetEffect(c.sid) /\ Goes(p, "setCutoff")
      \/ GetEffect(c.sid) /\ Found(c.sid) /\ sess[c.sid].st = "active" /\ Goes(p, "refreshCutoff")
      \/ GetEffect(c.sid) /\ Returns(p)
      \/ UNCHANGED storeVars /\ Returns(p)
  BY Zenon, <1>1 DEF Refreshable
<1>6. CASE GetEffect(c.sid) /\ Goes(p, "setCutoff")
  <2>1. StoreOnly /\ "setCutoff" \in Pc
    BY Zenon, <1>3, <1>4, <1>6, GetStore DEF Pc
  <2>2. 0 <= now
    BY <1>2
  <2>3. ASSUME NEW r \in CallRecord, r.pc = "setCutoff", Alike(r, c) PROVE RecOK(r)'
    <3>1. now' = now /\ r.time = 0 /\ r.from = 0 /\ now <= r.began + CallTime
      BY Zenon, <1>2, <1>4, <2>3 DEF Alike, RecOK
    <3> QED
      BY Zenon, <2>2, <2>3, <3>1 DEF RecOK
  <2> QED
    BY Zenon, <1>1, <1>2, <1>4, <1>6, <2>1, <2>3, GoesStep
<1>7. CASE GetEffect(c.sid) /\ Found(c.sid) /\ sess[c.sid].st = "active" /\ Goes(p, "refreshCutoff")
  <2>1. StoreOnly /\ "refreshCutoff" \in Pc /\ sess' = sess
    BY Zenon, <1>3, <1>4, <1>7, GetStore, GetMoves DEF Pc, SInv
  <2>2. c.dead => sess[c.sid].auth <= outTime
    BY Zenon, <1>2, <1>3, <1>7 DEF RecOK, LoggedOut, SInv, SessOK, Spent
  <2>3. ASSUME NEW r \in CallRecord, r.pc = "refreshCutoff", Alike(r, c) PROVE RecOK(r)'
    <3>1. /\ now' = now /\ issued' = issued /\ outTime' = outTime /\ r.from = 0 /\ now <= r.began + CallTime
          /\ r.sid = c.sid /\ r.dead = c.dead
      BY Zenon, <1>2, <1>4, <2>3 DEF Alike, RecOK, history
    <3> QED
      BY Zenon, <1>3, <2>1, <2>2, <2>3, <3>1 DEF RecOK
  <2> QED
    BY Zenon, <1>1, <1>2, <1>4, <1>7, <2>1, <2>3, GoesStep
<1>8. CASE (GetEffect(c.sid) \/ UNCHANGED storeVars) /\ Returns(p)
  <2>1. StoreOnly
    BY Zenon, <1>3, <1>4, <1>8, GetStore, SameStore
  <2> QED
    BY Zenon, <1>4, <1>8, <2>1, ReturnStep
<1> QED
  BY Zenon, <1>5, <1>6, <1>7, <1>8

\* A call that began after a logout does not pass the cut-off.
LEMMA CutOffStops ==
    ASSUME SInv, NEW c \in CallRecord, RecOK(c), c.pc \in {"refreshCutoff", "checkCutoff"}, c.dead, ~CutOff(c.sid)
    PROVE  overtaken
<1>1. c.sid \in Sid /\ c.sid \in issued /\ sess[c.sid].auth <= outTime
  BY Zenon DEF RecOK, SInv, Types
<1>2. PICK a : a = sess[c.sid].auth
  BY Zenon
<1>3. a \in Nat /\ a # 0 /\ outTime \in Nat /\ cutoff \in Nat
  BY Zenon, <1>1, <1>2, SessFields DEF SInv, SessOK, Types, StoreTypeOK
<1>4. outTime <= cutoff => cutoff # 0 /\ a <= cutoff
  BY <1>1, <1>2, <1>3
<1> QED
  BY Zenon, <1>2, <1>4 DEF SInv, CutoffOK, CutOff

LEMMA RefreshCutoffKeeps ==
    ASSUME SInv, NEW p \in Call, RefreshCutoff(p)
    PROVE  SInv'
<1>1. PICK c \in CallRecord : c = call[p]
  BY Zenon DEF SInv, Types
<1>2. RecOK(c) /\ c.pc = "refreshCutoff" /\ c.from = 0 /\ c.sid \in issued
  BY Zenon, <1>1 DEF SInv, RefreshCutoff, At, RecOK
<1>3. StoreOnly /\ Budget /\ UNCHANGED <<now, issued, overtaken>>
  BY Zenon, SameStore DEF RefreshCutoff, Works, Fails, Budget, history
<1>4. CASE Returns(p)
  BY Zenon, <1>3, <1>4, ReturnStep
<1>5. CASE ~CutOff(c.sid) /\ Goes(p, "rotate")
  <2>1. c.dead => overtaken
    BY Zenon, <1>2, <1>5, CutOffStops
  <2>2. "rotate" \in Pc
    BY Zenon DEF Pc
  <2>3. ASSUME NEW r \in CallRecord, r.pc = "rotate", Alike(r, c) PROVE RecOK(r)'
    <3>1. r.from = 0 /\ now <= r.began + CallTime /\ r.sid = c.sid /\ r.dead = c.dead
      BY Zenon, <1>2, <2>3 DEF Alike, RecOK
    <3> QED
      BY Zenon, <1>2, <1>3, <2>1, <2>3, <3>1 DEF RecOK
  <2> QED
    BY Zenon, <1>1, <1>2, <1>3, <1>5, <2>2, <2>3, GoesStep
<1> QED
  BY Zenon, <1>1, <1>4, <1>5 DEF RefreshCutoff

LEMMA RotateKeeps ==
    ASSUME SInv, NEW p \in Call, Rotate(p)
    PROVE  SInv'
<1>1. PICK c \in CallRecord : c = call[p]
  BY Zenon DEF SInv, Types
<1>2. RecOK(c) /\ c.pc = "rotate" /\ c.from = 0
  BY Zenon, <1>1 DEF SInv, Rotate, At, RecOK
<1>3. c.sid \in issued /\ c.sid \in Sid
  BY Zenon, <1>2 DEF SInv, Types, RecOK
<1>4. UNCHANGED <<store, now, ticket, issued, history>> /\ Budget
  BY Zenon DEF Rotate, Works, Fails, Budget
<1>5. \/ /\ Stored(c.sid) /\ sess[c.sid].st = "active" /\ Revoke({c.sid})
         /\ call' = [call EXCEPT ![p].pc = "stamp", ![p].sid = 0, ![p].from = c.sid]
      \/ Returns(p) /\ (Revoke({c.sid}) \/ UNCHANGED storeVars)
  BY Zenon, <1>1 DEF Rotate
<1>6. CASE Returns(p) /\ (Revoke({c.sid}) \/ UNCHANGED storeVars)
  <2>1. StoreOnly
    BY Zenon, <1>4, <1>6, RevokeStore, SameStore
  <2> QED
    BY Zenon, <1>4, <1>6, <2>1, ReturnStep
<1>7. CASE /\ Stored(c.sid) /\ sess[c.sid].st = "active" /\ Revoke({c.sid})
           /\ call' = [call EXCEPT ![p].pc = "stamp", ![p].sid = 0, ![p].from = c.sid]
  <2>1. StoreOnly
    BY Zenon, <1>4, <1>7, RevokeStore
  <2>2. PICK r : r = [c EXCEPT !.pc = "stamp", !.sid = 0, !.from = c.sid]
    BY Zenon
  <2>3. "stamp" \in Pc
    BY Zenon DEF Pc
  <2>4. r \in CallRecord
    BY <1>3, <2>2, <2>3 DEF CallRecord
  <2>5. r.pc = "stamp" /\ r.from = c.sid /\ r.dead = c.dead /\ r.began = c.began
    BY <2>2 DEF CallRecord
  <2>6. call' = [call EXCEPT ![p] = r]
    BY Zenon, <1>1, <1>7, <2>2
  <2>7. heirs[c.sid] = 0 /\ sess[c.sid].exp # 0
    BY Zenon, <1>3, <1>7 DEF SInv, SessOK, Spent
  <2>8. sess'[c.sid].st = "revoked" /\ sess'[c.sid].exp = sess[c.sid].exp
    BY Zenon, <1>3, <1>7, RevokeMoves DEF SInv, SessMoves
  <2>9. Spent(c.sid)' /\ heirs'[c.sid] = 0
    BY Zenon, <1>4, <2>7, <2>8 DEF Spent, history
  <2>10. c.sid # 0
    BY Zenon, <1>3, ConstantFacts
  <2>11. (c.dead => overtaken') /\ now' <= c.began + CallTime
    BY Zenon, <1>2, <1>4 DEF RecOK, history
  <2>12. RecOK(r)'
    BY Zenon, <2>5, <2>9, <2>10, <2>11 DEF RecOK
  <2> QED
    BY Zenon, <1>4, <1>7, <2>1, <2>4, <2>5, <2>6, <2>12, StoreStep
<1> QED
  BY Zenon, <1>5, <1>6, <1>7

LEMMA CheckSessionKeeps ==
    ASSUME SInv, NEW p \in Call, CheckSession(p)
    PROVE  SInv'
<1>1. PICK c \in CallRecord : c = call[p]
  BY Zenon DEF SInv, Types
<1>2. RecOK(c) /\ c.pc = "check" /\ c.from = 0
  BY Zenon, <1>1 DEF SInv, CheckSession, At, RecOK
<1>3. c.sid \in issued /\ c.sid \in Sid
  BY Zenon, <1>2 DEF SInv, Types, RecOK
<1>4. UNCHANGED <<store, now, ticket, issued, history>> /\ Budget
  BY Zenon DEF CheckSession, Works, Fails, Budget
<1>5. \/ GetEffect(c.sid) /\ Found(c.sid) /\ sess[c.sid].st = "active" /\ Goes(p, "checkCutoff")
      \/ (GetEffect(c.sid) \/ UNCHANGED storeVars) /\ Returns(p)
  BY Zenon, <1>1 DEF CheckSession
<1>6. CASE GetEffect(c.sid) /\ Found(c.sid) /\ sess[c.sid].st = "active" /\ Goes(p, "checkCutoff")
  <2>1. StoreOnly /\ "checkCutoff" \in Pc /\ sess' = sess
    BY Zenon, <1>3, <1>4, <1>6, GetStore, GetMoves DEF Pc, SInv
  <2>2. c.dead => sess[c.sid].auth <= outTime
    BY Zenon, <1>2, <1>3, <1>6 DEF RecOK, LoggedOut, SInv, SessOK, Spent
  <2>3. ASSUME NEW r \in CallRecord, r.pc = "checkCutoff", Alike(r, c) PROVE RecOK(r)'
    <3>1. /\ now' = now /\ issued' = issued /\ outTime' = outTime /\ r.from = 0 /\ now <= r.began + CallTime
          /\ r.sid = c.sid /\ r.dead = c.dead
      BY Zenon, <1>2, <1>4, <2>3 DEF Alike, RecOK, history
    <3> QED
      BY Zenon, <1>3, <2>1, <2>2, <2>3, <3>1 DEF RecOK
  <2> QED
    BY Zenon, <1>1, <1>2, <1>4, <1>6, <2>1, <2>3, GoesStep
<1>7. CASE (GetEffect(c.sid) \/ UNCHANGED storeVars) /\ Returns(p)
  <2>1. StoreOnly
    BY Zenon, <1>3, <1>4, <1>7, GetStore, SameStore
  <2> QED
    BY Zenon, <1>4, <1>7, <2>1, ReturnStep
<1> QED
  BY Zenon, <1>5, <1>6, <1>7

\* A step of a call that moves the cut-off, or what was recorded of it.
LEMMA CutoffStep ==
    ASSUME SInv, UNCHANGED <<store, now, ticket, issued, heirs, out>>, Budget,
           sess' \in [Sid -> SessRecord], index' \in IndexRecord, \A s \in Sid : SessMoves(s),
           cutoff' \in Nat, outTime' \in Nat, overtaken' \in BOOLEAN, revived' \in BOOLEAN, CutoffOK',
           outTime <= outTime', overtaken => overtaken', overtaken' \/ cutoff <= cutoff',
           NEW p \in Call, NEW r \in CallRecord, call' = [call EXCEPT ![p] = r], RecOK(r)', r.from = 0
    PROVE  SInv'
<1>1. Types /\ outTime \in Nat /\ cutoff \in Nat
  BY Zenon DEF SInv, Types, StoreTypeOK
<1>2. \A n \in Nat : n <= outTime => n <= outTime'
  BY <1>1
<1>3. overtaken' \/ \A n \in Nat : n <= cutoff => n <= cutoff'
  BY <1>1
<1>4. Moves
  BY Zenon, <1>2, <1>3 DEF Moves
<1>5. Types'
  <2>1. failures' \in 0 .. MaxFailures /\ calls' \in 0 .. MaxCalls
    BY Zenon, <1>1, BudgetTypes
  <2>2. StoreTypeOK' /\ now' # 0
    BY Zenon, <1>1 DEF Types, StoreTypeOK, SessRecord, IndexRecord
  <2>3. call' \in [Call -> CallRecord]
    BY Zenon, <1>1 DEF Types
  <2> QED
    BY Zenon, <1>1, <2>1, <2>2, <2>3 DEF Types
<1>6. \A s \in Sid : SessOK(s)'
  BY Zenon, SessKept
<1>7. \A t \in Ticket : TicketOK(t)'
  BY Zenon DEF SInv, TicketOK
<1>8. \A s \in Sid : s # call[p].from => heirs'[s] = heirs[s]
  BY Zenon
<1> QED
  BY Zenon, <1>4, <1>5, <1>6, <1>7, <1>8, CallStep

\* The parts of the invariant that are about numbers.
LEMMA Clocks ==
    ASSUME SInv
    PROVE  /\ now \in Nat /\ now # 0 /\ cutoff \in Nat /\ outTime \in Nat /\ overtaken \in BOOLEAN /\ revived \in BOOLEAN
           /\ cutoff <= now /\ outTime <= now /\ (overtaken \/ outTime <= cutoff) /\ (revived => overtaken)
           /\ cutoff <= cutoff /\ outTime <= outTime
           /\ sess \in [Sid -> SessRecord] /\ index \in IndexRecord /\ \A s \in Sid : sess' = sess => SessMoves(s)
<1>1. /\ Types /\ now \in Nat /\ now # 0 /\ cutoff \in Nat /\ outTime \in Nat /\ overtaken \in BOOLEAN /\ revived \in BOOLEAN
      /\ sess \in [Sid -> SessRecord] /\ index \in IndexRecord
  BY Zenon DEF SInv, Types, StoreTypeOK, SessRecord, IndexRecord
<1>2. cutoff <= cutoff /\ outTime <= outTime
  BY <1>1
<1>3. \A s \in Sid : sess' = sess => SessMoves(s)
  BY Zenon, <1>1, SameSession
<1> QED
  BY Zenon, <1>1, <1>2, <1>3 DEF SInv, CutoffOK

LEMMA CheckUserCutoffKeeps ==
    ASSUME SInv, NEW p \in Call, CheckUserCutoff(p)
    PROVE  SInv'
<1>1. PICK c \in CallRecord : c = call[p]
  BY Zenon DEF SInv, Types
<1>2. RecOK(c) /\ c.pc = "checkCutoff" /\ c.dead \in BOOLEAN
  BY Zenon, <1>1, CallFields DEF SInv, CheckUserCutoff, At
<1>3. UNCHANGED <<store, now, ticket, issued, heirs, out, outTime, overtaken, sess, index, cutoff>> /\ Budget
  BY Zenon DEF CheckUserCutoff, Works, Fails, Budget, storeVars
<1>4. revived' \in BOOLEAN /\ (revived' => overtaken)
  <2>1. CASE revived' = (revived \/ (~CutOff(c.sid) /\ c.dead))
    BY Zenon, <1>2, <2>1, CutOffStops, Clocks
  <2>2. CASE revived' = revived
    BY Zenon, <2>2, Clocks
  <2> QED
    BY Zenon, <1>1, <2>1, <2>2 DEF CheckUserCutoff
<1>5. RecOK(Idle)' /\ call' = [call EXCEPT ![p] = Idle]
  BY Zenon, IdleCall DEF RecOK, CheckUserCutoff, Returns
<1>6. CutoffOK'
  BY Zenon, <1>3, <1>4, Clocks DEF CutoffOK
<1> QED
  BY Zenon, <1>3, <1>4, <1>5, <1>6, Clocks, IdleCall, CutoffStep
-----------------------------------------------------------------------------
(* Logout.                                                                 *)

LEMMA LogoutKeeps ==
    ASSUME SInv, NEW p \in Call, NEW s \in Sid, Logout(p, s)
    PROVE  SInv'
<1>1. Returns(p) /\ Budget /\ UNCHANGED <<store, now, ticket, issued, heirs, outTime, overtaken, revived>>
  BY Zenon DEF Logout, Called, Works, Fails, Budget
<1>2. CASE Stored(s) /\ Revoke({s}) /\ out' = out \cup {s}
  <2>1. /\ sess' \in [Sid -> SessRecord] /\ (\A u \in Sid : SessMoves(u)) /\ index' \in IndexRecord /\ cutoff' = cutoff
        /\ sess'[s].st = "revoked"
    BY Zenon, <1>2, RevokeMoves DEF SInv, Types, StoreTypeOK, Revoke, IndexRecord
  <2>2. sess[s].exp # 0
    BY Zenon, <1>2 DEF Stored, SInv, SessOK
  <2>3. Spent(s)'
    BY Zenon, <2>1, <2>2 DEF Spent, SessMoves
  <2>4. out \in SUBSET Sid
    BY Zenon DEF SInv, Types
  <2>5. StoreOnly
    BY Zenon, <1>1, <1>2, <2>1, <2>3, <2>4 DEF StoreOnly
  <2> QED
    BY Zenon, <1>1, <2>5, ReturnStep
<1>3. CASE (Revoke({s}) \/ UNCHANGED storeVars) /\ out' = out
  <2>1. UNCHANGED <<store, now, ticket, issued, history>>
    BY Zenon, <1>1, <1>3 DEF history
  <2>2. StoreOnly
    BY Zenon, <1>3, <2>1, RevokeStore, SameStore
  <2> QED
    BY Zenon, <1>1, <2>2, ReturnStep
<1> QED
  BY Zenon, <1>2, <1>3 DEF Logout

LEMMA LogoutAllKeeps ==
    ASSUME SInv, NEW p \in Call, LogoutAll(p)
    PROVE  SInv'
<1>1. PICK r : r = [Idle EXCEPT !.pc = "setCutoff", !.began = now, !.all = TRUE]
  BY Zenon
<1>2. "setCutoff" \in Pc /\ now \in Nat /\ Idle \in CallRecord
  BY Zenon, NowBegins, IdleCall DEF Pc
<1>3. r \in CallRecord /\ r.pc = "setCutoff" /\ r.began = now
  BY <1>1, <1>2 DEF CallRecord
<1>4. r.from = 0 /\ r.time = 0 /\ 0 <= now
  BY <1>1, <1>2 DEF Idle
<1>5. RecOK(r)
  BY Zenon, <1>3, <1>4, NowBegins DEF RecOK
<1>6. CallOnly /\ Budget /\ call' = [call EXCEPT ![p] = r]
  BY Zenon, <1>1 DEF LogoutAll, CallOnly, Budget, Called
<1> QED
  BY Zenon, <1>3, <1>4, <1>5, <1>6, OnlyCall

LEMMA ReadsClockKeeps ==
    ASSUME SInv, NEW p \in Call, ReadsClock(p)
    PROVE  SInv'
<1>1. PICK c \in CallRecord : c = call[p]
  BY Zenon DEF SInv, Types
<1>2. RecOK(c) /\ c.pc = "setCutoff" /\ c.from = 0 /\ now \in Nat
  BY Zenon, <1>1, NowBegins DEF SInv, ReadsClock, At, RecOK
<1>3. PICK r : r = [c EXCEPT !.time = now]
  BY Zenon
<1>4. r \in CallRecord /\ r.pc = c.pc /\ r.from = c.from /\ r.began = c.began /\ r.time = now /\ now <= now
  BY <1>2, <1>3 DEF CallRecord
<1>5. RecOK(r)
  BY Zenon, <1>2, <1>4 DEF RecOK
<1>6. CallOnly /\ Budget /\ call' = [call EXCEPT ![p] = r]
  BY Zenon, <1>1, <1>3 DEF ReadsClock, CallOnly, Budget
<1> QED
  BY Zenon, <1>2, <1>4, <1>5, <1>6, OnlyCall

LEMMA RecordCutoffKeeps ==
    ASSUME SInv, NEW p \in Call, RecordCutoff(p)
    PROVE  SInv'
<1>1. PICK c \in CallRecord : c = call[p]
  BY Zenon DEF SInv, Types
<1>2. RecOK(c) /\ c.pc = "setCutoff" /\ c.from = 0 /\ c.time \in Nat /\ c.time <= now /\ c.began \in Nat
  BY Zenon, <1>1, CallFields DEF SInv, RecordCutoff, At, RecOK
<1>3. UNCHANGED <<store, now, ticket, issued, heirs, out, outTime, revived>> /\ Budget
  BY Zenon DEF RecordCutoff, Works, Fails, Budget
<1>4. CASE Returns(p) /\ UNCHANGED <<storeVars, overtaken>>
  <2>1. StoreOnly
    BY Zenon, <1>3, <1>4, SameStore DEF history
  <2> QED
    BY Zenon, <1>3, <1>4, <2>1, ReturnStep
<1>5. CASE /\ SetCutoff(c.time) /\ overtaken' = (overtaken \/ c.time < cutoff)
           /\ Returns(p) \/ Goes(p, "members")
  <2>1. PICK t, k : t = c.time /\ k = cutoff
    BY Zenon
  <2>2. cutoff' = t /\ UNCHANGED <<sess, index>> /\ t \in Nat /\ t <= now /\ k \in Nat /\ outTime \in Nat
        /\ overtaken' = (overtaken \/ t < k) /\ (overtaken \/ outTime <= k)
    BY Zenon, <1>2, <1>5, <2>1, Clocks DEF SetCutoff
  <2>3. /\ overtaken' \in BOOLEAN /\ (overtaken => overtaken') /\ (overtaken' \/ ~(t < k))
    BY Zenon, <2>2
  <2>4. (t < k \/ k <= t) /\ (outTime <= k /\ k <= t => outTime <= t) /\ t <= t
    BY <2>2
  <2>5. CutoffOK' /\ (overtaken' \/ cutoff <= cutoff')
    BY Zenon, <1>3, <2>1, <2>2, <2>3, <2>4, Clocks DEF CutoffOK
  <2>6. PICK r \in CallRecord : call' = [call EXCEPT ![p] = r] /\ r.from = 0 /\ (r.pc = "idle" \/ (r.pc = "members" /\ Alike(r, c)))
    <3>1. CASE Returns(p)
      BY Zenon, <3>1, IdleCall DEF Returns
    <3>2. CASE Goes(p, "members")
      <4>1. "members" \in Pc
        BY Zenon DEF Pc
      <4>2. PICK r \in CallRecord : r = [c EXCEPT !.pc = "members"] /\ r.pc = "members" /\ Alike(r, c)
        BY Zenon, <4>1, GoesRecord
      <4> QED
        BY Zenon, <1>1, <1>2, <3>2, <4>2 DEF Goes, Alike
    <3> QED
      BY Zenon, <1>5, <3>1, <3>2
  <2>7. RecOK(r)'
    <3>1. CASE r.pc = "idle"
      BY Zenon, <2>6, <3>1 DEF RecOK
    <3>2. CASE r.pc = "members" /\ Alike(r, c)
      <4>1. r.time = t /\ now' = now /\ now <= r.began + CallTime
        BY Zenon, <1>2, <1>3, <2>1, <3>2 DEF Alike, RecOK
      <4> QED
        BY Zenon, <2>2, <2>4, <2>6, <3>2, <4>1 DEF RecOK
    <3> QED
      BY Zenon, <2>6, <3>1, <3>2
  <2> QED
    BY Zenon, <1>3, <2>2, <2>3, <2>5, <2>6, <2>7, Clocks, CutoffStep
<1> QED
  BY Zenon, <1>1, <1>4, <1>5 DEF RecordCutoff

LEMMA ListMembersKeeps ==
    ASSUME SInv, NEW p \in Call, ListMembers(p)
    PROVE  SInv'
<1>1. PICK c \in CallRecord : c = call[p]
  BY Zenon DEF SInv, Types
<1>2. RecOK(c) /\ c.pc = "members" /\ c.from = 0
  BY Zenon, <1>1 DEF SInv, ListMembers, At, RecOK
<1>3. CallOnly /\ Budget
  BY Zenon DEF ListMembers, CallOnly, Budget, Works, Fails
<1>4. CASE Returns(p)
  BY Zenon, <1>3, <1>4, CallOnlyStore, ReturnStep DEF SInv
<1>5. CASE call' = [call EXCEPT ![p].pc = IF Indexed = {} THEN "prune" ELSE "each", ![p].ids = Indexed]
  <2>1. PICK x \in {"prune", "each"} : x = IF Indexed = {} THEN "prune" ELSE "each"
    BY Zenon
  <2>2. PICK i \in SUBSET Sid : i = Indexed
    <3>1. index \in IndexRecord
      BY Zenon, Clocks
    <3>2. index.ids \in SUBSET Sid
      BY <3>1 DEF IndexRecord
    <3> QED
      BY Zenon, <3>2 DEF Indexed
  <2>3. PICK r : r = [c EXCEPT !.pc = x, !.ids = i]
    BY Zenon
  <2>4. x \in Pc
    BY Zenon DEF Pc
  <2>5. r \in CallRecord /\ r.pc = x /\ r.from = c.from /\ r.began = c.began /\ r.time = c.time
    BY <2>2, <2>3, <2>4 DEF CallRecord
  <2>6. call' = [call EXCEPT ![p] = r]
    BY Zenon, <1>1, <1>5, <2>1, <2>2, <2>3
  <2>7. RecOK(r)
    BY Zenon, <1>2, <2>1, <2>5 DEF RecOK
  <2> QED
    BY Zenon, <1>2, <1>3, <2>5, <2>6, <2>7, OnlyCall
<1> QED
  BY Zenon, <1>4, <1>5 DEF ListMembers

LEMMA RevokeNextKeeps ==
    ASSUME SInv, NEW p \in Call, RevokeNext(p)
    PROVE  SInv'
<1>1. PICK c \in CallRecord : c = call[p]
  BY Zenon DEF SInv, Types
<1>2. RecOK(c) /\ c.pc = "each" /\ c.from = 0 /\ c.ids \in SUBSET Sid /\ c.stale \in SUBSET Sid
  BY Zenon, <1>1, CallFields DEF SInv, RevokeNext, At, RecOK
<1>3. UNCHANGED <<store, now, ticket, issued, history>> /\ Budget
  BY Zenon DEF RevokeNext, Budget, Works, Fails
<1>4. PICK s \in c.ids, rest \in SUBSET Sid, x \in {"prune", "each"} :
         /\ Revoke({s}) \/ UNCHANGED storeVars
         /\ \/ call' = [call EXCEPT ![p].ids = rest, ![p].pc = x, ![p].stale = c.stale \cup {s}]
            \/ call' = [call EXCEPT ![p].ids = rest, ![p].pc = x, ![p].failed = TRUE]
  <2>1. PICK s \in call[p].ids :
          \/ /\ Revoke({s})
             /\ call' = [call EXCEPT ![p].ids = call[p].ids \ {s},
                                     ![p].pc = IF call[p].ids \ {s} = {} THEN "prune" ELSE "each",
                                     ![p].stale = call[p].stale \cup {s}]
          \/ /\ Revoke({s}) \/ UNCHANGED storeVars
             /\ call' = [call EXCEPT ![p].ids = call[p].ids \ {s},
                                     ![p].pc = IF call[p].ids \ {s} = {} THEN "prune" ELSE "each",
                                     ![p].failed = TRUE]
    BY Zenon DEF RevokeNext
  <2>2. PICK rest, x : /\ rest = c.ids \ {s} /\ x = IF rest = {} THEN "prune" ELSE "each"
                       /\ Revoke({s}) \/ UNCHANGED storeVars
                       /\ \/ call' = [call EXCEPT ![p].ids = rest, ![p].pc = x, ![p].stale = call[p].stale \cup {s}]
                          \/ call' = [call EXCEPT ![p].ids = rest, ![p].pc = x, ![p].failed = TRUE]
    BY Zenon, <1>1, <2>1
  <2>3. rest \in SUBSET Sid /\ x \in {"prune", "each"}
    BY Zenon, <1>2, <2>2
  <2> QED
    BY ZenonT(40), <1>1, <2>2, <2>3
<1>5. StoreOnly
  BY Zenon, <1>3, <1>4, RevokeStore, SameStore
<1>6. PICK r \in CallRecord :
         call' = [call EXCEPT ![p] = r] /\ r.pc = x /\ r.from = c.from /\ r.began = c.began /\ r.time = c.time
  <2>1. x \in Pc
    BY Zenon DEF Pc
  <2>2. PICK z : z = c.stale \cup {s} /\ z \in SUBSET Sid
    BY Zenon, <1>2
  <2>3. CASE call' = [call EXCEPT ![p].ids = rest, ![p].pc = x, ![p].stale = c.stale \cup {s}]
    <3>1. PICK r : r = [c EXCEPT !.ids = rest, !.pc = x, !.stale = z]
      BY Zenon
    <3>2. r \in CallRecord /\ r.pc = x /\ r.from = c.from /\ r.began = c.began /\ r.time = c.time
      BY <2>1, <2>2, <3>1 DEF CallRecord
    <3> QED
      BY Zenon, <1>1, <2>2, <2>3, <3>1, <3>2
  <2>4. CASE call' = [call EXCEPT ![p].ids = rest, ![p].pc = x, ![p].failed = TRUE]
    <3>1. PICK r : r = [c EXCEPT !.ids = rest, !.pc = x, !.failed = TRUE]
      BY Zenon
    <3>2. r \in CallRecord /\ r.pc = x /\ r.from = c.from /\ r.began = c.began /\ r.time = c.time
      BY <2>1, <3>1 DEF CallRecord
    <3> QED
      BY Zenon, <1>1, <2>4, <3>1, <3>2
  <2> QED
    BY Zenon, <1>4, <2>3, <2>4
<1>7. RecOK(r)'
  <2>1. now' = now /\ overtaken' = overtaken /\ cutoff' = cutoff
    BY Zenon, <1>5 DEF StoreOnly
  <2>2. r.from = 0 /\ now <= r.began + CallTime /\ r.time <= now /\ (overtaken \/ r.time <= cutoff)
    BY Zenon, <1>2, <1>6 DEF RecOK
  <2> QED
    BY Zenon, <1>4, <1>6, <2>1, <2>2 DEF RecOK
<1> QED
  BY Zenon, <1>2, <1>3, <1>5, <1>6, <1>7, StoreStep

LEMMA PruneTypes ==
    ASSUME SInv, NEW ids, Prune(ids)
    PROVE  index' \in IndexRecord /\ UNCHANGED <<sess, cutoff>>
<1>1. index \in IndexRecord
  BY Zenon, Clocks
<1>2. index.ids \in SUBSET Sid
  BY <1>1 DEF IndexRecord
<1>3. PICK i \in SUBSET Sid : i = Indexed \ ids
  BY Zenon, <1>2 DEF Indexed
<1>4. index' = [index EXCEPT !.ids = i] /\ UNCHANGED <<sess, cutoff>>
  BY Zenon, <1>3 DEF Prune
<1>5. index' \in IndexRecord
  BY <1>1, <1>3, <1>4 DEF IndexRecord
<1> QED
  BY Zenon, <1>4, <1>5

LEMMA PruneStore ==
    ASSUME SInv, NEW ids, Prune(ids), UNCHANGED <<store, now, ticket, issued, history>>
    PROVE  StoreOnly
<1>1. out \in SUBSET Sid
  BY Zenon DEF SInv, Types
<1> QED
  BY Zenon, <1>1, PruneTypes, Clocks DEF StoreOnly, history

LEMMA PruneRevokedKeeps ==
    ASSUME SInv, NEW p \in Call, PruneRevoked(p)
    PROVE  SInv'
<1>1. PICK c \in CallRecord : c = call[p]
  BY Zenon DEF SInv, Types
<1>2. RecOK(c) /\ c.time \in Nat /\ c.time <= now /\ (overtaken \/ c.time <= cutoff)
  BY Zenon, <1>1, CallFields DEF SInv, PruneRevoked, At, RecOK
<1>3. UNCHANGED <<store, now, ticket, issued, heirs, out, overtaken, revived>> /\ Budget /\ Returns(p)
  BY Zenon DEF PruneRevoked, Works, Fails, Budget
<1>4. CASE (Prune(c.stale) \/ UNCHANGED storeVars) /\ outTime' = outTime
  <2>1. StoreOnly
    BY Zenon, <1>3, <1>4, SameStore, PruneStore DEF history
  <2> QED
    BY Zenon, <1>3, <2>1, ReturnStep
<1>5. CASE Prune(c.stale) /\ outTime' = Later(outTime, c.time)
  <2>1. index' \in IndexRecord /\ UNCHANGED <<sess, cutoff>>
    BY Zenon, <1>5, PruneTypes
  <2>2. /\ outTime' \in Nat /\ outTime <= outTime' /\ outTime' <= now
        /\ c.time <= cutoff /\ outTime <= cutoff => outTime' <= cutoff
    <3>1. PICK t : t = c.time
      BY Zenon
    <3>2. t \in Nat /\ t <= now /\ now \in Nat /\ cutoff \in Nat /\ outTime \in Nat /\ outTime <= now
          /\ outTime' = Later(outTime, t)
      BY Zenon, <1>2, <1>5, <3>1, Clocks
    <3>3. outTime' = outTime \/ outTime' = t
      BY Zenon, <3>2 DEF Later
    <3>4. outTime <= outTime'
      BY <3>2 DEF Later
    <3>5. outTime' \in Nat /\ outTime' <= now /\ (t <= cutoff /\ outTime <= cutoff => outTime' <= cutoff)
      BY Zenon, <3>2, <3>3
    <3> QED
      BY Zenon, <3>1, <3>4, <3>5
  <2>3. CutoffOK'
    BY Zenon, <1>2, <1>3, <2>1, <2>2, Clocks DEF CutoffOK
  <2>4. RecOK(Idle)' /\ call' = [call EXCEPT ![p] = Idle]
    BY Zenon, <1>3, IdleCall DEF RecOK, Returns
  <2> QED
    BY Zenon, <1>3, <2>1, <2>2, <2>3, <2>4, Clocks, IdleCall, CutoffStep
<1> QED
  BY Zenon, <1>1, <1>4, <1>5 DEF PruneRevoked

LEMMA RevokeAllForUserKeeps ==
    ASSUME SInv, NEW p \in Call, RevokeAllForUser(p)
    PROVE  SInv'
<1>1. UNCHANGED <<store, now, ticket, issued, heirs, out, overtaken, revived, index>> /\ Budget
      /\ call' = [call EXCEPT ![p] = Idle] /\ cutoff' = now /\ (outTime' = now \/ outTime' = outTime)
  BY Zenon DEF RevokeAllForUser, RevokeAllInMemory, Returns, Budget
<1>2. sess' \in [Sid -> SessRecord] /\ \A s \in Sid : SessMoves(s)
  BY Zenon, MemoryMoves DEF RevokeAllForUser, SInv
<1>3. now <= now /\ outTime <= now /\ cutoff <= now /\ outTime <= outTime /\ now \in Nat
  BY Clocks
<1>4. CutoffOK' /\ outTime <= outTime' /\ cutoff <= cutoff' /\ outTime' \in Nat /\ cutoff' \in Nat
  BY Zenon, <1>1, <1>3, Clocks DEF CutoffOK
<1>5. RecOK(Idle)'
  BY Zenon, IdleCall DEF RecOK
<1> QED
  BY Zenon, <1>1, <1>2, <1>4, <1>5, Clocks, IdleCall, CutoffStep

LEMMA ListSessionsKeeps ==
    ASSUME SInv, NEW p \in Call, ListSessions(p)
    PROVE  SInv'
<1>1. CallOnly /\ Budget
  BY Zenon DEF ListSessions, CallOnly, Called, Works, Fails, Budget
<1>2. CASE Returns(p)
  BY Zenon, <1>1, <1>2, CallOnlyStore, ReturnStep DEF SInv
<1>3. CASE call' = [call EXCEPT ![p] = [Idle EXCEPT !.pc = "listed", !.began = now, !.ids = Indexed]]
  <2>1. PICK i \in SUBSET Sid : i = Indexed
    <3>1. index \in IndexRecord
      BY Zenon, Clocks
    <3>2. index.ids \in SUBSET Sid
      BY <3>1 DEF IndexRecord
    <3> QED
      BY Zenon, <3>2 DEF Indexed
  <2>2. PICK r : r = [Idle EXCEPT !.pc = "listed", !.began = now, !.ids = i]
    BY Zenon
  <2>3. "listed" \in Pc /\ now \in Nat /\ Idle \in CallRecord
    BY Zenon, NowBegins, IdleCall DEF Pc
  <2>4. r \in CallRecord /\ r.pc = "listed" /\ r.began = now /\ r.from = 0
    BY <2>1, <2>2, <2>3, IdleCall DEF CallRecord
  <2>5. RecOK(r)
    BY Zenon, <2>4, NowBegins DEF RecOK
  <2> QED
    BY Zenon, <1>1, <1>3, <2>1, <2>2, <2>4, <2>5, OnlyCall
<1> QED
  BY Zenon, <1>2, <1>3 DEF ListSessions

LEMMA PruneListedKeeps ==
    ASSUME SInv, NEW p \in Call, PruneListed(p)
    PROVE  SInv'
<1>1. UNCHANGED <<store, now, ticket, issued, history>> /\ Budget /\ Returns(p)
  BY Zenon DEF PruneListed, Works, Fails, Budget
<1>2. (\E stale : Prune(stale)) \/ UNCHANGED storeVars
  BY Zenon DEF PruneListed
<1>3. StoreOnly
  BY Zenon, <1>1, <1>2, PruneStore, SameStore
<1> QED
  BY Zenon, <1>1, <1>3, ReturnStep
-----------------------------------------------------------------------------
(* The clock and gc.                                                       *)

LEMMA TickKeeps ==
    ASSUME SInv, Tick
    PROVE  SInv'
<1>1. /\ Types /\ now \in Nat /\ now' = now + 1
      /\ UNCHANGED <<store, sess, index, cutoff, ticket, call, issued, failures, calls, heirs, out, outTime, overtaken, revived>>
  BY Zenon DEF SInv, Types, StoreTypeOK, Tick, storeVars, coreVars
<1>2. now' \in Nat /\ now' # 0 /\ \A n \in Nat : (n <= now => n <= now') /\ (n < now => n < now')
  BY <1>1
<1>3. Types'
  BY Zenon, <1>1, <1>2 DEF Types, StoreTypeOK
<1>4. ASSUME NEW s \in Sid PROVE SessOK(s)'
  <2>1. SessOK(s) /\ sess[s].exp \in Nat
    BY Zenon, <1>1, SessFields DEF SInv
  <2> QED
    BY Zenon, <1>1, <1>2, <2>1 DEF SessOK, Spent
<1>5. \A t \in Ticket : TicketOK(t)'
  BY Zenon, <1>1 DEF SInv, TicketOK
<1>6. ASSUME NEW p \in Call PROVE RecOK(call[p])'
  <2>1. PICK c \in CallRecord : c = call[p]
    BY Zenon, <1>1 DEF Types
  <2>2. RecOK(c) /\ c.began \in Nat /\ c.time \in Nat
    BY Zenon, <2>1, CallFields DEF SInv
  <2>3. c.pc # "idle" => now' <= c.began + CallTime
    <3> SUFFICES ASSUME c.pc # "idle" PROVE now' <= c.began + CallTime
      OBVIOUS
    <3>1. PICK b : b = c.began /\ b \in Nat /\ now - b < CallTime
      BY Zenon, <2>1, <2>2 DEF Tick, Free
    <3>2. now + 1 <= b + CallTime
      BY <1>1, <3>1, ConstantFacts
    <3> QED
      BY Zenon, <1>1, <3>1, <3>2
  <2>4. c.pc \in {"setCutoff", "members", "each", "prune"} => c.time <= now'
    BY Zenon, <1>2, <2>2 DEF RecOK
  <2>5. RecOK(c)'
    BY Zenon, <1>1, <2>2, <2>3, <2>4 DEF RecOK, Spent, LoggedOut
  <2>6. call'[p] = c
    BY Zenon, <1>1, <2>1
  <2> QED
    BY Zenon, <2>5, <2>6, RecPrimed
<1>7. Rotations'
  BY Zenon, <1>1 DEF SInv, Rotations
<1>8. CutoffOK'
  BY Zenon, <1>1, <1>2, Clocks DEF CutoffOK
<1> QED
  BY Zenon, <1>3, <1>4, <1>5, <1>6, <1>7, <1>8 DEF SInv

LEMMA CollectKeeps ==
    ASSUME SInv, Collect
    PROVE  SInv'
<1>1. UNCHANGED <<store, now, index, cutoff, coreVars>>
  BY Zenon DEF Collect, Gc
<1>2. sess' \in [Sid -> SessRecord] /\ \A s \in Sid : SessMoves(s)
  BY Zenon, GcMoves DEF Collect, SInv
<1>3. out \in SUBSET Sid /\ index \in IndexRecord /\ call \in [Call -> CallRecord]
  BY Zenon, Clocks DEF SInv, Types
<1>4. StoreOnly /\ Budget /\ UNCHANGED <<call, heirs>> /\ call' \in [Call -> CallRecord]
  BY Zenon, <1>1, <1>2, <1>3 DEF StoreOnly, Budget, coreVars
<1>5. Types'
  BY Zenon, <1>4, StoreOnlyTypes DEF SInv
<1> QED
  BY Zenon, <1>4, <1>5, StoreOnlyMoves, QuietStep

LEMMA StutterKeeps ==
    ASSUME SInv, UNCHANGED vars
    PROVE  SInv'
<1>1. CallOnly /\ Budget /\ UNCHANGED <<call, heirs>>
  BY Zenon DEF vars, coreVars, CallOnly, history, Budget
<1>2. StoreOnly /\ call' \in [Call -> CallRecord]
  BY Zenon, <1>1, CallOnlyStore DEF SInv, Types
<1>3. Types'
  BY Zenon, <1>1, <1>2, StoreOnlyTypes DEF SInv
<1> QED
  BY Zenon, <1>1, <1>2, <1>3, StoreOnlyMoves, QuietStep
-----------------------------------------------------------------------------
(* The theorems.                                                           *)

LEMMA InitSInv == Init => SInv
<1> SUFFICES ASSUME Init PROVE SInv
  OBVIOUS
<1>1. NoSession \in SessRecord /\ NoSession.st = "none" /\ NoSession.exp = 0 /\ NoSession.exp <= NoSession.hold
  BY DEF NoSession, SessRecord
<1>2. PICK z : z = [exp |-> 0, seen |-> 0, uses |-> 0]
  BY Zenon
<1>3. z \in Tickets /\ z.exp = 0 /\ z.uses = 0
  BY <1>2 DEF Tickets
<1>4. 0 \in 0 .. MaxFailures /\ 0 \in 0 .. MaxCalls /\ 0 \in Nat /\ 1 \in Nat /\ 1 # 0 /\ 0 <= 1 /\ 0 <= 0
  BY ConstantFacts
<1>5. [ids |-> {}, until |-> 0] \in IndexRecord
  BY DEF IndexRecord
<1>6. Types
  <2>1. ticket \in [Ticket -> Tickets] /\ call \in [Call -> CallRecord] /\ heirs \in [Sid -> Nat]
    BY Zenon, <1>2, <1>3, <1>4, IdleCall DEF Init
  <2>2. StoreTypeOK
    BY Zenon, <1>1, <1>4, <1>5 DEF Init, StoreInit, StoreTypeOK, SessRecord, IndexRecord
  <2> QED
    BY Zenon, <1>4, <2>1, <2>2 DEF Init, StoreInit, Types
<1>7. ASSUME NEW s \in Sid PROVE SessOK(s)
  <2>1. sess[s] = NoSession /\ s \notin issued /\ s \notin out /\ heirs[s] = 0
    BY Zenon DEF Init, StoreInit
  <2> QED
    BY Zenon, <1>1, <2>1 DEF SessOK
<1>8. ASSUME NEW t \in Ticket PROVE TicketOK(t)
  <2>1. ticket[t] = z
    BY Zenon, <1>2 DEF Init
  <2> QED
    BY Zenon, <1>3, <2>1 DEF TicketOK
<1>9. \A p \in Call : call[p] = Idle
  BY Zenon DEF Init
<1>10. (\A p \in Call : RecOK(call[p])) /\ Rotations
  BY Zenon, <1>9, IdleCall DEF RecOK, Rotations
<1>11. CutoffOK
  BY Zenon, <1>4 DEF Init, StoreInit, CutoffOK
<1> QED
  BY Zenon, <1>6, <1>7, <1>8, <1>10, <1>11 DEF SInv

LEMMA StepSInv ==
    ASSUME SInv, NEW p \in Call, Step(p)
    PROVE  SInv'
<1>1. CASE ConsumeTicket(p) \/ Stamp(p) \/ Issue(p)
  BY Zenon, <1>1, ConsumeTicketKeeps, StampKeeps, IssueKeeps
<1>2. CASE Refreshable(p) \/ RefreshCutoff(p) \/ Rotate(p) \/ CheckSession(p) \/ CheckUserCutoff(p)
  BY Zenon, <1>2, RefreshableKeeps, RefreshCutoffKeeps, RotateKeeps, CheckSessionKeeps, CheckUserCutoffKeeps
<1>3. CASE ReadsClock(p) \/ RecordCutoff(p) \/ ListMembers(p) \/ RevokeNext(p) \/ PruneRevoked(p)
  BY Zenon, <1>3, ReadsClockKeeps, RecordCutoffKeeps, ListMembersKeeps, RevokeNextKeeps, PruneRevokedKeeps
<1>4. CASE RevokeAllForUser(p) \/ PruneListed(p)
  BY Zenon, <1>4, RevokeAllForUserKeeps, PruneListedKeeps
<1> QED
  BY Zenon, <1>1, <1>2, <1>3, <1>4 DEF Step

LEMMA NextSInv == SInv /\ [Next]_vars => SInv'
<1> SUFFICES ASSUME SInv, [Next]_vars PROVE SInv'
  OBVIOUS
<1>1. CASE \E t \in Ticket : Authenticate(t)
  BY Zenon, <1>1, AuthenticateKeeps
<1>2. ASSUME NEW p \in Call, NEW t \in Ticket, SelectTenant(p, t) PROVE SInv'
  BY Zenon, <1>2, SelectTenantKeeps
<1>3. ASSUME NEW p \in Call, NEW s \in Sid, RefreshToken(p, s) \/ ValidateToken(p, s) PROVE SInv'
  <2>1. PICK x \in {"get", "check"} : Begins(p, x, s)
    BY Zenon, <1>3 DEF RefreshToken, ValidateToken
  <2>2. s \in issued /\ CallOnly /\ Works
    BY Zenon, <1>3 DEF RefreshToken, ValidateToken, CallOnly, Works
  <2> QED
    BY Zenon, <2>1, <2>2, BeginsKeeps
<1>4. ASSUME NEW p \in Call, NEW s \in Sid, Logout(p, s) PROVE SInv'
  BY Zenon, <1>4, LogoutKeeps
<1>5. ASSUME NEW p \in Call, LogoutAll(p) \/ ListSessions(p) \/ Step(p) PROVE SInv'
  BY Zenon, <1>5, LogoutAllKeeps, ListSessionsKeeps, StepSInv
<1>6. CASE Tick \/ Collect \/ UNCHANGED vars
  BY Zenon, <1>6, TickKeeps, CollectKeeps, StutterKeeps
<1> QED
  BY Zenon, <1>1, <1>2, <1>3, <1>4, <1>5, <1>6 DEF Next

LEMMA SInvariance == Spec => []SInv
  BY InitSInv, NextSInv, PTL DEF Spec

\* However many calls present the same refresh token or the same ticket, on
\* whatever instances and whatever commands fail, it is honoured once, and the
\* store still knows a token that was used for as long as it would have lived
\* (RevokeIfActive, consumeTicket, revokedTTL, gc).
THEOREM UsedOnceHolds == Spec => []UsedOnce
<1>1. SInv => UsedOnce
  <2> SUFFICES ASSUME SInv PROVE UsedOnce
    OBVIOUS
  <2>1. TypeOK
    BY Zenon, TypesImply DEF SInv
  <2>2. 0 <= 1 /\ 1 <= 1
    OBVIOUS
  <2>3. OneRotation
    BY Zenon, <2>2 DEF SInv, SessOK, OneRotation
  <2>4. TicketOnce
    BY Zenon, <2>2 DEF SInv, TicketOK, TicketOnce
  <2>5. ASSUME NEW s \in issued, sess[s].st # "active", now < sess[s].exp PROVE Found(s)
    <3>1. Types /\ s \in Sid /\ SessOK(s) /\ now \in Nat
      BY Zenon, Clocks DEF SInv, Types
    <3>2. PICK e, h : e = sess[s].exp /\ h = sess[s].hold
      BY Zenon
    <3>3. e \in Nat /\ h \in Nat /\ e <= h /\ now < e
      BY Zenon, <2>5, <3>1, <3>2, SessFields DEF SessOK
    <3>4. ~(e < now) /\ now < h /\ now <= e
      BY <3>1, <3>3
    <3> QED
      BY Zenon, <2>5, <3>1, <3>2, <3>4 DEF SessOK, Found, Stored
  <2> QED
    BY Zenon, <2>1, <2>3, <2>4, <2>5 DEF UsedOnce, ReuseSeen
<1> QED
  BY <1>1, SInvariance, PTL

\* Once Logout or LogoutAll has returned nil, no call that begins later gets
\* past the session's state or the user's cut-off, unless a RevokeAllForUser
\* that read the clock earlier overwrote the cut-off (Logout, RevokeAllForUser,
\* checkUserCutoff).
THEOREM LogoutIsFinal == Spec => []LoggedOutStaysOut
<1>1. SInv => LoggedOutStaysOut
  BY Zenon DEF SInv, CutoffOK, LoggedOutStaysOut
<1> QED
  BY <1>1, SInvariance, PTL
-----------------------------------------------------------------------------
(* Idp.                                                                    *)

VisitPC == {"idle", "done", "keys", "discovery", "exchange", "wait keys", "wait discovery",
            "again keys", "again discovery", "verify", "account"}
VisitRecord == [pc : VisitPC, op : {"none", "init", "callback", "verify"}, kid : Nat, canceled : BOOLEAN,
                err : {"none", "fetch", "canceled"}, known : BOOLEAN,
                answer : {"none", "ok", "refused", "canceled", "no key", "fetch"}]

IdpTypes ==
    /\ idp \in [keys : SUBSET Nat, newest : Nat]
    /\ instant \in Nat
    /\ held \in [Caches -> [has : BOOLEAN, keys : SUBSET Nat, at : Nat]]
    /\ flight \in [Caches -> [cur : BOOLEAN, leader : SUBSET Visitors, read : {"no", "ok"}, keys : SUBSET Nat]]
    /\ visitor \in [Visitors -> VisitRecord]

\* A key the provider no longer has never comes back, and a fetch under way that
\* was answered knows every key of the cache the provider still has.
KeysOK ==
    /\ idp.newest \in idp.keys
    /\ \A k \in idp.keys \cup held["keys"].keys \cup flight["keys"].keys : k <= idp.newest
    /\ flight["keys"].read = "ok" => held["keys"].keys \cap idp.keys \subseteq flight["keys"].keys

\* What a call saw in the cache is there still, or the provider has dropped it.
VisitOK(r) ==
    /\ r.kid <= idp.newest
    /\ r.answer # "none" => r.pc = "done"
    /\ r.err = "canceled" => r.canceled
    /\ r.answer = "canceled" => r.canceled
    /\ r.answer = "fetch" => ~r.known \/ r.kid \notin idp.keys
    /\ r.known /\ r.pc \in {"wait discovery", "again discovery"} => held["discovery"].has
    /\ r.known /\ r.pc \in {"wait keys", "again keys"} =>
         held["keys"].has /\ (r.kid \in held["keys"].keys \/ r.kid \notin idp.keys)

IdpInv == IdpTypes /\ KeysOK /\ \A v \in Visitors : VisitOK(visitor[v])

\* A call that is away, or has just begun.
LEMMA AwayOK ==
    ASSUME IdpTypes, NEW op \in {"init", "callback", "verify"}, NEW pc \in {"keys", "discovery"}
    PROVE  /\ Away \in VisitRecord
           /\ [Away EXCEPT !.op = op, !.kid = idp.newest, !.pc = pc] \in VisitRecord
           /\ VisitOK([Away EXCEPT !.op = op, !.kid = idp.newest, !.pc = pc])
<1>1. PICK k \in Nat : k = idp.newest
  BY DEF IdpTypes
<1>2. Away \in VisitRecord
  BY DEF Away, VisitRecord, VisitPC
<1>3. PICK r : r = [Away EXCEPT !.op = op, !.kid = k, !.pc = pc]
  BY Zenon
<1>4. r = [pc |-> pc, op |-> op, kid |-> k, canceled |-> FALSE, err |-> "none", known |-> FALSE, answer |-> "none"]
  BY <1>3 DEF Away
<1>5. r \in VisitRecord
  BY <1>4 DEF VisitRecord, VisitPC
<1>6. ~r.known /\ r.err # "canceled" /\ r.answer = "none" /\ r.kid = k /\ k <= k
  BY <1>4
<1> QED
  BY Zenon, <1>1, <1>2, <1>3, <1>5, <1>6 DEF VisitOK

LEMMA IdpStarts == IdpInit => IdpInv
<1> SUFFICES ASSUME IdpInit PROVE IdpInv
  OBVIOUS
<1>1. idp \in [keys : SUBSET Nat, newest : Nat] /\ idp.newest = 1 /\ idp.keys = {1} /\ instant \in Nat
  BY DEF IdpInit
<1>2. PICK h \in [has : BOOLEAN, keys : SUBSET Nat, at : Nat] :
        h = [has |-> FALSE, keys |-> {}, at |-> 0]
  OBVIOUS
<1>3. NoFlight \in [cur : BOOLEAN, leader : SUBSET Visitors, read : {"no", "ok"}, keys : SUBSET Nat]
      /\ NoFlight.read = "no" /\ NoFlight.keys = {}
  BY DEF NoFlight
<1>4. Away \in VisitRecord /\ ~Away.known /\ Away.err = "none" /\ Away.answer = "none" /\ Away.kid = 0
  BY DEF Away, VisitRecord, VisitPC
<1>5. held = [c \in Caches |-> h] /\ flight = [c \in Caches |-> NoFlight] /\ visitor = [v \in Visitors |-> Away]
  BY Zenon, <1>2 DEF IdpInit
<1>6. IdpTypes
  BY Zenon, <1>1, <1>2, <1>3, <1>4, <1>5 DEF IdpTypes
<1>h. h.keys = {}
  BY <1>2
<1>7. held["keys"].keys = {} /\ flight["keys"].keys = {} /\ flight["keys"].read # "ok"
  BY Zenon, <1>h, <1>3, <1>5 DEF Caches
<1>8. 1 <= 1 /\ 0 <= 1
  OBVIOUS
<1>9. KeysOK
  BY Zenon, <1>1, <1>7, <1>8 DEF KeysOK
<1>10. VisitOK(Away)
  BY Zenon, <1>1, <1>4, <1>8 DEF VisitOK
<1> QED
  BY Zenon, <1>5, <1>6, <1>9, <1>10 DEF IdpInv

\* How the provider and the caches may move without a call losing what it saw:
\* keys come back to neither, and a cache that has an answer keeps having one.
CachesMove ==
    /\ \A n \in Nat : n <= idp.newest => n <= idp'.newest
    /\ \A n \in Nat : n <= idp.newest /\ n \notin idp.keys => n \notin idp'.keys
    /\ \A c \in Caches : held[c].has => held'[c].has
    /\ \A k \in held["keys"].keys : k \in held'["keys"].keys \/ k \notin idp'.keys

LEMMA SeenStays ==
    ASSUME CachesMove, NEW r \in VisitRecord, VisitOK(r)
    PROVE  VisitOK(r)'
<1>1. r.kid \in Nat
  BY DEF VisitRecord
<1>2. "keys" \in Caches /\ "discovery" \in Caches
  BY DEF Caches
<1> QED
  BY Zenon, <1>1, <1>2 DEF VisitOK, CachesMove

\* A call's own step, beside which only the fetches change.
LEMMA VisitStep ==
    ASSUME IdpInv, NEW v \in Visitors, NEW r \in VisitRecord, visitor' = [visitor EXCEPT ![v] = r], VisitOK(r),
           UNCHANGED <<idp, instant, held>>,
           flight' \in [Caches -> [cur : BOOLEAN, leader : SUBSET Visitors, read : {"no", "ok"}, keys : SUBSET Nat]],
           KeysOK'
    PROVE  IdpInv'
<1>1. IdpTypes /\ \A w \in Visitors : VisitOK(visitor[w])
  BY Zenon DEF IdpInv
<1>2. visitor' \in [Visitors -> VisitRecord] /\ visitor'[v] = r /\ \A w \in Visitors \ {v} : visitor'[w] = visitor[w]
  BY Zenon, <1>1 DEF IdpTypes
<1>3. IdpTypes'
  BY Zenon, <1>1, <1>2 DEF IdpTypes
<1>4. ASSUME NEW w \in Visitors PROVE VisitOK(visitor[w])'
  <2>1. VisitOK(visitor'[w])
    BY Zenon, <1>1, <1>2
  <2> QED
    BY Zenon, <2>1 DEF VisitOK
<1> QED
  BY Zenon, <1>3, <1>4 DEF IdpInv

\* ... and not even they.
LEMMA VisitAlone ==
    ASSUME IdpInv, NEW v \in Visitors, NEW r \in VisitRecord, visitor' = [visitor EXCEPT ![v] = r], VisitOK(r),
           UNCHANGED <<idp, instant, held, flight>>
    PROVE  IdpInv'
<1>1. IdpTypes /\ KeysOK
  BY Zenon DEF IdpInv
<1>2. KeysOK'
  BY Zenon, <1>1 DEF KeysOK
<1>3. flight' \in [Caches -> [cur : BOOLEAN, leader : SUBSET Visitors, read : {"no", "ok"}, keys : SUBSET Nat]]
  BY Zenon, <1>1 DEF IdpTypes
<1> QED
  BY Zenon, <1>2, <1>3, VisitStep

\* A call that ends, with an answer that is its own.
LEMMA EndsStep ==
    ASSUME IdpInv, NEW v \in Visitors, NEW a \in {"ok", "refused", "canceled", "no key", "fetch"},
           visitor' = Ends(v, a), UNCHANGED <<idp, instant, held, flight>>,
           a = "canceled" => visitor[v].canceled,
           a = "fetch" => ~visitor[v].known \/ visitor[v].kid \notin idp.keys
    PROVE  IdpInv'
<1>1. PICK c \in VisitRecord : c = visitor[v] /\ VisitOK(c)
  BY Zenon DEF IdpInv, IdpTypes
<1>2. PICK r : r = [c EXCEPT !.pc = "done", !.answer = a, !.err = "none"]
  BY Zenon
<1>3. /\ r \in VisitRecord /\ r.pc = "done" /\ r.answer = a /\ r.err = "none" /\ r.kid = c.kid
      /\ r.canceled = c.canceled /\ r.known = c.known
  BY <1>2 DEF VisitRecord, VisitPC
<1>4. visitor' = [visitor EXCEPT ![v] = r]
  BY <1>1, <1>2 DEF Ends, IdpInv, IdpTypes
<1>5. VisitOK(r)
  BY Zenon, <1>1, <1>3 DEF VisitOK
<1> QED
  BY Zenon, <1>3, <1>4, <1>5, VisitAlone

\* A call that moves on to where it does not wait.
LEMMA OnwardStep ==
    ASSUME IdpInv, NEW v \in Visitors, NEW pc \in {"keys", "exchange", "verify", "account"},
           NEW e \in {"none", visitor[v].err}, NEW k \in {visitor[v].kid, idp.newest},
           visitor[v].pc # "done",
           visitor' = [visitor EXCEPT ![v] = [visitor[v] EXCEPT !.pc = pc, !.err = e, !.kid = k]],
           UNCHANGED <<idp, instant, held, flight>>
    PROVE  IdpInv'
<1>1. PICK c \in VisitRecord : c = visitor[v] /\ VisitOK(c)
  BY Zenon DEF IdpInv, IdpTypes
<1>2. c.kid \in Nat /\ idp.newest \in Nat
  BY DEF VisitRecord, IdpInv, IdpTypes
<1>leq. \A n \in Nat : n <= n
  OBVIOUS
<1>n. c.kid <= idp.newest /\ idp.newest <= idp.newest
  BY Zenon, <1>1, <1>2, <1>leq DEF VisitOK
<1>3. k \in Nat /\ k <= idp.newest
  BY Zenon, <1>1, <1>2, <1>n
<1>4. e \in {"none", "fetch", "canceled"} /\ (e = "canceled" => c.canceled)
  BY <1>1 DEF VisitOK, VisitRecord
<1>5. PICK r : r = [c EXCEPT !.pc = pc, !.err = e, !.kid = k]
  BY Zenon
<1>6. /\ r \in VisitRecord /\ r.pc = pc /\ r.answer = c.answer /\ r.err = e /\ r.kid = k
      /\ r.canceled = c.canceled /\ r.known = c.known
  BY <1>3, <1>4, <1>5 DEF VisitRecord, VisitPC
<1>7. VisitOK(r)
  BY Zenon, <1>1, <1>3, <1>4, <1>6 DEF VisitOK
<1> QED
  BY Zenon, <1>1, <1>5, <1>6, <1>7, VisitAlone

\* What a cache that holds the answer leads to.
LEMMA HitStep ==
    ASSUME IdpInv, NEW v \in Visitors, NEW c \in Caches, visitor[v].pc # "done",
           visitor' = Hit(v, c), UNCHANGED <<idp, instant, held, flight>>
    PROVE  IdpInv'
<1>1. CASE visitor' = Ends(v, "ok")
  BY Zenon, <1>1, EndsStep
<1>2. ASSUME NEW pc \in {"verify", "exchange"}, visitor' = Onward(v, pc) PROVE IdpInv'
  <2>1. PICK r \in VisitRecord : r = visitor[v]
    BY Zenon DEF IdpInv, IdpTypes
  <2>2. visitor' = [visitor EXCEPT ![v] = [r EXCEPT !.pc = pc, !.err = "none", !.kid = r.kid]]
    BY <1>2, <2>1 DEF Onward, IdpInv, IdpTypes, VisitRecord
  <2> QED
    BY Zenon, <2>1, <2>2, OnwardStep
<1> QED
  BY Zenon, <1>1, <1>2 DEF Hit

\* A call that joins a fetch waits with what it saw.
LEMMA LookUpKeeps ==
    ASSUME IdpInv, NEW v \in Visitors, NEW c \in Caches, LookUp(v, c)
    PROVE  IdpInv'
<1>0. PICK r \in VisitRecord : r = visitor[v] /\ VisitOK(r)
  BY Zenon DEF IdpInv, IdpTypes
<1>1. UNCHANGED <<idp, instant, held>> /\ r.pc = c /\ r.pc # "done"
  BY Zenon, <1>0 DEF LookUp, Caches
<1>2. CASE Serves(v, c) /\ Recent(c)
  <2>1. visitor' = Hit(v, c) /\ UNCHANGED flight
    BY Zenon, <1>2 DEF LookUp
  <2> QED
    BY Zenon, <1>0, <1>1, <2>1, HitStep
<1>3. CASE ~(Serves(v, c) /\ Recent(c)) /\ c = "keys" /\ Recent(c) /\ Age(c) < MinRefresh
  BY Zenon, <1>1, <1>3, EndsStep DEF LookUp
<1>4. CASE ~(Serves(v, c) /\ Recent(c)) /\ ~(c = "keys" /\ Recent(c) /\ Age(c) < MinRefresh)
  <2>1. PICK k \in BOOLEAN : k = Serves(v, c)
    BY Zenon, <1>1 DEF Serves
  <2>2. PICK pc \in {"wait keys", "wait discovery"} : pc = IF c = "keys" THEN "wait keys" ELSE "wait discovery"
    BY Zenon
  <2>3. visitor' = [visitor EXCEPT ![v].pc = pc, ![v].known = k] /\ flight' = Joined(v, c)
    BY Zenon, <1>4, <2>1, <2>2 DEF LookUp
  <2>4. PICK s : s = [r EXCEPT !.pc = pc, !.known = k]
    BY Zenon
  <2>5. /\ s \in VisitRecord /\ s.pc = pc /\ s.answer = r.answer /\ s.err = r.err /\ s.kid = r.kid
        /\ s.canceled = r.canceled /\ s.known = k
    BY <2>4 DEF VisitRecord, VisitPC
  <2>6. visitor' = [visitor EXCEPT ![v] = s]
    BY <1>0, <2>3, <2>4 DEF IdpInv, IdpTypes
  <2>7. s.answer = "none"
    BY Zenon, <1>0, <1>1, <2>5 DEF VisitOK
  <2>8. s.known /\ s.pc = "wait discovery" => held["discovery"].has
    BY Zenon, <2>1, <2>2, <2>5 DEF Serves, Caches
  <2>9. s.known /\ s.pc = "wait keys" => held["keys"].has /\ s.kid \in held["keys"].keys
    BY Zenon, <1>0, <2>1, <2>2, <2>5 DEF Serves, Caches, FindKey
  <2>10. VisitOK(s)
    BY Zenon, <1>0, <2>5, <2>7, <2>8, <2>9 DEF VisitOK
  <2>11. /\ flight' \in [Caches -> [cur : BOOLEAN, leader : SUBSET Visitors, read : {"no", "ok"}, keys : SUBSET Nat]]
         /\ flight'["keys"] = flight["keys"] \/ (flight'["keys"].read = "no" /\ flight'["keys"].keys = {})
    <3>1. flight \in [Caches -> [cur : BOOLEAN, leader : SUBSET Visitors, read : {"no", "ok"}, keys : SUBSET Nat]]
      BY Zenon DEF IdpInv, IdpTypes
    <3>2. PICK f \in [cur : BOOLEAN, leader : SUBSET Visitors, read : {"no", "ok"}, keys : SUBSET Nat] :
            f = [NoFlight EXCEPT !.cur = TRUE, !.leader = {v}]
      BY DEF NoFlight
    <3>3. f.read = "no" /\ f.keys = {}
      BY <3>2 DEF NoFlight
    <3>4. flight' = flight \/ flight' = [flight EXCEPT ![c] = f]
      BY Zenon, <2>3, <3>2 DEF Joined
    <3> QED
      BY ZenonT(40), <3>1, <3>3, <3>4 DEF Caches
  <2>12. KeysOK'
    BY Zenon, <1>1, <2>11 DEF IdpInv, KeysOK
  <2> QED
    BY Zenon, <1>1, <2>5, <2>6, <2>10, <2>11, <2>12, VisitStep
<1> QED
  BY Zenon, <1>2, <1>3, <1>4

\* A call that looks again after a fetch that failed answers so only when what it
\* saw is gone.
LEMMA LookAgainKeeps ==
    ASSUME IdpInv, NEW v \in Visitors, NEW c \in Caches, LookAgain(v, c)
    PROVE  IdpInv'
<1>0. PICK r \in VisitRecord : r = visitor[v] /\ VisitOK(r)
  BY Zenon DEF IdpInv, IdpTypes
<1>1. UNCHANGED <<idp, instant, held, flight>> /\ r.pc = (IF c = "keys" THEN "again keys" ELSE "again discovery")
      /\ r.pc # "done"
  BY Zenon, <1>0 DEF LookAgain
<1>2. CASE Serves(v, c) /\ c # "keys"
  BY Zenon, <1>0, <1>1, <1>2, HitStep DEF LookAgain
<1>3. CASE Serves(v, c) /\ c = "keys"
  <2>1. visitor' = [visitor EXCEPT ![v].pc = "verify"]
    BY Zenon, <1>3 DEF LookAgain
  <2>2. [r EXCEPT !.pc = "verify"] = [r EXCEPT !.pc = "verify", !.err = r.err, !.kid = r.kid]
    BY DEF VisitRecord
  <2> QED
    BY Zenon, <1>0, <1>1, <2>1, <2>2, OnwardStep
<1>4. CASE ~Serves(v, c)
  <2>1. PICK a \in {"no key", "fetch", "canceled"} : a = IF r.err = "none" THEN "no key" ELSE r.err
    BY DEF VisitRecord
  <2>2. visitor' = Ends(v, a)
    BY Zenon, <1>0, <1>4, <2>1 DEF LookAgain
  <2>3. a = "canceled" => r.canceled
    BY Zenon, <1>0, <2>1 DEF VisitOK
  <2>4. ~r.known \/ r.kid \notin idp.keys
    BY Zenon, <1>0, <1>1, <1>4 DEF VisitOK, Serves, FindKey, Caches
  <2> QED
    BY Zenon, <1>0, <1>1, <2>1, <2>2, <2>3, <2>4, EndsStep
<1> QED
  BY Zenon, <1>2, <1>3, <1>4

\* The steps a call takes by itself.
LEMMA CallsKeep ==
    ASSUME IdpInv, NEW v \in Visitors,
           \/ \E op \in {"init", "callback", "verify"} : Visit(v, op)
           \/ VisitRefused(v) \/ VisitCanceled(v) \/ ExchangeCode(v) \/ ExchangeFails(v) \/ VerifyToken(v) \/ ResolveUser(v)
    PROVE  IdpInv'
<1>0. PICK r \in VisitRecord : r = visitor[v] /\ VisitOK(r)
  BY Zenon DEF IdpInv, IdpTypes
<1>t. IdpTypes
  BY Zenon DEF IdpInv
<1>1. ASSUME NEW op \in {"init", "callback", "verify"}, Visit(v, op) PROVE IdpInv'
  <2>1. PICK pc \in {"keys", "discovery"} : pc = IF op = "verify" THEN "keys" ELSE "discovery"
    BY Zenon
  <2>2. visitor' = [visitor EXCEPT ![v] = [Away EXCEPT !.op = op, !.kid = idp.newest, !.pc = pc]]
        /\ UNCHANGED <<idp, instant, held, flight>>
    BY Zenon, <1>1, <2>1 DEF Visit
  <2> QED
    BY Zenon, <1>t, <2>2, AwayOK, VisitAlone
<1>2. CASE VisitRefused(v) \/ ExchangeFails(v)
  BY Zenon, <1>2, EndsStep DEF VisitRefused, ExchangeFails
<1>3. CASE VisitCanceled(v)
  <2>1. PICK s : s = [r EXCEPT !.canceled = TRUE]
    BY Zenon
  <2>2. /\ s \in VisitRecord /\ s.pc = r.pc /\ s.answer = r.answer /\ s.err = r.err /\ s.kid = r.kid
        /\ s.canceled /\ s.known = r.known
    BY <2>1 DEF VisitRecord
  <2>3. VisitOK(s)
    BY Zenon, <1>0, <2>2 DEF VisitOK
  <2> QED
    BY Zenon, <1>0, <1>3, <2>1, <2>2, <2>3, VisitAlone DEF VisitCanceled
<1>4. CASE ExchangeCode(v)
  <2>1. CASE visitor[v].canceled
    BY Zenon, <1>4, <2>1, EndsStep DEF ExchangeCode
  <2>2. CASE ~visitor[v].canceled
    <3>1. visitor' = [visitor EXCEPT ![v].pc = "keys", ![v].kid = idp.newest] /\ r.pc # "done"
          /\ UNCHANGED <<idp, instant, held, flight>>
      BY Zenon, <1>0, <1>4, <2>2 DEF ExchangeCode
    <3>2. PICK k : k = idp.newest
      BY Zenon
    <3>3. visitor' = [visitor EXCEPT ![v] = [r EXCEPT !.pc = "keys", !.err = r.err, !.kid = k]]
      BY <1>0, <1>t, <3>1, <3>2 DEF IdpTypes, VisitRecord
    <3> QED
      BY Zenon, <1>0, <3>1, <3>2, <3>3, OnwardStep
  <2> QED
    BY Zenon, <2>1, <2>2
<1>5. CASE VerifyToken(v)
  <2>1. PICK d \in (IF r.op = "callback" THEN IDTokenDefects ELSE VerifierDefects) :
           visitor' = IF d # "none" THEN Ends(v, "refused")
                      ELSE IF r.op = "callback" THEN [visitor EXCEPT ![v].pc = "account"] ELSE Ends(v, "ok")
    BY Zenon, <1>0, <1>5 DEF VerifyToken
  <2>2. UNCHANGED <<idp, instant, held, flight>> /\ r.pc # "done"
    BY Zenon, <1>0, <1>5 DEF VerifyToken
  <2>3. CASE visitor' = [visitor EXCEPT ![v].pc = "account"]
    <3>1. [r EXCEPT !.pc = "account"] = [r EXCEPT !.pc = "account", !.err = r.err, !.kid = r.kid]
      BY DEF VisitRecord
    <3> QED
      BY Zenon, <1>0, <2>2, <2>3, <3>1, OnwardStep
  <2>4. CASE \E a \in {"ok", "refused"} : visitor' = Ends(v, a)
    BY Zenon, <2>2, <2>4, EndsStep
  <2> QED
    BY Zenon, <2>1, <2>3, <2>4
<1>6. CASE ResolveUser(v)
  BY Zenon, <1>6, EndsStep DEF ResolveUser
<1> QED
  BY Zenon, <1>1, <1>2, <1>3, <1>4, <1>5, <1>6

\* A call that a fetch, or its own context, wakes keeps what it saw.
LEMMA WokenOK ==
    ASSUME IdpInv, NEW v \in Visitors, NEW c \in Caches, Waiting(v, c), NEW e \in {"none", "fetch", "canceled"},
           e = "canceled" => visitor[v].canceled
    PROVE  Woken(v, e) \in VisitRecord /\ VisitOK(Woken(v, e))
<1>0. PICK r \in VisitRecord : r = visitor[v] /\ VisitOK(r)
  BY Zenon DEF IdpInv, IdpTypes
<1>1. r.pc \in {"wait keys", "wait discovery"}
  BY Zenon, <1>0 DEF Waiting
<1>2. PICK pc \in {"again keys", "again discovery"} : pc = IF r.pc = "wait keys" THEN "again keys" ELSE "again discovery"
  BY Zenon
<1>3. PICK s : s = [r EXCEPT !.pc = pc, !.err = e]
  BY Zenon
<1>4. /\ s \in VisitRecord /\ s.pc = pc /\ s.answer = r.answer /\ s.err = e /\ s.kid = r.kid
      /\ s.canceled = r.canceled /\ s.known = r.known
  BY <1>3 DEF VisitRecord, VisitPC
<1>5. s.answer = "none"
  BY Zenon, <1>0, <1>1, <1>4 DEF VisitOK
<1>6. VisitOK(s)
  BY Zenon, <1>0, <1>1, <1>2, <1>4, <1>5 DEF VisitOK
<1> QED
  BY Zenon, <1>0, <1>2, <1>3, <1>4, <1>6 DEF Woken

\* The end of a fetch wakes those who wait for it.
LEMMA WakeStep ==
    ASSUME IdpInv, NEW c \in Caches, NEW e \in {"none", "fetch"}, UNCHANGED <<idp, instant>>, CachesMove,
           held' \in [Caches -> [has : BOOLEAN, keys : SUBSET Nat, at : Nat]],
           flight' = [flight EXCEPT ![c] = NoFlight],
           \A k \in held'["keys"].keys : k \in held["keys"].keys \cup flight["keys"].keys,
           c = "keys" \/ held'["keys"] = held["keys"],
           visitor' = [v \in Visitors |-> IF Waiting(v, c) THEN Woken(v, e) ELSE visitor[v]]
    PROVE  IdpInv'
<1>1. IdpTypes /\ KeysOK /\ \A v \in Visitors : VisitOK(visitor[v]) /\ visitor[v] \in VisitRecord
  BY Zenon DEF IdpInv, IdpTypes
<1>2. NoFlight \in [cur : BOOLEAN, leader : SUBSET Visitors, read : {"no", "ok"}, keys : SUBSET Nat]
      /\ NoFlight.read = "no" /\ NoFlight.keys = {}
  BY DEF NoFlight
<1>3. flight \in [Caches -> [cur : BOOLEAN, leader : SUBSET Visitors, read : {"no", "ok"}, keys : SUBSET Nat]]
  BY Zenon, <1>1 DEF IdpTypes
<1>4. /\ flight' \in [Caches -> [cur : BOOLEAN, leader : SUBSET Visitors, read : {"no", "ok"}, keys : SUBSET Nat]]
      /\ IF c = "keys" THEN flight'["keys"].read = "no" /\ flight'["keys"].keys = {} ELSE flight'["keys"] = flight["keys"]
  BY Zenon, <1>2, <1>3 DEF Caches
<1>5. ASSUME NEW v \in Visitors PROVE visitor'[v] \in VisitRecord /\ VisitOK(visitor'[v])
  <2>1. CASE Waiting(v, c)
    BY Zenon, <2>1, WokenOK
  <2>2. CASE ~Waiting(v, c)
    BY Zenon, <1>1, <2>2
  <2> QED
    BY Zenon, <2>1, <2>2
<1>6. visitor' \in [Visitors -> VisitRecord]
  <2>1. \A v \in Visitors : (IF Waiting(v, c) THEN Woken(v, e) ELSE visitor[v]) \in VisitRecord
    BY Zenon, <1>5
  <2> QED
    BY Zenon, <2>1
<1>7. IdpTypes'
  BY Zenon, <1>1, <1>4, <1>6 DEF IdpTypes
<1>8. KeysOK'
  BY Zenon, <1>1, <1>4 DEF KeysOK
<1>9. ASSUME NEW v \in Visitors PROVE VisitOK(visitor[v])'
  <2>1. PICK r \in VisitRecord : r = visitor'[v] /\ VisitOK(r)
    BY Zenon, <1>5
  <2>2. VisitOK(r)'
    BY Zenon, <2>1, SeenStays
  <2> QED
    BY Zenon, <2>1, <2>2 DEF VisitOK
<1> QED
  BY Zenon, <1>7, <1>8, <1>9 DEF IdpInv

\* A fetch is answered, and is stored or fails.
LEMMA FlightKeeps ==
    ASSUME IdpInv, NEW c \in Caches, FlightReads(c) \/ FlightFails(c) \/ FlightEnds(c)
    PROVE  IdpInv'
<1>0. IdpTypes /\ KeysOK /\ \A v \in Visitors : VisitOK(visitor[v])
  BY Zenon DEF IdpInv
<1>t. /\ held \in [Caches -> [has : BOOLEAN, keys : SUBSET Nat, at : Nat]] /\ instant \in Nat
      /\ flight \in [Caches -> [cur : BOOLEAN, leader : SUBSET Visitors, read : {"no", "ok"}, keys : SUBSET Nat]]
  BY Zenon, <1>0 DEF IdpTypes
<1>f. PICK f \in [cur : BOOLEAN, leader : SUBSET Visitors, read : {"no", "ok"}, keys : SUBSET Nat] : f = flight[c]
  BY Zenon, <1>t
<1>k. idp.keys \in SUBSET Nat /\ f.keys \in SUBSET Nat
  BY <1>0 DEF IdpTypes
<1>1. CASE FlightReads(c)
  <2>1. PICK K \in SUBSET Nat : K = IF c = "keys" THEN idp.keys ELSE {}
    BY Zenon, <1>k
  <2>2. PICK g : g = [f EXCEPT !.read = "ok", !.keys = K]
    BY Zenon
  <2>3. g \in [cur : BOOLEAN, leader : SUBSET Visitors, read : {"no", "ok"}, keys : SUBSET Nat] /\ g.keys = K
    BY <2>2
  <2>4. flight' = [flight EXCEPT ![c] = g] /\ UNCHANGED <<idp, instant, held, visitor>>
    BY <1>1, <1>t, <1>f, <2>1, <2>2 DEF FlightReads
  <2>5. /\ flight' \in [Caches -> [cur : BOOLEAN, leader : SUBSET Visitors, read : {"no", "ok"}, keys : SUBSET Nat]]
        /\ IF c = "keys" THEN flight'["keys"].keys = idp.keys ELSE flight'["keys"] = flight["keys"]
    BY Zenon, <1>t, <2>1, <2>3, <2>4 DEF Caches
  <2>6. KeysOK'
    BY Zenon, <1>0, <2>4, <2>5 DEF KeysOK
  <2>7. IdpTypes'
    BY Zenon, <1>0, <2>4, <2>5 DEF IdpTypes
  <2> QED
    BY Zenon, <1>0, <2>4, <2>6, <2>7 DEF IdpInv, VisitOK
<1>2. CASE FlightFails(c)
  <2>1. CachesMove
    BY Zenon, <1>2 DEF FlightFails, CachesMove
  <2> QED
    BY Zenon, <1>2, <1>t, <2>1, WakeStep DEF FlightFails
<1>3. CASE FlightEnds(c)
  <2>1. PICK h \in [has : BOOLEAN, keys : SUBSET Nat, at : Nat] : h = [has |-> TRUE, keys |-> f.keys, at |-> instant]
    BY Zenon, <1>k, <1>t
  <2>2. h.has /\ h.keys = f.keys
    BY Zenon, <2>1
  <2>3. held' = [held EXCEPT ![c] = h] /\ UNCHANGED <<idp, instant>> /\ f.read = "ok"
    BY Zenon, <1>3, <1>f, <2>1 DEF FlightEnds
  <2>4. /\ held' \in [Caches -> [has : BOOLEAN, keys : SUBSET Nat, at : Nat]] /\ held'[c] = h
        /\ \A d \in Caches \ {c} : held'[d] = held[d]
    BY Zenon, <1>t, <2>3
  <2>5. c = "keys" \/ held'["keys"] = held["keys"]
    BY Zenon, <2>4 DEF Caches
  <2>6. \A k \in held'["keys"].keys : k \in held["keys"].keys \cup flight["keys"].keys
    BY Zenon, <1>f, <2>2, <2>4, <2>5
  <2>7. \A k \in held["keys"].keys : k \in held'["keys"].keys \/ k \notin idp'.keys
    BY Zenon, <1>0, <1>f, <2>2, <2>3, <2>4, <2>5 DEF KeysOK
  <2>8. \A d \in Caches : held[d].has => held'[d].has
    BY Zenon, <2>2, <2>4
  <2>9. CachesMove
    BY Zenon, <2>3, <2>7, <2>8 DEF CachesMove
  <2> QED
    BY Zenon, <1>3, <2>3, <2>4, <2>5, <2>6, <2>9, WakeStep DEF FlightEnds
<1> QED
  BY Zenon, <1>1, <1>2, <1>3

\* The provider publishes and retires keys, and time passes.
LEMMA ProviderKeeps ==
    ASSUME IdpInv, PublishKey \/ RetireKey \/ IdpTick \/ UNCHANGED idpVars
    PROVE  IdpInv'
<1>0. IdpTypes /\ KeysOK /\ \A v \in Visitors : VisitOK(visitor[v]) /\ visitor[v] \in VisitRecord
  BY Zenon DEF IdpInv, IdpTypes
<1>1. ASSUME UNCHANGED <<held, flight, visitor>>, IdpTypes', KeysOK', CachesMove PROVE IdpInv'
  <2>1. ASSUME NEW v \in Visitors PROVE VisitOK(visitor[v])'
    <3>1. PICK r \in VisitRecord : r = visitor'[v] /\ VisitOK(r)
      BY Zenon, <1>0, <1>1
    <3>2. VisitOK(r)'
      BY Zenon, <1>1, <3>1, SeenStays
    <3> QED
      BY Zenon, <3>1, <3>2 DEF VisitOK
  <2> QED
    BY Zenon, <1>1, <2>1 DEF IdpInv
<1>2. PICK n \in Nat : n = idp.newest
  BY <1>0 DEF IdpTypes
<1>3. PICK K \in SUBSET Nat : K = idp.keys
  BY <1>0 DEF IdpTypes
<1>4. "keys" \in Caches /\ held["keys"].keys \in SUBSET Nat /\ flight["keys"].keys \in SUBSET Nat
  <2>1. "keys" \in Caches
    BY DEF Caches
  <2>2. PICK h \in [has : BOOLEAN, keys : SUBSET Nat, at : Nat] : h = held["keys"]
    BY Zenon, <1>0, <2>1 DEF IdpTypes
  <2>3. PICK f \in [cur : BOOLEAN, leader : SUBSET Visitors, read : {"no", "ok"}, keys : SUBSET Nat] : f = flight["keys"]
    BY Zenon, <1>0, <2>1 DEF IdpTypes
  <2>4. h.keys \in SUBSET Nat
    OBVIOUS
  <2>5. f.keys \in SUBSET Nat
    OBVIOUS
  <2> QED
    BY Zenon, <2>1, <2>2, <2>3, <2>4, <2>5
<1>5. CASE PublishKey
  <2>1. idp' = [keys |-> K \cup {n + 1}, newest |-> n + 1] /\ UNCHANGED <<instant, held, flight, visitor>>
    BY Zenon, <1>2, <1>3, <1>5 DEF PublishKey
  <2>2. PICK m \in Nat : m = n + 1
    OBVIOUS
  <2>3. m <= m /\ \A i \in Nat : i <= n => i <= m /\ i # m
    BY <2>2
  <2>4. idp'.keys = K \cup {m} /\ idp'.newest = m /\ idp' \in [keys : SUBSET Nat, newest : Nat]
    BY Zenon, <2>1, <2>2
  <2>5. IdpTypes'
    BY Zenon, <1>0, <2>1, <2>4 DEF IdpTypes
  <2>6. \A k \in K \cup held["keys"].keys \cup flight["keys"].keys : k <= n /\ k \in Nat
    BY Zenon, <1>0, <1>2, <1>3, <1>4 DEF KeysOK
  <2>7. KeysOK'
    <3>0. idp'.newest \in idp'.keys
      BY Zenon, <2>4
    <3>1. \A k \in idp'.keys \cup held'["keys"].keys \cup flight'["keys"].keys : k <= idp'.newest
      BY Zenon, <2>1, <2>3, <2>4, <2>6
    <3>2. held["keys"].keys \cap idp'.keys \subseteq held["keys"].keys \cap idp.keys
      BY Zenon, <1>3, <2>3, <2>4, <2>6
    <3> QED
      BY Zenon, <1>0, <2>1, <3>0, <3>1, <3>2 DEF KeysOK
  <2>8. CachesMove
    <3>1. \A k \in held["keys"].keys : k \in held'["keys"].keys
      BY Zenon, <2>1
    <3>2. \A i \in Nat : i <= idp.newest => i <= idp'.newest /\ (i \notin idp.keys => i \notin idp'.keys)
      BY Zenon, <1>2, <1>3, <2>3, <2>4
    <3> QED
      BY Zenon, <2>1, <3>1, <3>2 DEF CachesMove
  <2> QED
    BY Zenon, <1>1, <2>1, <2>5, <2>7, <2>8
<1>6. CASE RetireKey
  <2>1. idp' = [idp EXCEPT !.keys = {n}] /\ UNCHANGED <<instant, held, flight, visitor>>
    BY Zenon, <1>2, <1>6 DEF RetireKey
  <2>2. idp'.keys = {n} /\ idp'.newest = n /\ idp' \in [keys : SUBSET Nat, newest : Nat]
    BY <1>0, <1>2, <2>1 DEF IdpTypes
  <2>3. n \in K /\ {n} \subseteq K
    BY Zenon, <1>0, <1>2, <1>3 DEF KeysOK
  <2>4. IdpTypes'
    BY Zenon, <1>0, <2>1, <2>2 DEF IdpTypes
  <2>5. KeysOK'
    BY Zenon, <1>0, <1>2, <1>3, <2>1, <2>2, <2>3 DEF KeysOK
  <2>6. CachesMove
    BY Zenon, <1>2, <1>3, <2>1, <2>2, <2>3 DEF CachesMove
  <2> QED
    BY Zenon, <1>1, <2>1, <2>4, <2>5, <2>6
<1>7. CASE IdpTick \/ UNCHANGED idpVars
  <2>1. UNCHANGED <<idp, held, flight, visitor>>
    BY Zenon, <1>7 DEF IdpTick, idpVars
  <2>2. instant' \in Nat
    BY <1>0, <1>7 DEF IdpTick, idpVars, IdpTypes
  <2>3. IdpTypes' /\ KeysOK' /\ CachesMove
    BY Zenon, <1>0, <2>1, <2>2 DEF IdpTypes, KeysOK, CachesMove
  <2> QED
    BY Zenon, <1>1, <2>1, <2>3
<1> QED
  BY Zenon, <1>5, <1>6, <1>7

\* The context of a call that waits ends: it leaves the fetch to the others.
LEMMA LeaveKeeps ==
    ASSUME IdpInv, NEW v \in Visitors, NEW c \in Caches, LeaveFlight(v, c)
    PROVE  IdpInv'
  BY Zenon, WokenOK, VisitAlone DEF LeaveFlight

LEMMA IdpStep == IdpInv /\ [IdpNext]_idpVars => IdpInv'
<1> SUFFICES ASSUME IdpInv, [IdpNext]_idpVars PROVE IdpInv'
  OBVIOUS
<1> QED
  BY Zenon, CallsKeep, LookUpKeeps, LookAgainKeeps, LeaveKeeps, FlightKeeps, ProviderKeeps DEF IdpNext

\* However many calls share a fetch, none is told that its context ended because
\* another's did, and an outage of the provider fails none of those whose answer
\* the cache held and the provider still stands by.
THEOREM FetchesShareFairly == IdpSpec => []SharedFetchFair
<1>1. IdpInv => SharedFetchFair
  BY Zenon DEF IdpInv, VisitOK, SharedFetchFair
<1> QED
  BY IdpStarts, IdpStep, <1>1, PTL DEF IdpSpec
=============================================================================
