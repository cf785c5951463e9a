------------------------------ MODULE Sessions ------------------------------
(***************************************************************************)
(* The login, refresh, validation and logout of iam/core over the session  *)
(* store.  A call runs on a goroutine of any instance; between two of its  *)
(* store commands other calls run.  One user, whose tokens may be          *)
(* presented any number of times, by several calls at once.                *)
(*                                                                         *)
(* The user and tenant ports are the program's: what they answer (inactive *)
(* user, denied tenant, failed lookup) is a choice.  Token signatures and  *)
(* the hash of the refresh token are taken as genuine.                     *)
(***************************************************************************)
EXTENDS SessionStore, TLC

CONSTANTS
    Call,       \* the goroutines that call the service
    Ticket,     \* the tenant tickets: rand.Text
    RefreshTTL, MaxLifetime,    \* refreshTokenTTL, sessionMaxLifetime
    TicketTTL,                  \* tenantTicketTTL
    CallTime,   \* no call takes longer than this
    MaxTime, MaxFailures, MaxCalls      \* bounds of the model

ASSUME SessionsAssumption ==
    /\ IsFiniteSet(Call)
    /\ RefreshTTL \in Nat \ {0} /\ MaxLifetime \in Nat \ {0} /\ TicketTTL \in Nat
    /\ CallTime \in Nat /\ MaxTime \in Nat /\ MaxFailures \in Nat /\ MaxCalls \in Nat

\* A call that found its ticket valid comes to Consume while the store still
\* remembers the ticket: within the minute it is kept past its expiry.
ASSUME SlackAssumption == CallTime < Slack

VARIABLES
    ticket,     \* exp: 0 until issued; seen: Consume remembers it until then; uses: history
    call,       \* what each call is doing
    issued,     \* the sessions whose tokens a caller holds
    failures,   \* store commands that failed so far
    calls,      \* calls made so far
    heirs,      \* history: for each session, how many were issued by refreshing it
    out,        \* history: the sessions Logout returned nil for
    outTime,    \* history: the latest cut-off of a LogoutAll that returned nil
    overtaken,  \* history: a cut-off was overwritten by an earlier one
    revived     \* history: a call that began after a logout accepted or renewed the session

coreVars == <<ticket, call, issued, failures, calls, heirs, out, outTime, overtaken, revived>>
vars == <<store, now, storeVars, coreVars>>
history == <<heirs, out, outTime, overtaken, revived>>

Pc == {"idle", "consume", "stamp", "save", "get", "refreshCutoff",
       "rotate", "check", "checkCutoff", "setCutoff", "members", "each", "prune", "listed"}

\* sid: the session it is about; from: the session being rotated, 0 for a login;
\* time, exp: of the session to save, or the cut-off; ids, stale: of the index walk;
\* all: a LogoutAll; failed: some revocation failed; dead: it began after a logout.
Idle == [pc |-> "idle", began |-> 0, sid |-> 0, tk |-> 0, from |-> 0, time |-> 0, exp |-> 0,
         ids |-> {}, stale |-> {}, all |-> FALSE, failed |-> FALSE, dead |-> FALSE]

Tickets == [exp : Nat, seen : Nat, uses : Nat]

\* Every variable has its type.
TypeOK ==
    /\ StoreTypeOK
    /\ ticket \in [Ticket -> Tickets]
    /\ \A p \in Call :
         /\ call[p].pc \in Pc /\ call[p].sid \in Sid \cup {0} /\ call[p].from \in Sid \cup {0}
         /\ call[p].ids \subseteq Sid /\ call[p].stale \subseteq Sid
         /\ call[p].time \in Nat /\ call[p].exp \in Nat
    /\ issued \subseteq Sid
    /\ failures \in 0 .. MaxFailures /\ calls \in 0 .. MaxCalls
    /\ heirs \in [Sid -> Nat]
    /\ out \subseteq Sid /\ outTime \in Nat /\ overtaken \in BOOLEAN /\ revived \in BOOLEAN

Init ==
    /\ StoreInit
    /\ ticket = [t \in Ticket |-> [exp |-> 0, seen |-> 0, uses |-> 0]]
    /\ call = [p \in Call |-> Idle]
    /\ issued = {} /\ failures = 0 /\ calls = 0
    /\ heirs = [s \in Sid |-> 0] /\ out = {} /\ outTime = 0 /\ overtaken = FALSE /\ revived = FALSE

-----------------------------------------------------------------------------
Free(p) == call[p].pc = "idle"
Called(p) == Free(p) /\ calls < MaxCalls /\ calls' = calls + 1
At(p, pc) == call[p].pc = pc
Returns(p) == call' = [call EXCEPT ![p] = Idle]
Goes(p, pc) == call' = [call EXCEPT ![p].pc = pc]

\* The session was logged out, alone or with all the others of the user.
LoggedOut(s) == s \in out \/ sess[s].auth <= outTime

Begins(p, pc, s) ==
    /\ Called(p)
    /\ call' = [call EXCEPT ![p] = [Idle EXCEPT !.pc = pc, !.began = now, !.sid = s,
                                                !.dead = s \in Sid /\ LoggedOut(s)]]

\* A command to Redis fails, before or after it was executed.
Fails ==
    /\ store = "redis" /\ failures < MaxFailures
    /\ failures' = failures + 1

Works == UNCHANGED failures

\* sessionExpiry
SessionExpiry(time, auth) ==
    IF auth + MaxLifetime < time + RefreshTTL THEN auth + MaxLifetime ELSE time + RefreshTTL

\* Variant: a login at the time of the cut-off passes.
CutOffBefore(s) == cutoff # 0 /\ sess[s].auth < cutoff

\* checkUserCutoff
CutOff(s) == cutoff # 0 /\ sess[s].auth <= cutoff

-----------------------------------------------------------------------------
\* Authenticate, once the password matched: issueTenantTicket.
Authenticate(t) ==
    /\ ticket[t].exp = 0
    /\ ticket' = [ticket EXCEPT ![t].exp = now + TicketTTL]
    /\ UNCHANGED <<store, now, calls, storeVars, call, issued, failures, history>>

\* selectTenant up to AssertAccess, which may deny (then nothing happens).
SelectTenant(p, t) ==
    /\ Called(p)
    /\ ticket[t].exp # 0 /\ now <= ticket[t].exp
    /\ call' = [call EXCEPT ![p] = [Idle EXCEPT !.pc = "consume", !.began = now, !.tk = t]]
    /\ UNCHANGED <<store, now, storeVars, ticket, issued, failures, history>>

\* How long Consume remembers a ticket.
SeenUntil(t) == ticket[t].exp + Slack

\* consumeTicket and ListUserTenants.
ConsumeTicket(p) ==
    /\ At(p, "consume")
    /\ LET t == call[p].tk
           first == now >= ticket[t].seen
           consumed == [ticket EXCEPT ![t].seen = SeenUntil(t)]
       IN  \/ /\ first /\ Works
              /\ \/ /\ Goes(p, "stamp")
                    /\ ticket' = [consumed EXCEPT ![t].uses = @ + 1]
                 \/ Returns(p) /\ ticket' = consumed    \* ListUserTenants failed
           \/ ~first /\ Works /\ Returns(p) /\ UNCHANGED ticket
           \/ Fails /\ Returns(p) /\ (UNCHANGED ticket \/ (first /\ ticket' = consumed))
    /\ UNCHANGED <<store, now, calls, storeVars, issued, history>>

\* The time of the login: when the tenant is selected, or the AuthTime of the
\* input, here when the ticket was issued.  A rotated session keeps it.
AuthTimes(p) ==
    IF call[p].from = 0 THEN {now, ticket[call[p].tk].exp - TicketTTL} ELSE {sess[call[p].from].auth}

\* The end of selectTenant, or of RefreshToken, up to Save.
Stamp(p) ==
    /\ At(p, "stamp")
    /\ \E auth \in AuthTimes(p) :
         IF call[p].from = 0 /\ SessionExpiry(now, auth) <= now
         THEN Returns(p)
         ELSE call' = [call EXCEPT ![p].pc = "save", ![p].tk = 0, ![p].time = auth,
                                   ![p].exp = SessionExpiry(now, auth)]
    /\ UNCHANGED <<store, now, calls, storeVars, ticket, issued, failures, history>>

\* Ids no session and no entry of the index ever had.
Fresh == {s \in Sid : sess[s] = NoSession}

\* The end of issue: Save under a new id.
Issue(p) ==
    /\ At(p, "save")
    /\ LET c == call[p]
       IN  \E s \in Fresh :
             /\ \A u \in Fresh : s <= u
             /\ \/ /\ store = "memory" \/ now < c.exp
                   /\ Works
                   /\ Save(s, c.time, c.exp, {"session", "index"})
                   /\ issued' = issued \cup {s}
                   /\ heirs' = IF c.from = 0 THEN heirs ELSE [heirs EXCEPT ![c.from] = @ + 1]
                   /\ revived' = (revived \/ c.dead)
                   /\ Returns(p)
                \/ /\ store = "redis" /\ now >= c.exp       \* already expired
                   /\ Works /\ Returns(p)
                   /\ UNCHANGED <<storeVars, issued, heirs, revived>>
                \/ /\ Fails /\ now < c.exp
                   /\ \E done \in SUBSET {"session", "index"} : Save(s, c.time, c.exp, done)
                   /\ Returns(p)
                   /\ UNCHANGED <<issued, heirs, revived>>
    /\ UNCHANGED <<store, now, calls, ticket, out, outTime, overtaken>>
-----------------------------------------------------------------------------
RefreshToken(p, s) ==
    /\ s \in issued
    /\ Begins(p, "get", s)
    /\ UNCHANGED <<store, now, storeVars, ticket, issued, failures, history>>

\* refreshable up to checkUserCutoff.  A session already revoked means the token
\* was used before: revokeAllOnReuse.
Refreshable(p) ==
    /\ At(p, "get")
    /\ LET s == call[p].sid
           live == now <= sess[s].exp /\ SessionExpiry(now, sess[s].auth) > now
       IN  \/ /\ Works
              /\ GetEffect(s)
              /\ \/ Found(s) /\ sess[s].st = "revoked" /\ Goes(p, "setCutoff")
                 \/ Found(s) /\ sess[s].st = "active" /\ live /\ Goes(p, "refreshCutoff")
                 \/ ~Found(s) /\ Returns(p)
                 \/ Found(s) /\ sess[s].st = "active" /\ ~live /\ Returns(p)
           \/ Fails /\ Returns(p) /\ UNCHANGED storeVars
    /\ UNCHANGED <<store, now, calls, ticket, issued, history>>

RefreshCutoff(p) ==
    /\ At(p, "refreshCutoff")
    /\ \/ Works /\ IF CutOff(call[p].sid) THEN Returns(p) ELSE Goes(p, "rotate")
       \/ Fails /\ Returns(p)
    /\ UNCHANGED <<store, now, calls, storeVars, ticket, issued, history>>

\* Variant: Revoke instead of RevokeIfActive.
RotatesAnyway(p) ==
    /\ At(p, "rotate")
    /\ Works
    /\ Revoke({call[p].sid})
    /\ call' = [call EXCEPT ![p].pc = "stamp", ![p].sid = 0, ![p].from = call[p].sid]
    /\ UNCHANGED <<store, now, calls, ticket, issued, history>>

\* revalidate and ListUserTenants, then revokeForRotation (RevokeIfActive: WATCH
\* makes the read and the write one step, and a concurrent writer is the winner).
Rotate(p) ==
    /\ At(p, "rotate")
    /\ LET s == call[p].sid
       IN  \/ /\ Stored(s) /\ sess[s].st = "active" /\ Works
              /\ Revoke({s})
              /\ call' = [call EXCEPT ![p].pc = "stamp", ![p].sid = 0, ![p].from = s]
           \/ ~(Stored(s) /\ sess[s].st = "active") /\ Works /\ Returns(p) /\ UNCHANGED storeVars
           \/ Works /\ Returns(p) /\ Revoke({s})                    \* the user is inactive
           \/ Works /\ Returns(p) /\ UNCHANGED storeVars            \* access denied, or a port failed
           \/ Fails /\ Returns(p) /\ (Revoke({s}) \/ UNCHANGED storeVars)
    /\ UNCHANGED <<store, now, calls, ticket, issued, history>>

-----------------------------------------------------------------------------
ValidateToken(p, s) ==
    /\ s \in issued
    /\ Begins(p, "check", s)
    /\ UNCHANGED <<store, now, storeVars, ticket, issued, failures, history>>

CheckSession(p) ==
    /\ At(p, "check")
    /\ LET s == call[p].sid
           good == Found(s) /\ sess[s].st = "active" /\ now <= sess[s].exp
       IN  \/ Works /\ GetEffect(s) /\ IF good THEN Goes(p, "checkCutoff") ELSE Returns(p)
           \/ Fails /\ Returns(p) /\ UNCHANGED storeVars
    /\ UNCHANGED <<store, now, calls, ticket, issued, history>>

CheckUserCutoff(p) ==
    /\ At(p, "checkCutoff")
    /\ \/ /\ Works
          /\ revived' = (revived \/ (~CutOff(call[p].sid) /\ call[p].dead))
       \/ Fails /\ UNCHANGED revived
    /\ Returns(p)
    /\ UNCHANGED <<store, now, calls, storeVars, ticket, issued, heirs, out, outTime, overtaken>>

-----------------------------------------------------------------------------
\* Logout: Revoke.
Logout(p, s) ==
    /\ s \in issued /\ Called(p)
    /\ \/ /\ Stored(s) /\ Works
          /\ Revoke({s})
          /\ out' = out \cup {s}
       \/ ~Stored(s) /\ Works /\ UNCHANGED <<storeVars, out>>
       \/ Fails /\ (Revoke({s}) \/ UNCHANGED storeVars) /\ UNCHANGED out
    /\ Returns(p)
    /\ UNCHANGED <<store, now, ticket, issued, heirs, outTime, overtaken, revived>>

\* LogoutAll calls RevokeAllForUser, which reads the clock first.
LogoutAll(p) ==
    /\ Called(p)
    /\ call' = [call EXCEPT ![p] = [Idle EXCEPT !.pc = "setCutoff", !.began = now, !.all = TRUE]]
    /\ UNCHANGED <<store, now, storeVars, ticket, issued, failures, history>>

\* The clock is read ...
ReadsClock(p) ==
    /\ At(p, "setCutoff") /\ store = "redis" /\ call[p].time = 0
    /\ call' = [call EXCEPT ![p].time = now]
    /\ UNCHANGED <<store, now, calls, storeVars, ticket, issued, failures, history>>

\* ... and written as the cut-off.
RecordCutoff(p) ==
    /\ At(p, "setCutoff") /\ store = "redis" /\ call[p].time # 0
    /\ LET t == call[p].time
       IN  \/ /\ Works
              /\ SetCutoff(t)
              /\ overtaken' = (overtaken \/ t < cutoff)
              /\ Goes(p, "members")
           \/ /\ Fails /\ Returns(p)
              /\ \/ SetCutoff(t) /\ overtaken' = (overtaken \/ t < cutoff)
                 \/ UNCHANGED <<storeVars, overtaken>>
    /\ UNCHANGED <<store, now, calls, ticket, issued, heirs, out, outTime, revived>>

ListMembers(p) ==
    /\ At(p, "members")
    /\ \/ Works /\ call' = [call EXCEPT ![p].pc = IF Indexed = {} THEN "prune" ELSE "each", ![p].ids = Indexed]
       \/ Fails /\ Returns(p)
    /\ UNCHANGED <<store, now, calls, storeVars, ticket, issued, history>>

\* Revoke of the next id; a failure does not stop the walk.
RevokeNext(p) ==
    /\ At(p, "each")
    /\ \E s \in call[p].ids :
         LET rest == call[p].ids \ {s}
             pc == IF rest = {} THEN "prune" ELSE "each"
         IN  /\ \A u \in call[p].ids : s <= u
             /\ \/ /\ Works /\ Revoke({s})
                   /\ call' = [call EXCEPT ![p].ids = rest, ![p].pc = pc, ![p].stale = @ \cup {s}]
                \/ /\ Fails /\ (Revoke({s}) \/ UNCHANGED storeVars)
                   /\ call' = [call EXCEPT ![p].ids = rest, ![p].pc = pc, ![p].failed = TRUE]
    /\ UNCHANGED <<store, now, calls, ticket, issued, history>>

\* prune, and the result: nil unless something failed.
PruneRevoked(p) ==
    /\ At(p, "prune")
    /\ \/ /\ Works
          /\ Prune(call[p].stale)
          /\ outTime' = IF call[p].all /\ ~call[p].failed THEN Later(outTime, call[p].time) ELSE outTime
       \/ /\ call[p].stale # {}
          /\ Fails /\ (Prune(call[p].stale) \/ UNCHANGED storeVars)
          /\ UNCHANGED outTime
    /\ Returns(p)
    /\ UNCHANGED <<store, now, calls, ticket, issued, heirs, out, overtaken, revived>>

\* RevokeAllForUser of the memory store, under its mutex.
RevokeAllForUser(p) ==
    /\ At(p, "setCutoff") /\ store = "memory"
    /\ RevokeAllInMemory
    /\ outTime' = IF call[p].all THEN now ELSE outTime
    /\ Returns(p)
    /\ UNCHANGED <<store, now, calls, ticket, issued, failures, heirs, out, overtaken, revived>>

-----------------------------------------------------------------------------
\* ListSessions: ListByUser of Redis prunes what it does not list.  (The memory
\* store only reads.)
ListSessions(p) ==
    /\ Called(p) /\ store = "redis"
    /\ \/ Works /\ call' = [call EXCEPT ![p] = [Idle EXCEPT !.pc = "listed", !.began = now, !.ids = Indexed]]
       \/ Fails /\ Returns(p)
    /\ UNCHANGED <<store, now, storeVars, ticket, issued, history>>

PruneListed(p) ==
    /\ At(p, "listed")
    /\ LET stale == {s \in call[p].ids : ~Found(s) \/ sess[s].st = "revoked"}
       IN  \/ Works /\ Prune(stale)
           \/ call[p].ids # {} /\ Fails /\ (Prune(stale) \/ UNCHANGED storeVars)
    /\ Returns(p)
    /\ UNCHANGED <<store, now, calls, ticket, issued, history>>

\* Time passes; no call takes longer than CallTime.
Tick ==
    /\ now < MaxTime
    /\ \A p \in Call : Free(p) \/ now - call[p].began < CallTime
    /\ now' = now + 1
    /\ UNCHANGED <<store, storeVars, coreVars>>

Collect == Gc /\ UNCHANGED coreVars

Step(p) ==
    \/ ConsumeTicket(p) \/ Stamp(p) \/ Issue(p)
    \/ Refreshable(p) \/ RefreshCutoff(p) \/ Rotate(p)
    \/ CheckSession(p) \/ CheckUserCutoff(p)
    \/ ReadsClock(p) \/ RecordCutoff(p) \/ ListMembers(p) \/ RevokeNext(p) \/ PruneRevoked(p)
    \/ RevokeAllForUser(p) \/ PruneListed(p)

Next ==
    \/ \E t \in Ticket : Authenticate(t)
    \/ \E p \in Call : \/ \E t \in Ticket : SelectTenant(p, t)
                       \/ \E s \in Sid : RefreshToken(p, s) \/ ValidateToken(p, s) \/ Logout(p, s)
                       \/ LogoutAll(p) \/ ListSessions(p)
                       \/ Step(p)
    \/ Tick \/ Collect

Spec == Init /\ [][Next]_vars

\* Calls are interchangeable.
Symmetry == Permutations(Call)

-----------------------------------------------------------------------------
\* A refresh token is rotated at most once: however many calls present it at the
\* same time, at most one of them gets a session (RevokeIfActive).
OneRotation == \A s \in Sid : heirs[s] <= 1

\* A ticket opens at most one session, also when it is presented again just
\* before it expires (consumeTicket).
TicketOnce == \A t \in Ticket : ticket[t].uses <= 1

\* Once Logout or LogoutAll has returned nil, no call that begins later accepts
\* or renews a session it covers, not even one that a refresh under way saved
\* afterwards; as long as no RevokeAllForUser that read the clock earlier wrote
\* its cut-off later.
LoggedOutStaysOut == revived => overtaken

\* The same without the exception: "which also rejects sessions a concurrent
\* refresh opens" (redis/session.go).
CutoffRejects == ~revived

\* The token of a rotated session is recognised as used for as long as it would
\* have lived (revokedTTL, gc).
ReuseSeen == \A s \in issued : sess[s].st # "active" /\ now < sess[s].exp => Found(s)

\* What may be used once is used once, and its second use is recognised: a
\* refresh token (RevokeIfActive, revokedTTL) and a tenant ticket
\* (consumeTicket), however the calls that present them interleave.
UsedOnce == TypeOK /\ OneRotation /\ TicketOnce /\ ReuseSeen
=============================================================================
