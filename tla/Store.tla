------------------------------- MODULE Store -------------------------------
(***************************************************************************)
(* The probe server's in-memory store (internal/server/store.go): sessions *)
(* with their observations, reservations of native handshakes, per-address *)
(* rate windows and daily bulk quotas.  Every operation below is one       *)
(* critical section of store.mu and is written as an action fragment: it   *)
(* constrains the primed store variables and nothing else.  The modules    *)
(* that extend this one add the goroutines that call the operations, each  *)
(* with the clock value t that the caller read BEFORE taking the lock.     *)
(*                                                                         *)
(* Data abstraction.  Identifiers that the code draws at random (row and   *)
(* reservation ids) come from the counter freshId.  session.obs of all     *)
(* sessions is the one set obs, each row naming its session.  A map entry  *)
(* that is absent in Go is the zero value here (empty window, day 0).      *)
(***************************************************************************)
EXTENDS Integers, Sequences, FiniteSets

CONSTANTS
    Addrs,       \* client addresses
    RateKeyOf,   \* the address its rate limits are keyed by, [Addrs -> Addrs]
    Sids,        \* session identifiers
    NoSid,       \* a row that names no session
    Tests,       \* test identifiers
    Kinds,       \* parse kinds of native handshakes
    AnyKind,     \* the empty kind: matches every kind
    NoRes,       \* nil *reservation
    Total,       \* the key netip.Addr{} of the server-wide bulk counter
    MaxLiveSessions, MaxSessionObservations, ObsMax,
    SessPerMin, AttPer10Min, BulkPerDay, BulkGlobalPerDay,
    Minute,      \* time.Minute in model ticks
    TenMinutes,  \* the attempt window in model ticks
    Retention,   \* limits.retention_hours in model ticks
    DayLen, YearDays

ASSUME StoreConstants ==
    /\ RateKeyOf \in [Addrs -> Addrs]
    /\ NoSid \notin Sids
    /\ AnyKind \notin Kinds
    /\ Total \notin Addrs
    /\ {MaxLiveSessions, MaxSessionObservations, ObsMax, SessPerMin, AttPer10Min,
        BulkPerDay, BulkGlobalPerDay, Minute, TenMinutes, Retention} \subseteq Nat
    /\ {DayLen, YearDays} \subseteq Nat \ {0}

VARIABLES
    sessions,      \* live and just expired sessions, by id
    obs,           \* the rows of all sessions
    obsCount,      \* store.obsCount, maintained by hand in the code
    drops,         \* rows refused since the last takeDrops
    reservations,  \* pending correlation windows
    sessRate,      \* admission times per rate key, oldest first
    attemptRate,
    bulkUsed,      \* [day, bytes] per rate key and for Total
    freshId        \* next unused random identifier

storeVars == <<sessions, obs, obsCount, drops, reservations,
               sessRate, attemptRate, bulkUsed, freshId>>

Session == [expires : Nat, ip : Addrs, tests : SUBSET Tests]

ZeroDrops == [noSession |-> 0, sessionCap |-> 0, globalCap |-> 0]

NoUse == [day |-> 0, bytes |-> 0]

newStore ==
    /\ sessions = [s \in {} |-> s]
    /\ obs = {}
    /\ obsCount = 0
    /\ drops = ZeroDrops
    /\ reservations = {}
    /\ sessRate = [k \in Addrs |-> <<>>]
    /\ attemptRate = [k \in Addrs |-> <<>>]
    /\ bulkUsed = [k \in Addrs \cup {Total} |-> NoUse]
    /\ freshId = 0

----------------------------------------------------------------------------
(* Rate windows. *)

\* Mutant: an entry exactly as old as the window goes too.
pruneThrough(ts, since) ==
    LET old == {j \in 1..Len(ts) : \A m \in 1..j : ts[m] <= since}
    IN  SubSeq(ts, Cardinality(old) + 1, Len(ts))

\* The leading entries older than since go.
prune(ts, since) ==
    LET old == {j \in 1..Len(ts) : \A m \in 1..j : ts[m] < since}
    IN  SubSeq(ts, Cardinality(old) + 1, Len(ts))

SessWindow(ip, t) == prune(sessRate[RateKeyOf[ip]], t - Minute)

AttemptWindow(ip, t) == prune(attemptRate[RateKeyOf[ip]], t - TenMinutes)

\* Mutant: the cap is compared one too late.
SessionCapPassed == Cardinality(DOMAIN sessions) > MaxLiveSessions

SessionCapReached == Cardinality(DOMAIN sessions) >= MaxLiveSessions

\* The verdict of allowSession ...
SessionAllowed(ip, t) ==
    /\ ~SessionCapReached
    /\ Len(SessWindow(ip, t)) < SessPerMin

\* ... and its effect: at the cap nothing is touched, a full window is still pruned.
allowSession(ip, t) ==
    LET w == SessWindow(ip, t) IN
    /\ sessRate' = IF SessionCapReached THEN sessRate
                   ELSE [sessRate EXCEPT ![RateKeyOf[ip]] =
                            IF Len(w) < SessPerMin THEN Append(w, t) ELSE w]
    /\ UNCHANGED <<sessions, obs, obsCount, drops, reservations,
                   attemptRate, bulkUsed, freshId>>

AttemptAllowed(ip, t) == Len(AttemptWindow(ip, t)) < AttPer10Min

allowAttempt(ip, t) ==
    LET w == AttemptWindow(ip, t) IN
    /\ attemptRate' = [attemptRate EXCEPT ![RateKeyOf[ip]] =
                          IF Len(w) < AttPer10Min THEN Append(w, t) ELSE w]
    /\ UNCHANGED <<sessions, obs, obsCount, drops, reservations,
                   sessRate, bulkUsed, freshId>>

----------------------------------------------------------------------------
(* Daily bulk quotas. *)

YearDay(t) == ((t \div DayLen) % YearDays) + 1

\* The counter of key k as a caller with clock t sees it: another day's is zero.
UseOn(k, t) ==
    IF bulkUsed[k].day = YearDay(t) THEN bulkUsed[k]
    ELSE [day |-> YearDay(t), bytes |-> 0]

\* Mutant: the request itself is not counted.
BulkAllowedBlind(ip, n, t) ==
    /\ BulkPerDay > 0 => UseOn(RateKeyOf[ip], t).bytes <= BulkPerDay
    /\ UseOn(Total, t).bytes <= BulkGlobalPerDay

BulkAllowed(ip, n, t) ==
    /\ BulkPerDay > 0 => UseOn(RateKeyOf[ip], t).bytes + n <= BulkPerDay
    /\ UseOn(Total, t).bytes + n <= BulkGlobalPerDay

consumeBulk(ip, n, t) ==
    LET charged(k) == [UseOn(k, t) EXCEPT !.bytes = @ + n] IN
    /\ bulkUsed' = IF BulkAllowed(ip, n, t)
                   THEN [bulkUsed EXCEPT ![RateKeyOf[ip]] = charged(RateKeyOf[ip]),
                                         ![Total] = charged(Total)]
                   ELSE bulkUsed
    /\ UNCHANGED <<sessions, obs, obsCount, drops, reservations,
                   sessRate, attemptRate, freshId>>

----------------------------------------------------------------------------
(* Sessions. *)

\* An id that is already known keeps its rows: they name the id.
putSession(sid, sess) ==
    /\ sessions' = [s \in DOMAIN sessions \cup {sid} |->
                        IF s = sid THEN sess ELSE sessions[s]]
    /\ UNCHANGED <<obs, obsCount, drops, reservations,
                   sessRate, attemptRate, bulkUsed, freshId>>

\* getSession(sid, t) /= nil
Live(sid, t) == sid \in DOMAIN sessions /\ t <= sessions[sid].expires

----------------------------------------------------------------------------
(* Reservations. *)

reserve(r) ==
    /\ reservations' = reservations \cup {r}
    /\ freshId' = freshId + 1
    /\ UNCHANGED <<sessions, obs, obsCount, drops, sessRate, attemptRate, bulkUsed>>

Fits(r, ip, ep, kind, t) ==
    /\ ~r.used
    /\ t <= r.expires
    /\ r.ip = ip
    /\ r.ep = ep
    /\ r.kind = AnyKind \/ kind = AnyKind \/ r.kind = kind

\* The latest expiry wins; the first reserved of equally late ones.
findReservation(ip, ep, kind, t) ==
    LET fit == {r \in reservations : Fits(r, ip, ep, kind, t)} IN
    IF fit = {} THEN NoRes
    ELSE CHOOSE r \in fit :
            \A q \in fit : \/ r.expires > q.expires
                           \/ r.expires = q.expires /\ r.id <= q.id

\* Mutant: the reservation found stays open.
consumeNothing(r) == UNCHANGED storeVars

\* matchReservation: found, and consumed unless it is nil.
consume(r) ==
    /\ reservations' = IF r = NoRes THEN reservations
                       ELSE (reservations \ {r}) \cup {[r EXCEPT !.used = TRUE]}
    /\ UNCHANGED <<sessions, obs, obsCount, drops, sessRate, attemptRate, bulkUsed, freshId>>

----------------------------------------------------------------------------
(* Observations. *)

RowsOf(sid) == {o \in obs : o.sid = sid}

\* Mutant: the session's ceiling is compared one too late.
VerdictCapOffByOne(o, t) ==
    IF ~Live(o.sid, t) THEN "noSession"
    ELSE IF Cardinality(RowsOf(o.sid)) > MaxSessionObservations THEN "sessionCap"
    ELSE IF obsCount > ObsMax THEN "globalCap"
    ELSE "kept"

\* Why addObservation refuses a row, or "kept".
Verdict(o, t) ==
    IF ~Live(o.sid, t) THEN "noSession"
    ELSE IF Cardinality(RowsOf(o.sid)) >= MaxSessionObservations THEN "sessionCap"
    ELSE IF obsCount >= ObsMax THEN "globalCap"
    ELSE "kept"

\* Mutant: a row without a session is refused and not counted.
addObservationSilent(o, t) ==
    LET v == Verdict(o, t) IN
    /\ freshId' = freshId + 1
    /\ obs' = IF v = "kept" THEN obs \cup {o} ELSE obs
    /\ obsCount' = IF v = "kept" THEN obsCount + 1 ELSE obsCount
    /\ drops' = IF v \in {"kept", "noSession"} THEN drops ELSE [drops EXCEPT ![v] = @ + 1]
    /\ UNCHANGED <<sessions, reservations, sessRate, attemptRate, bulkUsed>>

\* Mutant: at the session's ceiling the new row takes the place of a stored one.
addObservationEvicting(o, t) ==
    LET v == Verdict(o, t) IN
    /\ freshId' = freshId + 1
    /\ obs' = IF v = "kept" THEN obs \cup {o}
              ELSE IF v = "sessionCap"
              THEN (obs \ {CHOOSE q \in RowsOf(o.sid) : TRUE}) \cup {o}
              ELSE obs
    /\ obsCount' = IF v = "kept" THEN obsCount + 1 ELSE obsCount
    /\ drops' = IF v = "kept" THEN drops ELSE [drops EXCEPT ![v] = @ + 1]
    /\ UNCHANGED <<sessions, reservations, sessRate, attemptRate, bulkUsed>>

addObservationAt(o, t) ==
    LET v == Verdict(o, t) IN
    /\ freshId' = freshId + 1
    /\ IF v = "kept"
       THEN /\ obs' = obs \cup {o}
            /\ obsCount' = obsCount + 1
            /\ UNCHANGED drops
       ELSE /\ drops' = [drops EXCEPT ![v] = @ + 1]
            /\ UNCHANGED <<obs, obsCount>>
    /\ UNCHANGED <<sessions, reservations, sessRate, attemptRate, bulkUsed>>

takeDrops ==
    /\ drops' = ZeroDrops
    /\ UNCHANGED <<sessions, obs, obsCount, reservations,
                   sessRate, attemptRate, bulkUsed, freshId>>

----------------------------------------------------------------------------
(* Garbage collection, once a minute. *)

\* Mutant: a session that still holds rows is never freed.
DeadSessionsEmpty(t) ==
    {s \in DOMAIN sessions : t > sessions[s].expires + Minute /\ RowsOf(s) = {}}

DeadSessions(t) == {s \in DOMAIN sessions : t > sessions[s].expires + Minute}

\* Rows freed with their session, and rows past retention.
DeadRows(t) == {o \in obs : o.sid \in DeadSessions(t) \/ t - o.first >= Retention}

LiveReservation(r, t) == ~r.used /\ t < r.expires + Minute

gc(t) ==
    /\ sessions' = [s \in DOMAIN sessions \ DeadSessions(t) |-> sessions[s]]
    /\ obs' = obs \ DeadRows(t)
    /\ obsCount' = obsCount - Cardinality(DeadRows(t))
    /\ sessRate' = [k \in Addrs |->
            IF prune(sessRate[k], t - Minute) = <<>> THEN <<>> ELSE sessRate[k]]
    /\ attemptRate' = [k \in Addrs |->
            IF prune(attemptRate[k], t - TenMinutes) = <<>> THEN <<>> ELSE attemptRate[k]]
    /\ bulkUsed' = [k \in Addrs \cup {Total} |->
            IF bulkUsed[k].day = YearDay(t) THEN bulkUsed[k] ELSE NoUse]
    /\ reservations' = {r \in reservations : LiveReservation(r, t)}
    /\ UNCHANGED <<drops, freshId>>
=============================================================================
