------------------------------- MODULE Quotas -------------------------------
(***************************************************************************)
(* Rate limits and bulk quotas under concurrency.  A caller is one         *)
(* goroutine that reads the clock and then takes store.mu:                 *)
(*   POST /v1/session    control.go handleSession, allowSession;           *)
(*   POST /v1/attempt    control.go handleAttempt, allowAttempt;           *)
(*   tcp.bulk requests   bulk.go tcpBulk, consumeBulk(ip, n, time.Now()).  *)
(* Between the clock reading and the lock other callers, the gc and        *)
(* midnight may pass; MaxStall bounds that gap.  Granted calls are logged  *)
(* in real time and in bytes per day, to be compared with the limits.      *)
(***************************************************************************)
EXTENDS Store

CONSTANTS
    Callers,
    Loads,       \* what a behaviour is about: the calls made, by which addresses,
                 \* and when the server boots
    Sizes,       \* sizes of bulk requests explored
    MaxRequest,  \* bulkMaxChunk, bulkMaxDownload
    MaxStall,    \* longest gap between the clock reading and the lock
    MaxTime      \* model bound: ticks explored

CallNames == {"session", "attempt", "up", "down"}

ASSUME QuotasConstants ==
    /\ Loads \subseteq [calls : SUBSET CallNames, addrs : SUBSET Addrs, boot : 0..MaxTime]
    /\ Sizes \subseteq Nat
    /\ {MaxRequest, MaxStall, MaxTime} \subseteq Nat
    /\ IsFiniteSet(Callers)

VARIABLES
    load,     \* one of Loads, the same throughout
    now,
    caller,   \* what each goroutine is about to ask the store
    granted,  \* times of the granted calls per window and rate key
    carried,  \* bytes granted per rate key and day of the caller's clock
    late      \* bulk grants whose clock reading was from a day before

quotaVars == <<storeVars, load, now, caller, granted, carried, late>>

Keys == Addrs \cup {Total}

DayOf(t) == t \div DayLen

Idle == [pc |-> "idle"]

Init ==
    /\ newStore
    /\ load \in Loads
    /\ now = load.boot
    /\ caller = [c \in Callers |-> Idle]
    /\ granted = [w \in {"session", "attempt"} |-> [k \in Addrs |-> <<>>]]
    /\ carried = [k \in Keys |-> [d \in 0..DayOf(MaxTime) |-> 0]]
    /\ late = 0

\* The request is read and the clock with it.
Ask(c, call, ip, n) ==
    /\ caller[c] = Idle
    /\ call \in load.calls /\ ip \in load.addrs
    /\ call \in {"session", "attempt"} => n = 0
    /\ caller' = [caller EXCEPT ![c] =
                    [pc |-> "asking", call |-> call, ip |-> ip, n |-> n, at |-> now]]
    /\ UNCHANGED <<storeVars, load, now, granted, carried, late>>

Log(window, ip, allowed) ==
    granted' = IF allowed
               THEN [granted EXCEPT ![window][RateKeyOf[ip]] = Append(@, now)]
               ELSE granted

handleSession(c) ==
    /\ caller[c].pc = "asking" /\ caller[c].call = "session"
    /\ allowSession(caller[c].ip, caller[c].at)
    /\ Log("session", caller[c].ip, SessionAllowed(caller[c].ip, caller[c].at))
    /\ caller' = [caller EXCEPT ![c] = Idle]
    /\ UNCHANGED <<load, now, carried, late>>

handleAttempt(c) ==
    /\ caller[c].pc = "asking" /\ caller[c].call = "attempt"
    /\ allowAttempt(caller[c].ip, caller[c].at)
    /\ Log("attempt", caller[c].ip, AttemptAllowed(caller[c].ip, caller[c].at))
    /\ caller' = [caller EXCEPT ![c] = Idle]
    /\ UNCHANGED <<load, now, carried, late>>

\* An upload may be empty, a download may not; neither may be too large.
Acceptable(r) == r.n <= MaxRequest /\ (r.call = "down" => r.n > 0)

\* One turn of tcpBulk's loop: the quota is charged before the bytes are acknowledged or
\* sent, and stays charged if the connection breaks.
tcpBulk(c) ==
    LET r == caller[c]
        granting == Acceptable(r) /\ BulkAllowed(r.ip, r.n, r.at)
    IN
    /\ r.pc = "asking" /\ r.call \in {"up", "down"}
    /\ IF Acceptable(r) THEN consumeBulk(r.ip, r.n, r.at) ELSE UNCHANGED storeVars
    /\ carried' = IF ~granting THEN carried
                  ELSE [k \in Keys |-> IF k \in {RateKeyOf[r.ip], Total}
                                       THEN [carried[k] EXCEPT ![DayOf(r.at)] = @ + r.n]
                                       ELSE carried[k]]
    /\ late' = IF granting /\ DayOf(r.at) < DayOf(now) THEN late + 1 ELSE late
    /\ caller' = [caller EXCEPT ![c] = Idle]
    /\ UNCHANGED <<load, now, granted>>

Collect ==
    /\ gc(now)
    /\ UNCHANGED <<load, now, caller, granted, carried, late>>

Tick ==
    /\ now < MaxTime
    /\ \A c \in Callers : caller[c].pc = "asking" => now < caller[c].at + MaxStall
    /\ now' = now + 1
    /\ UNCHANGED <<storeVars, load, caller, granted, carried, late>>

Next ==
    \/ \E c \in Callers, call \in CallNames, ip \in Addrs, n \in Sizes : Ask(c, call, ip, n)
    \/ \E c \in Callers : handleSession(c)
    \/ \E c \in Callers : handleAttempt(c)
    \/ \E c \in Callers : tcpBulk(c)
    \/ Collect
    \/ Tick

Spec == Init /\ [][Next]_quotaVars

----------------------------------------------------------------------------
(* Properties. *)

\* Any n + 1 granted calls of one rate key take more than the window's length, less the
\* time a caller may be held up between its clock reading and the lock.
Spread(log, n, window) ==
    \A i \in DOMAIN log : i + n \in DOMAIN log => log[i + n] - log[i] > window - MaxStall

\* allowSession and allowAttempt hold their limits in real time although they prune with
\* the clock readings of callers that overtake one another, and the gc prunes beside them;
\* addresses of one rate key (one IPv6 /64) share a limit.
RatesHold ==
    \A k \in Addrs : /\ Spread(granted["session"][k], SessPerMin, Minute)
                     /\ Spread(granted["attempt"][k], AttPer10Min, TenMinutes)

\* consumeBulk: a day carries no more than its quota, per rate key and in total, and once
\* more for every grant that was late: one whose caller read the clock before midnight and
\* took the lock after it finds the counter of another day and starts it over.  A daily
\* quota of zero is no quota per rate key; the one in total always counts.
BulkQuotaHolds ==
    \A k \in Keys, d \in 0..DayOf(MaxTime) :
        \/ carried[k][d] <= (1 + late) * (IF k = Total THEN BulkGlobalPerDay ELSE BulkPerDay)
        \/ k # Total /\ BulkPerDay = 0
=============================================================================
