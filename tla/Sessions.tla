------------------------------ MODULE Sessions ------------------------------
(***************************************************************************)
(* Sessions and their observations under concurrency.  Goroutines over the *)
(* store:                                                                  *)
(*   openers  POST /v1/session (control.go handleSession): the admission   *)
(*            check and the insertion are two critical sections with the   *)
(*            request body read in between;                                *)
(*   flows    one TCP connection or UDP datagram each (tcp.go, udp.go):    *)
(*            clock read, keyFor, getSession, allowAttempt and             *)
(*            addObservation are separate critical sections;               *)
(*   the gc   server.go gcLoop: gc, then takeDrops.                        *)
(* Time is a tick counter.  A goroutine may be descheduled between any two *)
(* steps; only the gap between keyFor and getSession, which no I/O         *)
(* separates, is bounded, by MaxStall.                                     *)
(***************************************************************************)
EXTENDS Store

CONSTANTS
    Openers, Flows,
    SessionTTL,   \* limits.session_ttl_seconds in ticks
    Enabled,      \* tests the server accepts
    MaxStall,     \* longest gap between keyFor and getSession
    MaxTime,      \* model bound: ticks explored
    MaxArrivals   \* model bound: flows explored

ASSUME SessionsConstants ==
    /\ {SessionTTL, MaxTime, MaxArrivals, MaxStall} \subseteq Nat
    /\ Enabled \subseteq Tests
    /\ MaxStall <= Minute
    /\ IsFiniteSet(Openers) /\ Openers # {}
    /\ Addrs # {}

VARIABLES
    now,
    opener,    \* handleSession activations
    issued,    \* session ids drawn so far
    flow,      \* flow activations
    arrivals,  \* flows accepted so far
    gcPc,      \* gcLoop: "wait" for the tick or "report" after gc
    reported,  \* rows refused according to takeDrops, over all ticks
    freed      \* rows the gc let go of, over all ticks

vars == <<storeVars, now, opener, issued, flow, arrivals, gcPc, reported, freed>>

SomeAddr == CHOOSE a \in Addrs : TRUE

IdleOpener == [pc |-> "idle", at |-> 0, ip |-> SomeAddr]

IdleFlow == [pc |-> "idle", udp |-> FALSE, sid |-> NoSid, ip |-> SomeAddr,
             first |-> 0, seen |-> 0, keyed |-> 0]

OpenerType == [pc : {"idle", "admitted"}, at : Nat, ip : Addrs]

FlowType == [pc : {"idle", "read", "keyed", "served", "finish", "nilDereference"},
             udp : BOOLEAN, sid : Sids \cup {NoSid}, ip : Addrs,
             first : Nat, seen : Nat, keyed : Nat]

Row == [id : Nat, sid : Sids, first : Nat]

TypeOK ==
    /\ DOMAIN sessions \in SUBSET Sids /\ IsFiniteSet(DOMAIN sessions)
    /\ \A s \in DOMAIN sessions : sessions[s] \in Session
    /\ obs \in SUBSET Row /\ IsFiniteSet(obs)
    /\ obsCount \in Int
    /\ drops \in [noSession : Nat, sessionCap : Nat, globalCap : Nat]
    /\ reservations = {}
    /\ sessRate \in [Addrs -> Seq(Nat)]
    /\ attemptRate \in [Addrs -> Seq(Nat)]
    /\ bulkUsed \in [Addrs \cup {Total} -> [day : Nat, bytes : Nat]]
    /\ freshId \in Nat
    /\ now \in Nat
    /\ opener \in [Openers -> OpenerType]
    /\ issued \in SUBSET Sids
    /\ flow \in [Flows -> FlowType]
    /\ arrivals \in Nat
    /\ gcPc \in {"wait", "report"}
    /\ reported \in Nat
    /\ freed \in Nat

Init ==
    /\ newStore
    /\ now = 0
    /\ opener = [h \in Openers |-> IdleOpener]
    /\ issued = {}
    /\ flow = [f \in Flows |-> IdleFlow]
    /\ arrivals = 0
    /\ gcPc = "wait"
    /\ reported = 0
    /\ freed = 0

----------------------------------------------------------------------------
(* handleSession. *)

\* The client asks for req; none at all means every enabled test.
Granted(req) == IF req = {} THEN Enabled ELSE req \cap Enabled

Admit(h, ip) ==
    /\ opener[h].pc = "idle"
    /\ allowSession(ip, now)
    /\ opener' = IF SessionAllowed(ip, now)
                 THEN [opener EXCEPT ![h] = [pc |-> "admitted", at |-> now, ip |-> ip]]
                 ELSE opener
    /\ UNCHANGED <<now, issued, flow, arrivals, gcPc, reported, freed>>

\* Body that is no JSON, or a nonce of the wrong length: the admission stays spent.
Reject(h) ==
    /\ opener[h].pc = "admitted"
    /\ opener' = [opener EXCEPT ![h] = IdleOpener]
    /\ UNCHANGED <<storeVars, now, issued, flow, arrivals, gcPc, reported, freed>>

Open(h, sid, req) ==
    /\ opener[h].pc = "admitted"
    /\ sid \notin issued
    /\ issued' = issued \cup {sid}
    /\ putSession(sid, [expires |-> opener[h].at + SessionTTL,
                        ip |-> opener[h].ip, tests |-> Granted(req)])
    /\ opener' = [opener EXCEPT ![h] = IdleOpener]
    /\ UNCHANGED <<now, flow, arrivals, gcPc, reported, freed>>

----------------------------------------------------------------------------
(* A flow. *)

\* A connection is accepted or a datagram read: FirstSeenAt.
Arrive(f, udp) ==
    /\ flow[f].pc = "idle"
    /\ arrivals < MaxArrivals
    /\ arrivals' = arrivals + 1
    /\ flow' = [flow EXCEPT ![f] = [IdleFlow EXCEPT !.pc = "read", !.udp = udp,
                                                    !.first = now]]
    /\ UNCHANGED <<storeVars, now, opener, issued, gcPc, reported, freed>>

\* The flow is over; what its row will say stays.
Ending(f, sid) == [IdleFlow EXCEPT !.pc = "finish", !.sid = sid, !.first = flow[f].first]

\* The flow ends without an authenticated envelope: nothing arrived, a cut or foreign
\* envelope, a DNS name or an echo path.  Its row may name any session id.
Unauthenticated(f, sid) ==
    /\ flow[f].pc = "read"
    /\ flow' = [flow EXCEPT ![f] =
                    Ending(f, IF flow[f].sid = NoSid THEN sid ELSE flow[f].sid)]
    /\ UNCHANGED <<storeVars, now, opener, issued, arrivals, gcPc, reported, freed>>

\* A whole envelope for sid, with a MAC that verifies under the session's key or not:
\* DecodeRequest asks keyFor, which reads the clock itself.
Decode(f, sid, mac) ==
    /\ flow[f].pc = "read"
    /\ flow' = [flow EXCEPT ![f] =
                    IF Live(sid, now) /\ mac
                    THEN [@ EXCEPT !.pc = "keyed", !.sid = sid, !.keyed = now,
                                   !.seen = IF flow[f].udp THEN flow[f].first ELSE now]
                    ELSE Ending(f, sid)]
    /\ UNCHANGED <<storeVars, now, opener, issued, arrivals, gcPc, reported, freed>>

\* Mutant: getSession is asked with the clock of the moment.
LookupLate(f, test, cookie) ==
    LET sid == flow[f].sid IN
    /\ flow[f].pc = "keyed"
    /\ flow' = [flow EXCEPT ![f] =
                    IF ~Live(sid, now) THEN [@ EXCEPT !.pc = "nilDereference"]
                    ELSE IF (flow[f].udp => cookie) /\ test \in sessions[sid].tests
                    THEN [@ EXCEPT !.pc = "served", !.ip = sessions[sid].ip, !.keyed = 0]
                    ELSE Ending(f, sid)]
    /\ UNCHANGED <<storeVars, now, opener, issued, arrivals, gcPc, reported, freed>>

\* getSession with the earlier clock value; the result is used without a nil check, for
\* the address-bound cookie of a datagram and for the tests granted.
Lookup(f, test, cookie) ==
    LET sid == flow[f].sid IN
    /\ flow[f].pc = "keyed"
    /\ flow' = [flow EXCEPT ![f] =
                    IF ~Live(sid, flow[f].seen) THEN [@ EXCEPT !.pc = "nilDereference"]
                    ELSE IF (flow[f].udp => cookie) /\ test \in sessions[sid].tests
                    THEN [@ EXCEPT !.pc = "served", !.ip = sessions[sid].ip, !.keyed = 0]
                    ELSE Ending(f, sid)]
    /\ UNCHANGED <<storeVars, now, opener, issued, arrivals, gcPc, reported, freed>>

\* allowAttempt decides; a stream that was echoed reads its next envelope.
Echo(f) ==
    LET ip == flow[f].ip IN
    /\ flow[f].pc = "served"
    /\ allowAttempt(ip, flow[f].seen)
    /\ flow' = [flow EXCEPT ![f] =
                    IF AttemptAllowed(ip, flow[f].seen) /\ ~flow[f].udp
                    THEN [@ EXCEPT !.pc = "read", !.seen = 0]
                    ELSE Ending(f, flow[f].sid)]
    /\ UNCHANGED <<now, opener, issued, arrivals, gcPc, reported, freed>>

Record(f) ==
    /\ flow[f].pc = "finish"
    /\ addObservationAt([id |-> freshId, sid |-> flow[f].sid, first |-> flow[f].first], now)
    /\ flow' = [flow EXCEPT ![f] = IdleFlow]
    /\ UNCHANGED <<now, opener, issued, arrivals, gcPc, reported, freed>>

----------------------------------------------------------------------------
(* gcLoop, and time. *)

Collect ==
    /\ gcPc = "wait"
    /\ gc(now)
    /\ gcPc' = "report"
    /\ freed' = freed + Cardinality(DeadRows(now))
    /\ UNCHANGED <<now, opener, issued, flow, arrivals, reported>>

Report ==
    /\ gcPc = "report"
    /\ takeDrops
    /\ reported' = reported + drops.noSession + drops.sessionCap + drops.globalCap
    /\ gcPc' = "wait"
    /\ UNCHANGED <<now, opener, issued, flow, arrivals, freed>>

Tick ==
    /\ now < MaxTime
    /\ \A f \in Flows : flow[f].pc = "keyed" => now < flow[f].keyed + MaxStall
    /\ now' = now + 1
    /\ UNCHANGED <<storeVars, opener, issued, flow, arrivals, gcPc, reported, freed>>

Next ==
    \/ \E h \in Openers, ip \in Addrs : Admit(h, ip)
    \/ \E h \in Openers : Reject(h)
    \/ \E h \in Openers, sid \in Sids, req \in SUBSET Tests : Open(h, sid, req)
    \/ \E f \in Flows, udp \in BOOLEAN : Arrive(f, udp)
    \/ \E f \in Flows, sid \in Sids \cup {NoSid} : Unauthenticated(f, sid)
    \/ \E f \in Flows, sid \in Sids, mac \in BOOLEAN : Decode(f, sid, mac)
    \/ \E f \in Flows, test \in Tests, cookie \in BOOLEAN : Lookup(f, test, cookie)
    \/ \E f \in Flows : Echo(f)
    \/ \E f \in Flows : Record(f)
    \/ Collect
    \/ Report
    \/ Tick

Spec == Init /\ [][Next]_vars

\* The scheduler runs every goroutine that can run, the one-minute ticker fires, and
\* time passes.  Nothing is assumed of clients.
Fairness ==
    /\ WF_vars(Tick)
    /\ WF_vars(Collect)
    /\ WF_vars(Report)
    /\ \A f \in Flows : WF_vars(\E test \in Tests, cookie \in BOOLEAN : Lookup(f, test, cookie))
    /\ \A f \in Flows : WF_vars(Echo(f))
    /\ \A f \in Flows : WF_vars(Record(f))

FairSpec == Spec /\ Fairness

----------------------------------------------------------------------------
(* Properties. *)

\* tcpEnvelope and serveEnvelope dereference getSession's result unchecked after keyFor
\* found the session: the gc's extra minute keeps it in the map that long.
NoNilSession == \A f \in Flows : flow[f].pc # "nilDereference"

\* store.obsCount, which gc and addObservation adjust by hand, is the number of rows the
\* sessions hold, and both ceilings of the store comment hold.
RowsCounted ==
    /\ obsCount = Cardinality(obs)
    /\ obsCount <= ObsMax
    /\ \A s \in Sids : Cardinality(RowsOf(s)) <= MaxSessionObservations

\* "a row that names no live session has no reader and is not kept": every row held
\* belongs to a session in the map, and it was first seen in the past.
RowsOwned == \A o \in obs : o.sid \in DOMAIN sessions /\ o.first <= now

\* The check of the live-session cap and the insertion are two critical sections, so
\* the cap can be passed, but by no more than the requests in flight.
SessionOvershootBounded ==
    Cardinality(DOMAIN sessions) < MaxLiveSessions + Cardinality(Openers)

\* Every row handed to addObservation is held, was freed by the gc, or is counted among
\* the refused ones exactly once, across the gc / takeDrops pair of the gc loop.
RowsAccounted ==
    freshId = obsCount + freed + reported
                + drops.noSession + drops.sessionCap + drops.globalCap

\* "stored ones are never evicted": a row leaves only a minute after its session expired
\* or past retention, whatever arrives at whichever ceiling.
NeverEvicted ==
    [][\A o \in obs \ obs' : \/ now > sessions[o.sid].expires + Minute
                             \/ now - o.first >= Retention]_vars

\* An expired session is freed with its rows, so a store at its ceiling accepts again
\* ("new observations are dropped until sessions expire").
ExpiredFreed ==
    \A s \in Sids :
        (s \in DOMAIN sessions /\ sessions[s].expires + Minute < MaxTime)
            ~> (s \notin DOMAIN sessions /\ RowsOf(s) = {})
=============================================================================
