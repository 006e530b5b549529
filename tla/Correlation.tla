----------------------------- MODULE Correlation -----------------------------
(***************************************************************************)
(* How the server's row of a native handshake finds its way to the attempt *)
(* of the client that caused it.  The handshake itself carries no id: the  *)
(* client reserves a window over the control plane (control.go             *)
(* handleAttempt) and the server gives the flow the newest unused          *)
(* reservation of its address, transport, port and kind (store.go).  The   *)
(* client keeps attempts of one pool (transport/port/kind) apart with a    *)
(* mutex (run.go).  Three ways to correlate:                               *)
(*   datagram  udp.go handle: at arrival;                                  *)
(*   early     tcp.go tcpSOCKS5, tcpOpenVPN: when the handshake is whole;  *)
(*   late      tcp.go finish: when the connection is over.                 *)
(* The path may lose, delay and (datagrams) duplicate; the client may give *)
(* up at any time; a flow that is cut short may be parsed as another kind. *)
(***************************************************************************)
EXTENDS Store

CONSTANTS
    Attempts,
    SidOf,       \* the session (client) of an attempt
    EpOf,        \* <<transport, port>> it probes
    KindOf,      \* the kind it reserves
    LooksLike,   \* kinds the server may parse its flow as
    Modes,       \* how a behaviour's attempts are correlated; "absent" ones are not made
    AddrOf,      \* address of a session; clients behind one NAT share it
    NoAttempt,   \* a row that names no reservation
    SessionTTL,
    ResTTL,      \* 15 s
    IdleTimeout, \* limits.idle_timeout_seconds
    MaxCopies,   \* model bound: copies of a datagram that arrive
    MaxTime      \* model bound: ticks explored

ASSUME CorrelationConstants ==
    /\ SidOf \in [Attempts -> Sids]
    /\ KindOf \in [Attempts -> Kinds]
    /\ LooksLike \in [Attempts -> SUBSET Kinds]
    /\ Modes \subseteq [Attempts -> {"datagram", "early", "late", "absent"}]
    /\ AddrOf \in [Sids -> Addrs]
    /\ {SessionTTL, ResTTL, IdleTimeout, MaxCopies, MaxTime} \subseteq Nat
    /\ NoAttempt \notin Nat
    /\ NoRes \notin [id : Nat, expires : Nat, ip : Addrs, ep : {EpOf[a] : a \in Attempts},
                     kind : Kinds, used : BOOLEAN, sid : Sids]

VARIABLES
    mode,    \* one of Modes, the same throughout
    now,
    cli,     \* the attempts, client side
    flow,    \* their flows, server side
    astray   \* a handshake was correlated while its attempt was not clearly the one meant

corVars == <<storeVars, mode, now, cli, flow, astray>>

Pool(a) == <<SidOf[a], EpOf[a], KindOf[a]>>

InFlight(a) == cli[a].pc \in {"locked", "allowed", "reserved", "sent"}

NoFlow == [pc |-> "none", first |-> 0, kind |-> AnyKind, att |-> NoAttempt,
           sid |-> NoSid, copies |-> 0]

\* The sessions are open and their admissions have left the rate window.
Init ==
    /\ sessions = [s \in Sids |-> [expires |-> SessionTTL, ip |-> AddrOf[s], tests |-> Tests]]
    /\ obs = {}
    /\ obsCount = 0
    /\ drops = ZeroDrops
    /\ reservations = {}
    /\ sessRate = [k \in Addrs |-> <<>>]
    /\ attemptRate = [k \in Addrs |-> <<>>]
    /\ bulkUsed = [k \in Addrs \cup {Total} |-> NoUse]
    /\ freshId = 0
    /\ mode \in Modes
    /\ now = 0
    /\ cli = [a \in Attempts |-> [pc |-> "todo", at |-> 0, res |-> NoAttempt]]
    /\ flow = [a \in Attempts |-> NoFlow]
    /\ astray = FALSE

----------------------------------------------------------------------------
(* The client: worker (run.go), reserve (client.go) and the test. *)

Become(a, pc) == cli' = [cli EXCEPT ![a].pc = pc]

Lock(a) ==
    /\ cli[a].pc = "todo" /\ mode[a] # "absent"
    /\ \A b \in Attempts : InFlight(b) => Pool(b) # Pool(a)
    /\ Become(a, "locked")
    /\ UNCHANGED <<storeVars, mode, now, flow, astray>>

\* handleAttempt up to the rate limit; a refusal ends the attempt.
AskReservation(a) ==
    LET ip == AddrOf[SidOf[a]] IN
    /\ cli[a].pc = "locked"
    /\ IF Live(SidOf[a], now)
       THEN /\ allowAttempt(ip, now)
            /\ cli' = [cli EXCEPT ![a].at = now,
                                  ![a].pc = IF AttemptAllowed(ip, now) THEN "allowed" ELSE "done"]
       ELSE /\ Become(a, "done")
            /\ UNCHANGED storeVars
    /\ UNCHANGED <<mode, now, flow, astray>>

\* The rest of handleAttempt.  The clock separates any two reservations; the answer may
\* be lost, and then the client fails the attempt and the window stays open.
Reserve(a, answered) ==
    LET expires == cli[a].at + ResTTL IN
    /\ cli[a].pc = "allowed"
    /\ \A r \in reservations : r.expires # expires
    /\ reserve([id |-> freshId, expires |-> expires, ip |-> AddrOf[SidOf[a]],
                ep |-> EpOf[a], kind |-> KindOf[a], used |-> FALSE, sid |-> SidOf[a]])
    /\ cli' = IF answered
              THEN [cli EXCEPT ![a].pc = "reserved", ![a].res = freshId]
              ELSE [cli EXCEPT ![a].pc = "done"]
    /\ UNCHANGED <<mode, now, flow, astray>>

Send(a) ==
    /\ cli[a].pc = "reserved"
    /\ Become(a, "sent")
    /\ flow' = [flow EXCEPT ![a].pc = "path"]
    /\ UNCHANGED <<storeVars, mode, now, astray>>

\* The answer arrives, or the attempt's timeout, a reset or Stop ends it.
EndAttempt(a) ==
    /\ cli[a].pc = "sent"
    /\ Become(a, "done")
    /\ UNCHANGED <<storeVars, mode, now, flow, astray>>

----------------------------------------------------------------------------
(* The server. *)

\* The attempt is in flight, its flow looks like what it reserved, this is its first
\* packet, and no other client behind its address has a window open that fits.
Clear(a, kind) ==
    /\ InFlight(a)
    /\ kind = KindOf[a]
    /\ flow[a].copies = 0
    /\ \A r \in reservations :
          Fits(r, AddrOf[SidOf[a]], EpOf[a], kind, flow[a].first) => r.sid = SidOf[a]

FoundFor(a, kind) == findReservation(AddrOf[SidOf[a]], EpOf[a], kind, flow[a].first)

\* applyReservation, or Unmatched.
Applied(fl, r) == IF r = NoRes THEN fl ELSE [fl EXCEPT !.att = r.id, !.sid = r.sid]

\* A connection is accepted, or (again) a datagram read, any time after it was sent.
Accept(a) ==
    /\ \/ flow[a].pc = "path"
       \/ flow[a].pc = "over" /\ mode[a] = "datagram" /\ flow[a].copies < MaxCopies
    /\ flow' = [flow EXCEPT ![a] = [NoFlow EXCEPT !.pc = "open", !.first = now,
                                                  !.copies = flow[a].copies]]
    /\ UNCHANGED <<storeVars, mode, now, cli, astray>>

\* correlate serves every datagram, correlateEarly a whole handshake of its protocol.
AtOnce(a, kind, whole) ==
    \/ mode[a] = "datagram"
    \/ mode[a] = "early" /\ whole /\ kind = KindOf[a]

\* The handshake, or the part of it that arrived, is read and parsed.
Parse(a, kind, whole) ==
    LET r == FoundFor(a, kind) IN
    /\ flow[a].pc = "open"
    /\ IF AtOnce(a, kind, whole)
       THEN /\ consume(r)
            /\ flow' = [flow EXCEPT ![a] = Applied(
                   [@ EXCEPT !.pc = IF mode[a] = "datagram" THEN "closing" ELSE "got",
                             !.kind = kind], r)]
            /\ astray' = (astray \/ ~Clear(a, kind))
       ELSE /\ flow' = [flow EXCEPT ![a].pc = "got", ![a].kind = kind]
            /\ UNCHANGED <<storeVars, astray>>
    /\ UNCHANGED <<mode, now, cli>>

\* What ends a connection: the client hung up, or was silent for too long.
Over(a) == cli[a].pc = "done" \/ now >= flow[a].first + IdleTimeout

\* Mutant: a connection that carried nothing takes the reservation with it.
FinishEmptyConsuming(a) ==
    LET r == FoundFor(a, AnyKind) IN
    /\ flow[a].pc = "open" /\ mode[a] # "datagram" /\ Over(a)
    /\ consume(r)
    /\ flow' = [flow EXCEPT ![a] = Applied([@ EXCEPT !.pc = "closing"], r)]
    /\ UNCHANGED <<mode, now, cli, astray>>

\* finish of a connection that carried nothing: attributed, the window stays open.
FinishEmpty(a) ==
    LET r == FoundFor(a, AnyKind) IN
    /\ flow[a].pc = "open" /\ mode[a] # "datagram" /\ Over(a)
    /\ flow' = [flow EXCEPT ![a] = Applied([@ EXCEPT !.pc = "closing"], r)]
    /\ UNCHANGED <<storeVars, mode, now, cli, astray>>

\* finish of one that did: matched now unless correlateEarly already has.
Finish(a) ==
    LET r == FoundFor(a, flow[a].kind) IN
    /\ flow[a].pc = "got" /\ Over(a)
    /\ IF flow[a].sid = NoSid
       THEN /\ consume(r)
            /\ flow' = [flow EXCEPT ![a] = Applied([@ EXCEPT !.pc = "closing"], r)]
            /\ astray' = (astray \/ ~Clear(a, flow[a].kind))
       ELSE /\ flow' = [flow EXCEPT ![a].pc = "closing"]
            /\ UNCHANGED <<storeVars, astray>>
    /\ UNCHANGED <<mode, now, cli>>

\* Mutant: the row names the newest reservation there is when it is written.
RecordNewest(a) ==
    /\ flow[a].pc = "closing"
    /\ addObservationAt([id |-> freshId, sid |-> flow[a].sid, first |-> flow[a].first,
                         att |-> IF reservations = {} THEN flow[a].att
                                 ELSE (CHOOSE r \in reservations :
                                          \A q \in reservations : q.id <= r.id).id,
                         owner |-> a, empty |-> flow[a].kind = AnyKind], now)
    /\ flow' = [flow EXCEPT ![a] = [NoFlow EXCEPT !.pc = "over",
                    !.copies = IF flow[a].copies < MaxCopies THEN flow[a].copies + 1 ELSE MaxCopies]]
    /\ UNCHANGED <<mode, now, cli, astray>>

Record(a) ==
    /\ flow[a].pc = "closing"
    /\ addObservationAt([id |-> freshId, sid |-> flow[a].sid, first |-> flow[a].first,
                         att |-> flow[a].att, owner |-> a,
                         empty |-> flow[a].kind = AnyKind], now)
    /\ flow' = [flow EXCEPT ![a] = [NoFlow EXCEPT !.pc = "over",
                    !.copies = IF flow[a].copies < MaxCopies THEN flow[a].copies + 1 ELSE MaxCopies]]
    /\ UNCHANGED <<mode, now, cli, astray>>

Collect ==
    /\ gc(now)
    /\ UNCHANGED <<mode, now, cli, flow, astray>>

Tick ==
    /\ now < MaxTime
    /\ now' = now + 1
    /\ UNCHANGED <<storeVars, mode, cli, flow, astray>>

Next ==
    \/ \E a \in Attempts : Lock(a)
    \/ \E a \in Attempts : AskReservation(a)
    \/ \E a \in Attempts, answered \in BOOLEAN : Reserve(a, answered)
    \/ \E a \in Attempts : Send(a)
    \/ \E a \in Attempts : EndAttempt(a)
    \/ \E a \in Attempts : Accept(a)
    \/ \E a \in Attempts : \E kind \in LooksLike[a], whole \in BOOLEAN : Parse(a, kind, whole)
    \/ \E a \in Attempts : FinishEmpty(a)
    \/ \E a \in Attempts : Finish(a)
    \/ \E a \in Attempts : Record(a)
    \/ Collect
    \/ Tick

Spec == Init /\ [][Next]_corVars

----------------------------------------------------------------------------
(* mergeObservations (client/merge.go), the reservation part. *)

\* Mutant: the first row stays.
AttachedFirst(a) ==
    LET mine == {o \in obs : o.att = cli[a].res}
    IN  {o \in mine : \A q \in mine : o.id <= q.id}

\* The row attached to an attempt: the first with its reservation, unless that one is
\* empty and a later one is not.
Attached(a) ==
    LET mine == {o \in obs : o.att = cli[a].res}
        best == IF \E o \in mine : ~o.empty THEN {o \in mine : ~o.empty} ELSE mine
    IN  {o \in best : \A q \in best : o.id <= q.id}

----------------------------------------------------------------------------
(* Properties. *)

\* matchReservation: a reservation answers for one handshake, whoever else arrives.
ReservationUsedOnce ==
    \A o, q \in obs : (~o.empty /\ ~q.empty /\ o.att = q.att) => o = q

\* As long as every handshake is correlated while its attempt is in flight and no other
\* client behind the address has a window open for the same port and kind, its row names
\* that attempt: the client's own older windows, left open by attempts that failed, other
\* attempts in flight and empty flows in between confuse nothing.
SerialPoolsUnambiguous ==
    ~astray => \A o \in obs : o.empty \/ o.att = cli[o.owner].res

\* Under the same condition a handshake first seen in its window, and over before the gc
\* may drop that window, is matched: no empty flow used the window up.
ReservedFlowMatched ==
    ~astray => \A a \in Attempts :
        LET expires == cli[a].at + ResTTL IN
        ( /\ flow[a].pc = "closing" /\ flow[a].kind # AnyKind
          /\ flow[a].first <= expires /\ now < expires + Minute )
            => flow[a].att = cli[a].res

\* Under the same condition mergeObservations gives an attempt the row of the flow that
\* carried its handshake, whichever empty flows were attributed to it before or after.
OwnRowAttached ==
    ~astray => \A o \in obs : o.empty \/ Attached(o.owner) = {o}
=============================================================================
