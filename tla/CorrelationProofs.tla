-------------------------- MODULE CorrelationProofs --------------------------
(***************************************************************************)
(* Proofs about the correlation of handshakes with attempts (Correlation)  *)
(* for any clients, addresses, ports, kinds, attempts, lifetimes and       *)
(* bounds.  Three things hang together: who has used a window (Once), in   *)
(* which order the windows of one pool were opened (Serial), and, while no *)
(* handshake was correlated in an unclear situation, that the window of an *)
(* attempt in flight is still there for its handshake (Guided).            *)
(***************************************************************************)
EXTENDS Correlation, WellFoundedInduction, TLAPS

\* The windows are reservations of ports eps, each with an id of its own.
Windows(eps) ==
    /\ reservations \subseteq [id : Nat, expires : Nat, ip : Addrs, ep : eps,
                               kind : Kinds, used : BOOLEAN, sid : Sids]
    /\ \A r, q \in reservations : r.id = q.id => r = q

Eps == {EpOf[a] : a \in Attempts}

CliType == [pc : {"todo", "locked", "allowed", "reserved", "sent", "done"},
            at : Nat, res : Nat \cup {NoAttempt}]

FlowType == [pc : {"none", "path", "open", "got", "closing", "over"}, first : Nat,
             kind : Kinds \cup {AnyKind}, att : Nat \cup {NoAttempt},
             sid : Sids \cup {NoSid}, copies : Nat]

Row == [id : Nat, sid : Sids, first : Nat, att : Nat, owner : Attempts, empty : BOOLEAN]

CorTypes ==
    /\ now \in Nat /\ freshId \in Nat /\ astray \in BOOLEAN /\ mode \in Modes
    /\ cli \in [Attempts -> CliType]
    /\ flow \in [Attempts -> FlowType]
    /\ obs \subseteq Row
    /\ DOMAIN sessions \subseteq Sids

\* Where an attempt is says what its flow can be, and where a flow is what it carries.
StageOf(a) ==
    /\ cli[a].at <= now
    /\ cli[a].pc \in {"todo", "locked", "allowed", "reserved"} => flow[a].pc = "none"
    /\ cli[a].pc \in {"todo", "locked", "allowed"} => cli[a].res = NoAttempt
    /\ cli[a].pc \in {"reserved", "sent"} => cli[a].res # NoAttempt
    /\ flow[a].pc \in {"none", "path", "open", "over"} =>
          flow[a].kind = AnyKind /\ flow[a].att = NoAttempt
    /\ flow[a].pc = "got" => flow[a].kind # AnyKind
    /\ flow[a].sid = NoSid <=> flow[a].att = NoAttempt
    /\ flow[a].pc = "over" => flow[a].copies > 0 \/ MaxCopies = 0

Staged ==
    /\ \A a \in Attempts : StageOf(a)
    /\ \A o \in obs : cli[o.owner].pc \in {"sent", "done"}

\* A window names the attempt that holds its id; no two attempts hold one id.
Named ==
    /\ Windows(Eps)
    /\ \A r \in reservations : r.id < freshId /\ r.expires <= now + ResTTL
    /\ \A a \in Attempts : cli[a].res # NoAttempt =>
          /\ cli[a].res < freshId
          /\ \A b \in Attempts : cli[b].res = cli[a].res => a = b
          /\ \A r \in reservations : r.id = cli[a].res =>
                /\ r.expires = cli[a].at + ResTTL
                /\ r.ip = AddrOf[SidOf[a]] /\ r.sid = SidOf[a]
                /\ r.ep = EpOf[a] /\ r.kind = KindOf[a]

\* The flow carries a handshake and has a window.
Holds(a) == flow[a].kind # AnyKind /\ flow[a].att # NoAttempt

\* The windows that handshakes have used, each once.
Once ==
    /\ \A a \in Attempts : Holds(a) =>
          /\ flow[a].att < freshId
          /\ \A r \in reservations : r.id = flow[a].att => r.used
          /\ \A b \in Attempts : (Holds(b) /\ flow[b].att = flow[a].att) => a = b
          /\ \A o \in obs : o.empty \/ o.att # flow[a].att
    /\ \A o \in obs : ~o.empty =>
          /\ o.att < freshId
          /\ \A r \in reservations : r.id = o.att => r.used
          /\ \A q \in obs : (~q.empty /\ q.att = o.att) => o = q

InPool(r, a) == r.sid = SidOf[a] /\ r.ep = EpOf[a] /\ r.kind = KindOf[a]

\* The pool's mutex: one attempt at a time, and its window is the newest of the pool.
Serial ==
    \A a \in Attempts :
        /\ InFlight(a) => \A b \in Attempts : (InFlight(b) /\ Pool(b) = Pool(a)) => a = b
        /\ cli[a].pc \in {"allowed", "reserved", "sent"} =>
              \A r \in reservations : InPool(r, a) =>
                  /\ r.expires <= cli[a].at + ResTTL
                  /\ cli[a].pc # "allowed" /\ r.id # cli[a].res => r.expires < cli[a].at + ResTTL

\* The attempt is in flight and its handshake has yet to be correlated.
Unspent(a) ==
    /\ cli[a].pc \in {"reserved", "sent"}
    /\ flow[a].pc # "over" /\ flow[a].copies = 0 /\ ~Holds(a)

Own(a) == \E r \in reservations : r.id = cli[a].res /\ ~r.used

\* As long as nothing went astray a handshake has its attempt's window, and until then the
\* window waits for it: it outlives the older ones of the pool.
Guided ==
    ~astray =>
        /\ \A a \in Attempts : Holds(a) => flow[a].att = cli[a].res
        /\ \A o \in obs : o.empty \/ o.att = cli[o.owner].res
        /\ \A a \in Attempts :
              ( /\ Unspent(a)
                /\ \/ now < cli[a].at + ResTTL + Minute
                   \/ \E r \in reservations : ~r.used /\ InPool(r, a) )
                  => Own(a)

CorInv == CorTypes /\ Staged /\ Named /\ Once /\ Serial /\ Guided /\ ReservedFlowMatched

----------------------------------------------------------------------------
(* What the store's reservation operations return and preserve. *)

\* A set of numbers that is not empty has a least element.
LEMMA LeastNumber ==
    ASSUME NEW S \in SUBSET Nat, S # {}
    PROVE  \E m \in S : \A n \in S : m <= n
<1>1. PICK m \in S : \A n \in S : ~ (<<n, m>> \in OpToRel(<, Nat))
  BY NatLessThanWellFounded, WFMin, Zenon
<1>2. ASSUME NEW n \in S
      PROVE  m <= n
  <2>1. m \in Nat /\ n \in Nat
    BY Zenon
  <2>2. n < m => <<n, m>> \in OpToRel(<, Nat)
    BY <2>1, Zenon DEF OpToRel
  <2>3. ~(n < m)
    BY <1>1, <2>2, Zenon
  <2> QED
    BY <2>1, <2>3
<1> QED
  BY <1>2, Zenon

\* findReservation (store.go): as long as no window reaches beyond some time, the newest of
\* the windows that fit exists, so if any fits one is found and none expires later.
LEMMA NewestFound ==
    ASSUME NEW ip, NEW ep, NEW kind, NEW t, NEW bound \in Nat,
           \A r \in reservations : r.id \in Nat /\ r.expires \in Nat /\ r.expires <= bound,
           \E r \in reservations : Fits(r, ip, ep, kind, t)
    PROVE  /\ findReservation(ip, ep, kind, t) \in reservations
           /\ Fits(findReservation(ip, ep, kind, t), ip, ep, kind, t)
           /\ \A q \in reservations : Fits(q, ip, ep, kind, t) =>
                 q.expires <= findReservation(ip, ep, kind, t).expires
<1> DEFINE fit == {r \in reservations : Fits(r, ip, ep, kind, t)}
           late == {bound - r.expires : r \in fit}
<1>1. fit # {}
  BY Zenon
<1>2. late \in SUBSET Nat /\ late # {}
  BY <1>1
<1>3. PICK d \in late : \A n \in late : d <= n
  BY <1>2, LeastNumber, Zenon
<1> DEFINE newest == {r \in fit : bound - r.expires = d}
           ids == {r.id : r \in newest}
<1>4. ids \in SUBSET Nat /\ ids # {}
  BY <1>3, Zenon
<1>5. PICK m \in ids : \A n \in ids : m <= n
  BY <1>4, LeastNumber, Zenon
<1>6. PICK r \in newest : r.id = m
  BY <1>5, Zenon
<1>7. ASSUME NEW q \in fit
      PROVE  r.expires > q.expires \/ (r.expires = q.expires /\ r.id <= q.id)
  <2>1. d <= bound - q.expires /\ d = bound - r.expires
    BY <1>3, <1>6, Zenon
  <2>2. r.expires >= q.expires
    BY <2>1
  <2>3. r.expires = q.expires => q \in newest
    BY <1>6, Zenon
  <2>4. r.expires = q.expires => r.id <= q.id
    BY <2>3, <1>5, <1>6, Zenon
  <2> QED
    BY <2>2, <2>4
<1>8. /\ findReservation(ip, ep, kind, t) \in fit
      /\ \A q \in fit : \/ findReservation(ip, ep, kind, t).expires > q.expires
                        \/ findReservation(ip, ep, kind, t).expires = q.expires
  BY <1>1, <1>6, <1>7, Zenon DEF findReservation
<1> QED
  BY <1>8

\* What is found fits.
LEMMA FoundFits ==
    ASSUME NEW ip, NEW ep, NEW kind, NEW t, NEW bound \in Nat,
           \A r \in reservations : r.id \in Nat /\ r.expires \in Nat /\ r.expires <= bound,
           findReservation(ip, ep, kind, t) # NoRes
    PROVE  /\ findReservation(ip, ep, kind, t) \in reservations
           /\ Fits(findReservation(ip, ep, kind, t), ip, ep, kind, t)
           /\ \A q \in reservations : Fits(q, ip, ep, kind, t) =>
                 q.expires <= findReservation(ip, ep, kind, t).expires
<1>1. \E r \in reservations : Fits(r, ip, ep, kind, t)
  BY Zenon DEF findReservation
<1> QED
  BY <1>1, NewestFound, Zenon

\* matchReservation: the window found is used from then on, the others are as they were.
LEMMA ConsumeMarks ==
    ASSUME NEW eps, Windows(eps), NEW r \in reservations, r # NoRes, consume(r)
    PROVE  /\ Windows(eps)'
           /\ \A q \in reservations' :
                 \/ q \in reservations /\ q.id # r.id
                 \/ /\ q.id = r.id /\ q.used /\ q.expires = r.expires
                    /\ q.ip = r.ip /\ q.ep = r.ep /\ q.kind = r.kind /\ q.sid = r.sid
           /\ \A q \in reservations : q.id # r.id => q \in reservations'
<1> DEFINE u == [r EXCEPT !.used = TRUE]
<1>1. reservations' = (reservations \ {r}) \cup {u}
  BY Zenon DEF consume
<1>2. u \in [id : Nat, expires : Nat, ip : Addrs, ep : eps,
             kind : Kinds, used : BOOLEAN, sid : Sids]
      /\ u.id = r.id /\ u.used /\ u.expires = r.expires
      /\ u.ip = r.ip /\ u.ep = r.ep /\ u.kind = r.kind /\ u.sid = r.sid
  BY Zenon DEF Windows
<1>3. \A q \in reservations \ {r} : q.id # r.id
  BY Zenon DEF Windows
<1> HIDE DEF u
<1>4. \A q \in reservations' : q = u \/ (q \in reservations /\ q.id # r.id)
  BY <1>1, <1>3, Zenon
<1>5. Windows(eps)'
  BY <1>1, <1>2, <1>4 DEF Windows
<1> QED
  BY <1>1, <1>2, <1>4, <1>5, Zenon

\* reserve: the new window differs from every other.
LEMMA ReserveAdds ==
    ASSUME NEW eps, Windows(eps),
           NEW r \in [id : Nat, expires : Nat, ip : Addrs, ep : eps,
                      kind : Kinds, used : BOOLEAN, sid : Sids],
           \A q \in reservations : q.id # r.id,
           reserve(r)
    PROVE  Windows(eps)' /\ reservations' = reservations \cup {r}
  BY Zenon DEF Windows, reserve

\* addObservation: a row is added whole, and only to a live session.
LEMMA RowKept ==
    ASSUME NEW o, NEW t, addObservationAt(o, t)
    PROVE  /\ UNCHANGED <<sessions, reservations>> /\ freshId' = freshId + 1
           /\ \/ obs' = obs
              \/ obs' = obs \cup {o} /\ Live(o.sid, t)
<1>1. Verdict(o, t) = "kept" => Live(o.sid, t)
  BY Zenon DEF Verdict
<1> QED
  BY <1>1, Zenon DEF addObservationAt

----------------------------------------------------------------------------
(* Constants, types and frames. *)

\* What the assumptions on the constants give.
LEMMA Constants ==
    /\ SidOf \in [Attempts -> Sids] /\ KindOf \in [Attempts -> Kinds]
    /\ LooksLike \in [Attempts -> SUBSET Kinds] /\ AddrOf \in [Sids -> Addrs]
    /\ Modes \subseteq [Attempts -> {"datagram", "early", "late", "absent"}]
    /\ ResTTL \in Nat /\ Minute \in Nat /\ MaxCopies \in Nat
    /\ NoAttempt \notin Nat /\ AnyKind \notin Kinds /\ NoSid \notin Sids
  BY CorrelationConstants, StoreConstants, Zenon

\* The attempt's records and the numbers in them.
LEMMA Parts ==
    ASSUME CorTypes, NEW a \in Attempts
    PROVE  /\ cli[a] \in CliType /\ cli[a].at \in Nat
           /\ cli[a].pc \in {"todo", "locked", "allowed", "reserved", "sent", "done"}
           /\ cli[a].res # NoAttempt => cli[a].res \in Nat
           /\ flow[a] \in FlowType /\ flow[a].first \in Nat /\ flow[a].copies \in Nat
           /\ flow[a].pc \in {"none", "path", "open", "got", "closing", "over"}
           /\ flow[a].att # NoAttempt => flow[a].att \in Nat
           /\ flow[a].kind # AnyKind => flow[a].kind \in Kinds
  BY Zenon DEF CorTypes, CliType, FlowType

\* The windows' numbers.
LEMMA WindowIn ==
    ASSUME Named, NEW r \in reservations
    PROVE  /\ r.id \in Nat /\ r.expires \in Nat /\ r.kind \in Kinds /\ r.sid \in Sids
           /\ r.used \in BOOLEAN
  BY Zenon DEF Named, Windows

----------------------------------------------------------------------------
(* What keeps a conjunct of the invariant, whatever the step. *)

\* The step leaves the attempt its window, its flow the window it has used, an attempt that
\* waits for its handshake waiting and a flow that is being closed as it was.
Keeps(a) == cli'[a].res = cli[a].res /\ (cli[a].res # NoAttempt => cli'[a].at = cli[a].at)

Carries(a) == Holds(a)' => Holds(a) /\ flow'[a].att = flow[a].att

Waits(a) == Unspent(a)' => Unspent(a) /\ cli'[a].at = cli[a].at

Closing(a) == flow[a].pc = "closing" /\ flow[a].kind # AnyKind

Rests(a) ==
    Closing(a)' => /\ Closing(a) /\ flow'[a].first = flow[a].first /\ flow'[a].att = flow[a].att
                   /\ cli'[a].at = cli[a].at

\* Only the attempt a and its flow move.
LEMMA StagedMoves ==
    ASSUME Staged, CorTypes, NEW a \in Attempts, StageOf(a)', now' = now,
           \A b \in Attempts : b # a => cli'[b] = cli[b] /\ flow'[b] = flow[b],
           cli[a].pc \in {"sent", "done"} => cli'[a].pc \in {"sent", "done"},
           \A o \in obs' : o \in obs \/ (o.owner = a /\ cli'[a].pc \in {"sent", "done"})
    PROVE  Staged'
<1>1. \A b \in Attempts : StageOf(b)'
  BY DEF Staged, StageOf
<1>2. \A o \in obs : o.owner \in Attempts
  BY Zenon DEF CorTypes, Row
<1>3. \A o \in obs' : cli'[o.owner].pc \in {"sent", "done"}
  BY <1>2, Zenon DEF Staged
<1> QED
  BY <1>1, <1>3, Zenon DEF Staged

\* Time passes and ids are drawn: no window is named anew.
LEMMA NamedStays ==
    ASSUME Named, CorTypes, reservations' = reservations, freshId' \in {freshId, freshId + 1},
           now' \in {now, now + 1}, \A b \in Attempts : Keeps(b)
    PROVE  Named'
<1>1. now \in Nat /\ freshId \in Nat /\ ResTTL \in Nat
  BY Constants, Zenon DEF CorTypes
<1>2. Windows(Eps)'
  BY Zenon DEF Named, Windows
<1>3. \A r \in reservations' : r.id < freshId' /\ r.expires <= now' + ResTTL
  BY <1>1, WindowIn DEF Named
<1>4. \A a \in Attempts : cli[a].res # NoAttempt => cli[a].res \in Nat /\ cli[a].res < freshId'
  BY <1>1, Parts DEF Named
<1> QED
  BY <1>2, <1>3, <1>4 DEF Named, Keeps

\* Windows go or are used.
LEMMA SerialStays ==
    ASSUME Serial, cli' = cli,
           \A q \in reservations' : \E p \in reservations :
              /\ q.id = p.id /\ q.expires = p.expires
              /\ q.ep = p.ep /\ q.kind = p.kind /\ q.sid = p.sid
    PROVE  Serial'
  BY DEF Serial, InFlight, InPool, Pool

\* No flow comes by a window, and a window that is opened has a new id.
LEMMA OnceStays ==
    ASSUME Once, CorTypes, freshId' \in {freshId, freshId + 1}, obs' \subseteq obs,
           \A r \in reservations' : r \in reservations \/ r.id = freshId,
           \A b \in Attempts : Carries(b)
    PROVE  Once'
<1>1. freshId \in Nat
  BY Zenon DEF CorTypes
<1>2. ASSUME NEW b \in Attempts, Holds(b)
      PROVE  /\ flow[b].att < freshId' /\ flow[b].att # freshId
             /\ \A r \in reservations' : r.id = flow[b].att => r.used
  BY <1>1, <1>2, Parts DEF Once, Holds
<1>3. ASSUME NEW o \in obs, ~o.empty
      PROVE  /\ o.att < freshId' /\ o.att # freshId
             /\ \A r \in reservations' : r.id = o.att => r.used
  BY <1>1, <1>3 DEF Once, CorTypes, Row
<1> QED
  BY <1>2, <1>3 DEF Once, Carries

\* The windows and the rows are as they were.
LEMMA GuidedStays ==
    ASSUME Guided, CorTypes, UNCHANGED <<reservations, obs, astray>>, now' \in {now, now + 1},
           \A b \in Attempts : Keeps(b) /\ Carries(b) /\ Waits(b)
    PROVE  Guided'
<1>1. now \in Nat /\ ResTTL \in Nat /\ Minute \in Nat
  BY Constants, Zenon DEF CorTypes
<1>2. \A o \in obs : o.owner \in Attempts
  BY Zenon DEF CorTypes, Row
<1>3. \A b \in Attempts : Own(b) => Own(b)'
  BY Zenon DEF Own, Keeps
<1>4. ASSUME NEW b \in Attempts, Unspent(b)', now' < cli'[b].at + ResTTL + Minute
      PROVE  Unspent(b) /\ now < cli[b].at + ResTTL + Minute
  BY <1>1, <1>4, Parts DEF Waits
<1>5. ASSUME NEW b \in Attempts, Unspent(b)'
      PROVE  Unspent(b)
  BY <1>5, Zenon DEF Waits
<1> QED
  BY <1>2, <1>3, <1>4, <1>5, Zenon DEF Guided, Keeps, Carries, InPool

\* No handshake's flow begins to close.
LEMMA MatchedStays ==
    ASSUME ReservedFlowMatched, CorTypes, astray' = astray, now' \in {now, now + 1},
           \A b \in Attempts : Keeps(b) /\ Rests(b)
    PROVE  ReservedFlowMatched'
<1>1. now \in Nat /\ ResTTL \in Nat /\ Minute \in Nat /\ \A b \in Attempts : cli[b].at \in Nat
  BY Constants, Parts, Zenon DEF CorTypes
<1> QED
  BY <1>1 DEF ReservedFlowMatched, Keeps, Rests, Closing

----------------------------------------------------------------------------
(* matchReservation. *)

\* What a lookup finds for a flow: a window that fits, and none that fits is newer.
LEMMA Lookup ==
    ASSUME CorInv, NEW a \in Attempts, NEW kind, FoundFor(a, kind) # NoRes
    PROVE  /\ FoundFor(a, kind) \in reservations
           /\ Fits(FoundFor(a, kind), AddrOf[SidOf[a]], EpOf[a], kind, flow[a].first)
           /\ \A q \in reservations : Fits(q, AddrOf[SidOf[a]], EpOf[a], kind, flow[a].first) =>
                 q.expires <= FoundFor(a, kind).expires
<1>1. now + ResTTL \in Nat
  BY Constants DEF CorInv, CorTypes
<1>2. \A r \in reservations : r.id \in Nat /\ r.expires \in Nat /\ r.expires <= now + ResTTL
  BY WindowIn, Zenon DEF CorInv, Named
<1> QED
  BY <1>1, <1>2, FoundFits, Zenon DEF FoundFor

\* A flow that a window was, or was not, applied to.
LEMMA AppliedTo ==
    ASSUME NEW f \in FlowType, NEW r,
           r # NoRes => r.id \in Nat /\ r.sid \in Sids
    PROVE  /\ Applied(f, r) \in FlowType
           /\ Applied(f, r).pc = f.pc /\ Applied(f, r).kind = f.kind
           /\ Applied(f, r).copies = f.copies /\ Applied(f, r).first = f.first
           /\ r = NoRes => Applied(f, r) = f
           /\ r # NoRes => Applied(f, r).att = r.id /\ Applied(f, r).sid = r.sid
  BY Zenon DEF Applied, FlowType

\* A handshake in a clear situation is its attempt's first, and the attempt waits for it.
LEMMA ClearUnspent ==
    ASSUME CorInv, NEW a \in Attempts, NEW kind, Clear(a, kind),
           flow[a].pc \in {"open", "got"}, flow[a].att = NoAttempt
    PROVE  Unspent(a) /\ cli[a].res # NoAttempt
<1>1. cli[a].pc = "sent"
  BY Parts, Zenon DEF Clear, InFlight, CorInv, Staged, StageOf
<1> QED
  BY <1>1, Zenon DEF Clear, Unspent, Holds, CorInv, Staged, StageOf

\* In a clear situation what is found is the window of the attempt: an older one of its pool
\* expires earlier, and no other session's fits.
LEMMA OwnWindowFound ==
    ASSUME CorInv, ~astray, NEW a \in Attempts, NEW kind \in Kinds, Clear(a, kind),
           flow[a].pc \in {"open", "got"}, flow[a].att = NoAttempt,
           FoundFor(a, kind) # NoRes
    PROVE  FoundFor(a, kind).id = cli[a].res
<1> DEFINE r == FoundFor(a, kind)
<1>1. /\ r \in reservations
      /\ Fits(r, AddrOf[SidOf[a]], EpOf[a], kind, flow[a].first)
      /\ \A q \in reservations : Fits(q, AddrOf[SidOf[a]], EpOf[a], kind, flow[a].first) =>
            q.expires <= r.expires
  BY Lookup, Zenon
<1> HIDE DEF r
<1>2. r.id \in Nat /\ r.expires \in Nat /\ r.kind \in Kinds
  BY <1>1, WindowIn, Zenon DEF CorInv
<1>3. ~r.used /\ flow[a].first <= r.expires /\ InPool(r, a) /\ kind = KindOf[a]
  BY <1>1, <1>2, Constants, Zenon DEF Fits, InPool, Clear
<1>4. Unspent(a) /\ cli[a].res # NoAttempt
  BY ClearUnspent, Zenon
<1>5. PICK w \in reservations : w.id = cli[a].res /\ ~w.used
  BY <1>1, <1>3, <1>4, Zenon DEF CorInv, Guided, Own
<1>6. /\ w.expires = cli[a].at + ResTTL /\ w.ip = AddrOf[SidOf[a]]
      /\ w.ep = EpOf[a] /\ w.kind = KindOf[a] /\ w.expires \in Nat
  BY <1>4, <1>5, WindowIn, Zenon DEF CorInv, Named
<1>7. SUFFICES ASSUME r.id # cli[a].res
               PROVE  FALSE
  BY Zenon DEF r
<1>8. r.expires < w.expires
  BY <1>1, <1>3, <1>4, <1>6, <1>7, Zenon DEF CorInv, Serial, Unspent
<1>9. flow[a].first <= w.expires
  BY <1>2, <1>3, <1>6, <1>8, Parts, SMTT(60) DEF CorInv
<1>10. w.expires <= r.expires
  BY <1>1, <1>3, <1>5, <1>6, <1>9, Zenon DEF Fits
<1> QED
  BY <1>2, <1>6, <1>8, <1>10

\* In a clear situation, before gc may drop the attempt's window, something is found.
LEMMA WindowWaits ==
    ASSUME CorInv, ~astray, NEW a \in Attempts, NEW kind \in Kinds, Clear(a, kind),
           flow[a].pc \in {"open", "got"}, flow[a].att = NoAttempt,
           flow[a].first <= cli[a].at + ResTTL, now < cli[a].at + ResTTL + Minute
    PROVE  FoundFor(a, kind) # NoRes
<1>1. Unspent(a) /\ cli[a].res # NoAttempt
  BY ClearUnspent, Zenon
<1>2. PICK w \in reservations : w.id = cli[a].res /\ ~w.used
  BY <1>1, Zenon DEF CorInv, Guided, Own
<1>3. /\ w.expires = cli[a].at + ResTTL /\ w.ip = AddrOf[SidOf[a]]
      /\ w.ep = EpOf[a] /\ w.kind = KindOf[a]
  BY <1>1, <1>2, Zenon DEF CorInv, Named
<1>4. Fits(w, AddrOf[SidOf[a]], EpOf[a], kind, flow[a].first)
  BY <1>2, <1>3, Zenon DEF Fits, Clear
<1>5. now + ResTTL \in Nat
  BY Constants DEF CorInv, CorTypes
<1>6. \A r \in reservations : r.id \in Nat /\ r.expires \in Nat /\ r.expires <= now + ResTTL
  BY WindowIn, Zenon DEF CorInv, Named
<1>7. FoundFor(a, kind) \in reservations
  BY <1>4, <1>5, <1>6, NewestFound, Zenon DEF FoundFor
<1>8. NoRes \notin reservations
  BY CorrelationConstants, Zenon DEF CorInv, Named, Windows, Eps
<1> QED
  BY <1>7, <1>8, Zenon

\* A handshake is correlated: f is its flow before the window found, if any, is applied.
LEMMA MatchInv ==
    ASSUME CorInv, NEW a \in Attempts, NEW kind \in Kinds, NEW f \in FlowType,
           flow[a].pc \in {"open", "got"}, flow[a].att = NoAttempt,
           f.pc \in {"got", "closing"}, f.kind = kind, f.att = NoAttempt, f.sid = NoSid,
           f.first = flow[a].first, f.copies = flow[a].copies,
           consume(FoundFor(a, kind)),
           flow' = [flow EXCEPT ![a] = Applied(f, FoundFor(a, kind))],
           astray' \in BOOLEAN, ~astray' => ~astray /\ Clear(a, kind),
           UNCHANGED <<mode, now, cli>>
    PROVE  CorInv'
<1> DEFINE r == FoundFor(a, kind)
<1>1. UNCHANGED <<sessions, obs, freshId, mode, now, cli>>
  BY Zenon DEF consume
<1>2. r # NoRes => /\ r \in reservations /\ ~r.used /\ r.id \in Nat /\ r.sid \in Sids
                   /\ r.id < freshId
  <2>1. r # NoRes => r \in reservations /\ ~r.used
    BY Lookup, Zenon DEF Fits
  <2> HIDE DEF r
  <2> QED
    BY <2>1, WindowIn, Zenon DEF CorInv, Named
<1>3. ~astray' => /\ r # NoRes => r.id = cli[a].res
                  /\ Unspent(a) /\ cli[a].res # NoAttempt
  BY OwnWindowFound, ClearUnspent, Zenon
<1>4. (~astray' /\ flow[a].first <= cli[a].at + ResTTL /\ now < cli[a].at + ResTTL + Minute)
         => r # NoRes
  BY WindowWaits, Zenon
<1>5. /\ r = NoRes => reservations' = reservations
      /\ Windows(Eps)'
      /\ r # NoRes => /\ \A q \in reservations' :
                            \/ q \in reservations /\ q.id # r.id
                            \/ /\ q.id = r.id /\ q.used /\ q.expires = r.expires
                               /\ q.ip = r.ip /\ q.ep = r.ep /\ q.kind = r.kind /\ q.sid = r.sid
                      /\ \A q \in reservations : q.id # r.id => q \in reservations'
  <2>1. CASE r = NoRes
    BY <2>1, Zenon DEF consume, CorInv, Named, Windows
  <2>2. CASE r # NoRes
    BY <1>2, <2>2, ConsumeMarks DEF CorInv, Named
  <2> QED
    BY <2>1, <2>2, Zenon
<1>6. flow' = [flow EXCEPT ![a] = Applied(f, r)]
  BY Zenon
<1> HIDE DEF r
<1>7. /\ flow' \in [Attempts -> FlowType] /\ flow'[a] = Applied(f, r)
      /\ \A b \in Attempts : b # a => flow'[b] = flow[b]
  BY <1>2, <1>6, AppliedTo DEF CorInv, CorTypes
<1>8. /\ flow'[a].pc = f.pc /\ flow'[a].kind = kind /\ flow'[a].copies = flow[a].copies
      /\ flow'[a].first = flow[a].first
      /\ r = NoRes => flow'[a].att = NoAttempt /\ flow'[a].sid = NoSid
      /\ r # NoRes => flow'[a].att = r.id /\ flow'[a].sid = r.sid
  BY <1>2, <1>7, AppliedTo
<1>9. /\ ~Holds(a) /\ kind # AnyKind /\ (Holds(a)' <=> r # NoRes)
      /\ \A b \in Attempts : b # a => (Holds(b)' <=> Holds(b)) /\ (Unspent(b)' <=> Unspent(b))
  BY <1>1, <1>2, <1>7, <1>8, Constants DEF Holds, Unspent
<1>10. CorTypes'
  BY <1>1, <1>7, Zenon DEF CorInv, CorTypes
<1>11. Staged'
  <2>1. cli[a].pc \in {"sent", "done"}
    BY Parts, Zenon DEF CorInv, Staged, StageOf
  <2>2. flow'[a].sid = NoSid <=> flow'[a].att = NoAttempt
    BY <1>2, <1>8, Constants
  <2>3. StageOf(a)
    BY Zenon DEF CorInv, Staged
  <2>4. StageOf(a)'
    BY <1>1, <1>8, <1>9, <2>1, <2>2, <2>3, Zenon DEF StageOf
  <2> QED
    BY <1>1, <1>7, <2>4, StagedMoves, Zenon DEF CorInv
<1>12. Named'
  <2>1. \A q \in reservations' : \E p \in reservations :
           /\ q.id = p.id /\ q.expires = p.expires /\ q.ip = p.ip /\ q.ep = p.ep
           /\ q.kind = p.kind /\ q.sid = p.sid
    BY <1>2, <1>5, Zenon
  <2> QED
    BY <1>1, <1>5, <2>1 DEF CorInv, Named
<1>13. Serial'
  <2>1. \A q \in reservations' : \E p \in reservations :
           q.id = p.id /\ q.expires = p.expires /\ q.ep = p.ep /\ q.kind = p.kind /\ q.sid = p.sid
    BY <1>2, <1>5, Zenon
  <2> QED
    BY <1>1, <2>1, SerialStays, Zenon DEF CorInv
<1>14. Once'
  <2>1. \A q \in reservations' : q.used \/ (q \in reservations /\ (r # NoRes => q.id # r.id))
    BY <1>5, Zenon
  <2>2. ASSUME NEW b \in Attempts, b # a, Holds(b)
        PROVE  /\ flow[b].att < freshId
               /\ \A q \in reservations' : q.id = flow[b].att => q.used
               /\ r # NoRes => flow[b].att # r.id
    BY <1>2, <2>1, <2>2, Zenon DEF CorInv, Once
  <2>3. ASSUME NEW o \in obs, ~o.empty
        PROVE  /\ o.att < freshId
               /\ \A q \in reservations' : q.id = o.att => q.used
               /\ r # NoRes => o.att # r.id
    BY <1>2, <2>1, <2>3, Zenon DEF CorInv, Once
  <2>4. ASSUME NEW b \in Attempts, Holds(b)'
        PROVE  /\ flow'[b].att < freshId
               /\ \A q \in reservations' : q.id = flow'[b].att => q.used
               /\ \A c \in Attempts : (Holds(c)' /\ flow'[c].att = flow'[b].att) => b = c
               /\ \A o \in obs : o.empty \/ o.att # flow'[b].att
    <3>1. CASE b = a
      BY <1>2, <1>7, <1>8, <1>9, <2>1, <2>2, <2>3, <2>4, <3>1
    <3>2. CASE b # a
      BY <1>7, <1>8, <1>9, <2>2, <2>4, <3>2 DEF CorInv, Once
    <3> QED
      BY <3>1, <3>2, Zenon
  <2>5. \A o, q \in obs : (~o.empty /\ ~q.empty /\ q.att = o.att) => o = q
    BY Zenon DEF CorInv, Once
  <2> QED
    BY <1>1, <2>3, <2>4, <2>5, Zenon DEF Once
<1>15. Guided'
  <2>1. SUFFICES ASSUME ~astray'
                 PROVE  Guided'
    BY Zenon DEF Guided
  <2>2. ~astray
    BY <2>1, Zenon
  <2>3. \A b \in Attempts : Holds(b)' => flow'[b].att = cli[b].res
    BY <1>3, <1>7, <1>8, <1>9, <2>1, <2>2, Zenon DEF CorInv, Guided
  <2>4. ASSUME NEW b \in Attempts, Unspent(b)',
               \/ now < cli[b].at + ResTTL + Minute
               \/ \E q \in reservations' : ~q.used /\ InPool(q, b)
        PROVE  Own(b)'
    <3>1. Unspent(b) /\ (r # NoRes => b # a)
      BY <1>3, <1>9, <2>1, <2>4, Zenon DEF Unspent
    <3>2. \A q \in reservations' : ~q.used => q \in reservations
      BY <1>5, Zenon
    <3>3. PICK w \in reservations : w.id = cli[b].res /\ ~w.used
      BY <2>2, <2>4, <3>1, <3>2, Zenon DEF CorInv, Guided, Own
    <3>4. w \in reservations'
      <4>1. r # NoRes => cli[b].res # r.id
        BY <1>3, <2>1, <3>1 DEF CorInv, Named
      <4> QED
        BY <1>5, <3>3, <4>1, Zenon
    <3> QED
      BY <1>1, <3>3, <3>4, Zenon DEF Own
  <2> QED
    BY <1>1, <2>2, <2>3, <2>4, Zenon DEF CorInv, Guided, InPool
<1>16. ReservedFlowMatched'
  <2>1. SUFFICES ASSUME ~astray'
                 PROVE  ReservedFlowMatched'
    BY Zenon DEF ReservedFlowMatched
  <2>2. ~astray
    BY <2>1, Zenon
  <2>3. ASSUME NEW b \in Attempts, Closing(b)', flow'[b].first <= cli[b].at + ResTTL,
               now < cli[b].at + ResTTL + Minute
        PROVE  flow'[b].att = cli[b].res
    <3>1. CASE b = a
      BY <1>3, <1>4, <1>8, <2>1, <2>3, <3>1, Zenon
    <3>2. CASE b # a
      BY <1>7, <2>2, <2>3, <3>2, Zenon DEF CorInv, ReservedFlowMatched, Closing
    <3> QED
      BY <3>1, <3>2, Zenon
  <2> QED
    BY <1>1, <2>3, Zenon DEF ReservedFlowMatched, Closing
<1> QED
  BY <1>10, <1>11, <1>12, <1>13, <1>14, <1>15, <1>16, Zenon DEF CorInv

\* A handshake is read: a flow that is correlated later only learns its kind.
LEMMA ParseInv ==
    ASSUME CorInv, NEW a \in Attempts, NEW kind \in LooksLike[a], NEW whole \in BOOLEAN,
           Parse(a, kind, whole)
    PROVE  CorInv'
<1>1. kind \in Kinds /\ kind # AnyKind
  BY Constants, Zenon
<1>2. /\ flow[a].pc = "open" /\ flow[a].kind = AnyKind /\ flow[a].att = NoAttempt
      /\ flow[a].sid = NoSid
  BY Zenon DEF Parse, CorInv, Staged, StageOf
<1>3. CASE AtOnce(a, kind, whole)
  <2> DEFINE pc == IF mode[a] = "datagram" THEN "closing" ELSE "got"
             f == [flow[a] EXCEPT !.pc = pc, !.kind = kind]
  <2>1. /\ consume(FoundFor(a, kind)) /\ astray' = (astray \/ ~Clear(a, kind))
        /\ flow' = [flow EXCEPT ![a] = Applied(f, FoundFor(a, kind))]
        /\ UNCHANGED <<mode, now, cli>>
    BY <1>3, Zenon DEF Parse
  <2>2. /\ f \in FlowType /\ f.pc \in {"got", "closing"} /\ f.kind = kind /\ f.att = NoAttempt
        /\ f.sid = NoSid /\ f.first = flow[a].first /\ f.copies = flow[a].copies
    BY <1>1, <1>2, Parts, Zenon DEF CorInv, FlowType
  <2>3. astray' \in BOOLEAN /\ (~astray' => ~astray /\ Clear(a, kind))
    BY <2>1, Zenon
  <2> HIDE DEF f, pc
  <2> QED
    BY <1>1, <1>2, <2>1, <2>2, <2>3, MatchInv, Zenon
<1>4. CASE ~AtOnce(a, kind, whole)
  <2>1. /\ UNCHANGED <<sessions, obs, reservations, freshId, mode, now, cli, astray>>
        /\ flow' = [flow EXCEPT ![a].pc = "got", ![a].kind = kind]
    BY <1>4, Zenon DEF Parse, storeVars
  <2>2. /\ flow' \in [Attempts -> FlowType]
        /\ flow'[a].pc = "got" /\ flow'[a].kind = kind /\ flow'[a].att = NoAttempt
        /\ flow'[a].sid = NoSid /\ flow'[a].copies = flow[a].copies
        /\ \A b \in Attempts : b # a => flow'[b] = flow[b]
    BY <1>1, <1>2, <2>1 DEF CorInv, CorTypes, FlowType
  <2>3. CorTypes'
    BY <2>1, <2>2, Zenon DEF CorInv, CorTypes
  <2>4. Staged'
    <3>1. StageOf(a)
      BY Zenon DEF CorInv, Staged
    <3>2. StageOf(a)'
      BY <1>1, <1>2, <2>1, <2>2, <3>1, Zenon DEF StageOf
    <3> QED
      BY <2>1, <2>2, <3>2, StagedMoves, Zenon DEF CorInv
  <2>5. \A b \in Attempts : Keeps(b) /\ Carries(b) /\ Waits(b) /\ Rests(b)
    BY <1>2, <2>1, <2>2 DEF Keeps, Carries, Waits, Rests, Closing, Holds, Unspent
  <2>6. Named' /\ Once' /\ Guided' /\ ReservedFlowMatched'
    BY <2>1, <2>5, NamedStays, OnceStays, GuidedStays, MatchedStays, Zenon DEF CorInv
  <2>7. Serial'
    BY <2>1, SerialStays, Zenon DEF CorInv
  <2> QED
    BY <2>3, <2>4, <2>6, <2>7, Zenon DEF CorInv
<1> QED
  BY <1>3, <1>4, Zenon

\* finish of a connection that carried a handshake: correlated now unless it already was.
LEMMA FinishInv ==
    ASSUME CorInv, NEW a \in Attempts, Finish(a)
    PROVE  CorInv'
<1>1. flow[a].pc = "got" /\ flow[a].kind \in Kinds /\ flow[a].kind # AnyKind
  BY Parts, Zenon DEF Finish, CorInv, Staged, StageOf
<1>2. CASE flow[a].sid = NoSid
  <2> DEFINE f == [flow[a] EXCEPT !.pc = "closing"]
             kind == flow[a].kind
  <2>1. /\ consume(FoundFor(a, kind)) /\ astray' = (astray \/ ~Clear(a, kind))
        /\ flow' = [flow EXCEPT ![a] = Applied(f, FoundFor(a, kind))]
        /\ UNCHANGED <<mode, now, cli>>
    BY <1>2, Zenon DEF Finish
  <2>2. flow[a].att = NoAttempt
    BY <1>2, Zenon DEF CorInv, Staged, StageOf
  <2>3. /\ f \in FlowType /\ f.pc \in {"got", "closing"} /\ f.kind = kind /\ f.att = NoAttempt
        /\ f.sid = NoSid /\ f.first = flow[a].first /\ f.copies = flow[a].copies
    BY <1>1, <1>2, <2>2, Parts, Zenon DEF CorInv, FlowType
  <2>4. astray' \in BOOLEAN /\ (~astray' => ~astray /\ Clear(a, kind))
    BY <2>1, Zenon
  <2>5. kind \in Kinds
    BY <1>1, Zenon
  <2> HIDE DEF f, kind
  <2> QED
    BY <1>1, <2>1, <2>2, <2>3, <2>4, <2>5, MatchInv, Zenon
<1>3. CASE flow[a].sid # NoSid
  <2>1. /\ UNCHANGED <<sessions, obs, reservations, freshId, mode, now, cli, astray>>
        /\ flow' = [flow EXCEPT ![a].pc = "closing"]
    BY <1>3, Zenon DEF Finish, storeVars
  <2>2. /\ flow' \in [Attempts -> FlowType]
        /\ flow'[a].pc = "closing" /\ flow'[a].kind = flow[a].kind
        /\ flow'[a].att = flow[a].att /\ flow'[a].sid = flow[a].sid
        /\ flow'[a].copies = flow[a].copies /\ flow'[a].first = flow[a].first
        /\ \A b \in Attempts : b # a => flow'[b] = flow[b]
    BY <2>1, Zenon DEF CorInv, CorTypes, FlowType
  <2>3. Holds(a)
    BY <1>1, <1>3, Zenon DEF CorInv, Staged, StageOf, Holds
  <2>4. CorTypes'
    BY <2>1, <2>2, Zenon DEF CorInv, CorTypes
  <2>5. Staged'
    <3>1. StageOf(a)
      BY Zenon DEF CorInv, Staged
    <3>2. StageOf(a)'
      BY <1>1, <2>1, <2>2, <3>1, Zenon DEF StageOf
    <3> QED
      BY <2>1, <2>2, <3>2, StagedMoves, Zenon DEF CorInv
  <2>6. \A b \in Attempts : Keeps(b) /\ Carries(b) /\ Waits(b)
    BY <1>1, <2>1, <2>2, Zenon DEF Keeps, Carries, Waits, Holds, Unspent
  <2>7. Named' /\ Once' /\ Guided'
    BY <2>1, <2>6, NamedStays, OnceStays, GuidedStays, Zenon DEF CorInv
  <2>8. Serial'
    BY <2>1, SerialStays, Zenon DEF CorInv
  <2>9. ReservedFlowMatched'
    BY <2>1, <2>2, <2>3 DEF CorInv, Guided, ReservedFlowMatched
  <2> QED
    BY <2>4, <2>5, <2>6, <2>7, <2>8, <2>9, Zenon DEF CorInv
<1> QED
  BY <1>2, <1>3, Zenon

----------------------------------------------------------------------------
(* The client's steps. *)

\* Lock: the pool's mutex is free.
LEMMA LockInv ==
    ASSUME CorInv, NEW a \in Attempts, Lock(a)
    PROVE  CorInv'
<1>1. /\ UNCHANGED <<sessions, obs, reservations, freshId, mode, now, flow, astray>>
      /\ cli[a].pc = "todo" /\ cli' = [cli EXCEPT ![a].pc = "locked"]
      /\ \A b \in Attempts : InFlight(b) => Pool(b) # Pool(a)
  BY Zenon DEF Lock, Become, storeVars
<1>2. /\ cli' \in [Attempts -> CliType]
      /\ cli'[a].pc = "locked" /\ cli'[a].at = cli[a].at /\ cli'[a].res = cli[a].res
      /\ \A b \in Attempts : b # a => cli'[b] = cli[b]
  BY <1>1, Zenon DEF CorInv, CorTypes, CliType
<1>3. CorTypes'
  BY <1>1, <1>2, Zenon DEF CorInv, CorTypes
<1>4. Staged'
  <2>1. StageOf(a)
    BY Zenon DEF CorInv, Staged
  <2>2. StageOf(a)'
    BY <1>1, <1>2, <2>1, Zenon DEF StageOf
  <2> QED
    BY <1>1, <1>2, <2>2, StagedMoves, Zenon DEF CorInv
<1>5. \A b \in Attempts : Keeps(b) /\ Carries(b) /\ Waits(b) /\ Rests(b)
  BY <1>1, <1>2, Zenon DEF Keeps, Carries, Waits, Rests, Closing, Holds, Unspent
<1>6. Named' /\ Once' /\ Guided' /\ ReservedFlowMatched'
  BY <1>1, <1>5, NamedStays, OnceStays, GuidedStays, MatchedStays, Zenon DEF CorInv
<1>7. Serial'
  BY <1>1, <1>2 DEF CorInv, Serial, InFlight, InPool, Pool
<1> QED
  BY <1>3, <1>4, <1>6, <1>7, Zenon DEF CorInv

\* EndAttempt keeps the invariant: the attempt is over, its flow goes on.
LEMMA EndAttemptInv ==
    ASSUME CorInv, NEW a \in Attempts, EndAttempt(a)
    PROVE  CorInv'
<1>1. /\ UNCHANGED <<sessions, obs, reservations, freshId, mode, now, flow, astray>>
      /\ cli[a].pc = "sent" /\ cli' = [cli EXCEPT ![a].pc = "done"]
  BY Zenon DEF EndAttempt, Become, storeVars
<1>2. /\ cli' \in [Attempts -> CliType]
      /\ cli'[a].pc = "done" /\ cli'[a].at = cli[a].at /\ cli'[a].res = cli[a].res
      /\ \A b \in Attempts : b # a => cli'[b] = cli[b]
  BY <1>1, Zenon DEF CorInv, CorTypes, CliType
<1>3. CorTypes'
  BY <1>1, <1>2, Zenon DEF CorInv, CorTypes
<1>4. Staged'
  <2>1. StageOf(a)
    BY Zenon DEF CorInv, Staged
  <2>2. StageOf(a)'
    BY <1>1, <1>2, <2>1, Zenon DEF StageOf
  <2> QED
    BY <1>1, <1>2, <2>2, StagedMoves, Zenon DEF CorInv
<1>5. \A b \in Attempts : Keeps(b) /\ Carries(b) /\ Waits(b) /\ Rests(b)
  BY <1>1, <1>2, Zenon DEF Keeps, Carries, Waits, Rests, Closing, Holds, Unspent
<1>6. Named' /\ Once' /\ Guided' /\ ReservedFlowMatched'
  BY <1>1, <1>5, NamedStays, OnceStays, GuidedStays, MatchedStays, Zenon DEF CorInv
<1>7. Serial'
  BY <1>1, <1>2 DEF CorInv, Serial, InFlight, InPool, Pool
<1> QED
  BY <1>3, <1>4, <1>6, <1>7, Zenon DEF CorInv

\* handleAttempt up to the rate limit: the clock it reads is what the window counts from.
LEMMA AskReservationInv ==
    ASSUME CorInv, NEW a \in Attempts, AskReservation(a)
    PROVE  CorInv'
<1>1. /\ UNCHANGED <<sessions, obs, reservations, freshId, mode, now, flow, astray>>
      /\ cli[a].pc = "locked" /\ now \in Nat
      /\ \E pc \in {"allowed", "done"} :
            \/ cli' = [cli EXCEPT ![a].at = now, ![a].pc = pc]
            \/ pc = "done" /\ cli' = [cli EXCEPT ![a].pc = pc]
  BY Zenon DEF AskReservation, Become, storeVars, allowAttempt, CorInv, CorTypes
<1>2. /\ cli' \in [Attempts -> CliType]
      /\ cli'[a].pc \in {"allowed", "done"} /\ cli'[a].at \in {now, cli[a].at}
      /\ cli'[a].pc = "allowed" => cli'[a].at = now
      /\ cli'[a].res = cli[a].res /\ cli[a].res = NoAttempt
      /\ \A b \in Attempts : b # a => cli'[b] = cli[b]
  BY <1>1 DEF CorInv, CorTypes, CliType, Staged, StageOf
<1>3. CorTypes'
  BY <1>1, <1>2, Zenon DEF CorInv, CorTypes
<1>4. Staged'
  <2>1. StageOf(a)
    BY Zenon DEF CorInv, Staged
  <2>2. StageOf(a)'
    BY <1>1, <1>2, <2>1, Parts DEF CorInv, StageOf
  <2> QED
    BY <1>1, <1>2, <2>2, StagedMoves, Zenon DEF CorInv
<1>5. \A b \in Attempts : Keeps(b) /\ Carries(b) /\ Waits(b) /\ Rests(b)
  <2>1. flow[a].pc = "none"
    BY <1>1, Zenon DEF CorInv, Staged, StageOf
  <2> QED
    BY <1>1, <1>2, <2>1, Zenon DEF Keeps, Carries, Waits, Rests, Closing, Holds, Unspent
<1>6. Named' /\ Once' /\ Guided' /\ ReservedFlowMatched'
  BY <1>1, <1>5, NamedStays, OnceStays, GuidedStays, MatchedStays, Zenon DEF CorInv
<1>7. Serial'
  BY <1>1, <1>2 DEF CorInv, Serial, Named, InFlight, InPool, Pool
<1> QED
  BY <1>3, <1>4, <1>6, <1>7, Zenon DEF CorInv

\* Send keeps the invariant: the attempt's handshake is on its way.
LEMMA SendInv ==
    ASSUME CorInv, NEW a \in Attempts, Send(a)
    PROVE  CorInv'
<1>1. /\ UNCHANGED <<sessions, obs, reservations, freshId, mode, now, astray>>
      /\ cli[a].pc = "reserved" /\ cli' = [cli EXCEPT ![a].pc = "sent"]
      /\ flow[a].pc = "none" /\ flow' = [flow EXCEPT ![a].pc = "path"]
  BY Zenon DEF Send, Become, storeVars, CorInv, Staged, StageOf
<1>2. /\ cli' \in [Attempts -> CliType]
      /\ cli'[a].pc = "sent" /\ cli'[a].at = cli[a].at /\ cli'[a].res = cli[a].res
      /\ \A b \in Attempts : b # a => cli'[b] = cli[b]
  BY <1>1, Zenon DEF CorInv, CorTypes, CliType
<1>3. /\ flow' \in [Attempts -> FlowType]
      /\ flow'[a].pc = "path" /\ flow'[a].kind = flow[a].kind /\ flow'[a].att = flow[a].att
      /\ flow'[a].sid = flow[a].sid /\ flow'[a].copies = flow[a].copies
      /\ flow'[a].first = flow[a].first
      /\ \A b \in Attempts : b # a => flow'[b] = flow[b]
  BY <1>1, Zenon DEF CorInv, CorTypes, FlowType
<1>4. CorTypes'
  BY <1>1, <1>2, <1>3, Zenon DEF CorInv, CorTypes
<1>5. Staged'
  <2>1. StageOf(a)
    BY Zenon DEF CorInv, Staged
  <2>2. StageOf(a)'
    BY <1>1, <1>2, <1>3, <2>1, Zenon DEF StageOf
  <2> QED
    BY <1>1, <1>2, <1>3, <2>2, StagedMoves, Zenon DEF CorInv
<1>6. \A b \in Attempts : Keeps(b) /\ Carries(b) /\ Waits(b) /\ Rests(b)
  BY <1>1, <1>2, <1>3 DEF Keeps, Carries, Waits, Rests, Closing, Holds, Unspent
<1>7. Named' /\ Once' /\ Guided' /\ ReservedFlowMatched'
  BY <1>1, <1>6, NamedStays, OnceStays, GuidedStays, MatchedStays, Zenon DEF CorInv
<1>8. Serial'
  BY <1>1, <1>2 DEF CorInv, Serial, InFlight, InPool, Pool
<1> QED
  BY <1>4, <1>5, <1>7, <1>8, Zenon DEF CorInv

\* The rest of handleAttempt: the new window is the newest of its pool.
LEMMA ReserveInv ==
    ASSUME CorInv, NEW a \in Attempts, NEW answered \in BOOLEAN, Reserve(a, answered)
    PROVE  CorInv'
<1> DEFINE r == [id |-> freshId, expires |-> cli[a].at + ResTTL, ip |-> AddrOf[SidOf[a]],
                 ep |-> EpOf[a], kind |-> KindOf[a], used |-> FALSE, sid |-> SidOf[a]]
<1>1. /\ UNCHANGED <<sessions, obs, mode, now, flow, astray>> /\ freshId' = freshId + 1
      /\ cli[a].pc = "allowed" /\ reserve(r)
      /\ \A q \in reservations : q.expires # cli[a].at + ResTTL
      /\ \/ cli' = [cli EXCEPT ![a].pc = "reserved", ![a].res = freshId]
         \/ cli' = [cli EXCEPT ![a].pc = "done"]
  BY Zenon DEF Reserve, reserve
<1>2. freshId \in Nat /\ now \in Nat /\ cli[a].at \in Nat /\ cli[a].at <= now
      /\ cli[a].res = NoAttempt /\ flow[a].pc = "none"
  BY <1>1, Parts, Zenon DEF CorInv, CorTypes, Staged, StageOf
<1>3. /\ cli' \in [Attempts -> CliType] /\ cli'[a].at = cli[a].at
      /\ \/ cli'[a].pc = "reserved" /\ cli'[a].res = freshId
         \/ cli'[a].pc = "done" /\ cli'[a].res = NoAttempt
      /\ \A b \in Attempts : b # a => cli'[b] = cli[b]
  BY <1>1, <1>2 DEF CorInv, CorTypes, CliType
<1>4. /\ r \in [id : Nat, expires : Nat, ip : Addrs, ep : Eps, kind : Kinds,
                used : BOOLEAN, sid : Sids]
      /\ r.id = freshId /\ r.expires = cli[a].at + ResTTL /\ ~r.used
      /\ r.ip = AddrOf[SidOf[a]] /\ r.sid = SidOf[a] /\ r.ep = EpOf[a] /\ r.kind = KindOf[a]
  BY <1>2, Constants DEF Eps
<1> HIDE DEF r
<1>5. Windows(Eps)' /\ reservations' = reservations \cup {r}
  BY <1>1, <1>2, <1>4, ReserveAdds DEF CorInv, Named, Windows
<1>6. CorTypes'
  BY <1>1, <1>2, <1>3 DEF CorInv, CorTypes
<1>7. Staged'
  <2>1. StageOf(a)
    BY Zenon DEF CorInv, Staged
  <2>2. StageOf(a)'
    BY <1>1, <1>2, <1>3, <2>1, Constants, Zenon DEF StageOf
  <2> QED
    BY <1>1, <1>3, <2>2, StagedMoves, Zenon DEF CorInv
<1>8. Named'
  <2>0. \A q \in reservations : q.id \in Nat /\ q.id < freshId /\ q.expires <= now + ResTTL
    BY WindowIn, Zenon DEF CorInv, Named
  <2>1. \A q \in reservations' : q.id < freshId' /\ q.expires <= now + ResTTL
    BY <1>1, <1>2, <1>4, <1>5, <2>0, Constants
  <2>2. \A b \in Attempts : cli[b].res # NoAttempt => cli[b].res \in Nat /\ cli[b].res < freshId
    BY Parts, Zenon DEF CorInv, Named
  <2>3. \A b \in Attempts : cli'[b].res # NoAttempt => cli'[b].res < freshId'
    BY <1>1, <1>2, <1>3, <2>2
  <2>4. \A b, c \in Attempts : (cli'[b].res # NoAttempt /\ cli'[c].res = cli'[b].res) => b = c
    BY <1>2, <1>3, <2>2 DEF CorInv, Named
  <2>5. \A b \in Attempts : \A q \in reservations' : (cli'[b].res # NoAttempt /\ q.id = cli'[b].res) =>
           /\ q.expires = cli'[b].at + ResTTL
           /\ q.ip = AddrOf[SidOf[b]] /\ q.sid = SidOf[b] /\ q.ep = EpOf[b] /\ q.kind = KindOf[b]
    <3>1. ASSUME NEW b \in Attempts, NEW q \in reservations', cli'[b].res # NoAttempt,
                 q.id = cli'[b].res
          PROVE  (b = a /\ q = r) \/ (b # a /\ q \in reservations)
      <4>1. q = r \/ (q \in reservations /\ q.id # freshId)
        BY <1>2, <1>5, <2>0
      <4>2. CASE b = a
        BY <1>2, <1>3, <3>1, <4>1, <4>2, Zenon
      <4>3. CASE b # a
        BY <1>2, <1>3, <1>4, <2>2, <3>1, <4>1, <4>3
      <4> QED
        BY <4>2, <4>3, Zenon
    <3> QED
      BY <1>3, <1>4, <3>1 DEF CorInv, Named
  <2> QED
    BY <1>1, <1>5, <2>1, <2>3, <2>4, <2>5 DEF Named
<1>9. Once'
  <2>1. \A b \in Attempts : Carries(b)
    BY <1>1, Zenon DEF Carries, Holds
  <2> QED
    BY <1>1, <1>4, <1>5, <2>1, OnceStays, Zenon DEF CorInv
<1>10. Serial'
  <2>1. \A b \in Attempts : InFlight(b)' => InFlight(b)
    BY <1>1, <1>3, Zenon DEF InFlight
  <2>2. \A b \in Attempts : (b # a /\ InFlight(b)) => ~InPool(r, b)
    BY <1>1, <1>4, Zenon DEF CorInv, Serial, InFlight, InPool, Pool
  <2>3. ASSUME NEW b \in Attempts, b # a, cli[b].pc \in {"allowed", "reserved", "sent"},
               NEW q \in reservations', InPool(q, b)
        PROVE  /\ q.expires <= cli[b].at + ResTTL
               /\ cli[b].pc # "allowed" /\ q.id # cli[b].res => q.expires < cli[b].at + ResTTL
    BY <1>5, <2>2, <2>3, Zenon DEF CorInv, Serial, InFlight
  <2>4. ASSUME NEW q \in reservations', InPool(q, a)
        PROVE  q.expires <= cli[a].at + ResTTL
               /\ (q # r => q.expires < cli[a].at + ResTTL)
    <3>1. CASE q = r
      BY <1>2, <1>4, <3>1, Constants
    <3>2. CASE q \in reservations
      <4>1. q.expires <= cli[a].at + ResTTL
        BY <1>1, <2>4, <3>2, Zenon DEF CorInv, Serial
      <4>2. q.expires \in Nat /\ q.expires # cli[a].at + ResTTL
        BY <1>1, <3>2, WindowIn, Zenon DEF CorInv
      <4> QED
        BY <1>2, <4>1, <4>2, Constants
    <3> QED
      BY <1>5, <3>1, <3>2, Zenon
  <2> QED
    BY <1>3, <1>4, <2>1, <2>3, <2>4 DEF CorInv, Serial, InPool, Pool
<1>11. Guided'
  <2>1. ASSUME NEW b \in Attempts, b # a, InFlight(b)
        PROVE  ~InPool(r, b)
    BY <1>1, <1>4, <2>1, Zenon DEF CorInv, Serial, InFlight, InPool, Pool
  <2>2. \A b \in Attempts : Own(b) /\ b # a => Own(b)'
    BY <1>3, <1>5, Zenon DEF Own
  <2>3. Unspent(a)' => Own(a)'
    BY <1>3, <1>4, <1>5, Zenon DEF Unspent, Own
  <2>4. \A o \in obs : o.owner \in Attempts /\ o.owner # a
    BY <1>1, Zenon DEF CorInv, CorTypes, Row, Staged, StageOf
  <2>5. \A b \in Attempts : b # a => (Unspent(b)' <=> Unspent(b))
    BY <1>1, <1>3, Zenon DEF Unspent, Holds
  <2>6. ~Holds(a)
    BY <1>2, Zenon DEF CorInv, Staged, StageOf, Holds
  <2>7. ASSUME ~astray, NEW b \in Attempts, b # a, Unspent(b)',
               \/ now < cli[b].at + ResTTL + Minute
               \/ \E q \in reservations' : ~q.used /\ InPool(q, b)
        PROVE  Own(b)'
    <3>1. Unspent(b) /\ InFlight(b)
      BY <2>5, <2>7, Zenon DEF Unspent, InFlight
    <3>2. \A q \in reservations' : InPool(q, b) => q \in reservations
      BY <1>5, <2>1, <2>7, <3>1, Zenon
    <3>3. Own(b)
      BY <2>7, <3>1, <3>2, Zenon DEF CorInv, Guided
    <3> QED
      BY <2>2, <2>7, <3>3, Zenon
  <2>8. ASSUME ~astray, NEW b \in Attempts, Holds(b)'
        PROVE  flow[b].att = cli'[b].res
    BY <1>1, <1>3, <2>6, <2>8, Zenon DEF CorInv, Guided, Holds
  <2>9. ~astray => \A o \in obs : o.empty \/ o.att = cli'[o.owner].res
    BY <1>3, <2>4, Zenon DEF CorInv, Guided
  <2> QED
    BY <1>1, <1>3, <2>3, <2>7, <2>8, <2>9, Zenon DEF Guided, InPool
<1>12. ReservedFlowMatched'
  <2>1. ASSUME NEW b \in Attempts, Closing(b)
        PROVE  b # a /\ cli'[b] = cli[b]
    BY <1>2, <1>3, <2>1, Zenon DEF Closing
  <2> QED
    BY <1>1, <2>1, Zenon DEF CorInv, ReservedFlowMatched, Closing
<1> QED
  BY <1>6, <1>7, <1>8, <1>9, <1>10, <1>11, <1>12, Zenon DEF CorInv

----------------------------------------------------------------------------
(* Time, garbage collection and the steps of the server that touch no window. *)

\* Tick keeps the invariant: windows age.
LEMMA TickInv ==
    ASSUME CorInv, Tick
    PROVE  CorInv'
<1>1. /\ UNCHANGED <<sessions, obs, reservations, freshId, mode, cli, flow, astray>>
      /\ now \in Nat /\ now' = now + 1
  BY Zenon DEF Tick, storeVars, CorInv, CorTypes
<1>2. \A a \in Attempts : cli[a].at \in Nat
  BY Parts, Zenon DEF CorInv
<1>3. CorTypes'
  BY <1>1 DEF CorInv, CorTypes
<1>4. Staged'
  BY <1>1, <1>2 DEF CorInv, Staged, StageOf
<1>5. \A b \in Attempts : Keeps(b) /\ Carries(b) /\ Waits(b) /\ Rests(b)
  BY <1>1, Zenon DEF Keeps, Carries, Waits, Rests, Closing, Holds, Unspent
<1>6. Named' /\ Once' /\ Guided' /\ ReservedFlowMatched'
  BY <1>1, <1>5, NamedStays, OnceStays, GuidedStays, MatchedStays, Zenon DEF CorInv
<1>7. Serial'
  BY <1>1, SerialStays, Zenon DEF CorInv
<1> QED
  BY <1>3, <1>4, <1>6, <1>7, Zenon DEF CorInv

\* gc: an unused window goes a minute after it expired, so the newest of a pool goes last.
LEMMA CollectInv ==
    ASSUME CorInv, Collect
    PROVE  CorInv'
<1>1. /\ UNCHANGED <<freshId, mode, now, cli, flow, astray>>
      /\ DOMAIN sessions' \subseteq DOMAIN sessions /\ obs' \subseteq obs
      /\ reservations' = {r \in reservations : ~r.used /\ now < r.expires + Minute}
      /\ reservations' \subseteq reservations /\ now \in Nat
  BY Zenon DEF Collect, gc, LiveReservation, CorInv, CorTypes
<1>2. CorTypes' /\ Staged'
  BY <1>1, Zenon DEF CorInv, CorTypes, Staged, StageOf
<1>3. Named'
  BY <1>1 DEF CorInv, Named, Windows
<1>4. \A b \in Attempts : Keeps(b) /\ Carries(b) /\ Rests(b)
  BY <1>1, Zenon DEF Keeps, Carries, Rests, Closing, Holds
<1>5. Guided'
  <2>1. ASSUME NEW a \in Attempts, ~astray, Unspent(a),
               \/ now < cli[a].at + ResTTL + Minute
               \/ \E r \in reservations' : ~r.used /\ InPool(r, a)
        PROVE  Own(a)'
    <3>1. PICK w \in reservations : w.id = cli[a].res /\ ~w.used
      BY <1>1, <2>1, Zenon DEF CorInv, Guided, Own
    <3>2. w.expires = cli[a].at + ResTTL /\ w.expires \in Nat
      BY <2>1, <3>1, WindowIn, Zenon DEF CorInv, Named, Staged, StageOf, Unspent
    <3>3. \A r \in reservations : InPool(r, a) => r.expires <= w.expires /\ r.expires \in Nat
      BY <2>1, <3>2, WindowIn, Zenon DEF CorInv, Serial, Unspent
    <3>4. now < w.expires + Minute
      BY <1>1, <2>1, <3>2, <3>3, Constants
    <3> QED
      BY <1>1, <3>1, <3>4, Zenon DEF Own
  <2> QED
    BY <1>1, <2>1, Zenon DEF CorInv, Guided, Holds, Unspent, InPool
<1>6. Once' /\ ReservedFlowMatched'
  BY <1>1, <1>4, OnceStays, MatchedStays, Zenon DEF CorInv
<1>7. Serial'
  BY <1>1, SerialStays, Zenon DEF CorInv
<1> QED
  BY <1>2, <1>3, <1>5, <1>6, <1>7, Zenon DEF CorInv

\* A connection or a datagram arrives; a copy that follows an earlier one is not the first.
LEMMA AcceptInv ==
    ASSUME CorInv, NEW a \in Attempts, Accept(a)
    PROVE  CorInv'
<1>1. /\ UNCHANGED <<sessions, obs, reservations, freshId, mode, now, cli, astray>>
      /\ flow[a].pc \in {"path", "over"} /\ now \in Nat
      /\ flow[a].pc = "over" => flow[a].copies # 0
      /\ flow' = [flow EXCEPT ![a] = [NoFlow EXCEPT !.pc = "open", !.first = now,
                                                   !.copies = flow[a].copies]]
  <2>1. flow[a].pc = "over" /\ flow[a].copies < MaxCopies => flow[a].copies # 0
    BY Parts, Constants DEF CorInv, Staged, StageOf
  <2> QED
    BY <2>1, Zenon DEF Accept, storeVars, CorInv, CorTypes
<1>2. /\ flow' \in [Attempts -> FlowType]
      /\ flow'[a].pc = "open" /\ flow'[a].kind = AnyKind /\ flow'[a].att = NoAttempt
      /\ flow'[a].sid = NoSid /\ flow'[a].copies = flow[a].copies
      /\ \A b \in Attempts : b # a => flow'[b] = flow[b]
  BY <1>1, Parts, Zenon DEF CorInv, CorTypes, FlowType, NoFlow
<1>3. flow[a].kind = AnyKind /\ flow[a].att = NoAttempt
  BY <1>1, Zenon DEF CorInv, Staged, StageOf
<1>4. CorTypes'
  BY <1>1, <1>2, Zenon DEF CorInv, CorTypes
<1>5. Staged'
  <2>1. StageOf(a)
    BY Zenon DEF CorInv, Staged
  <2>2. StageOf(a)'
    BY <1>1, <1>2, <2>1, Zenon DEF StageOf
  <2> QED
    BY <1>1, <1>2, <2>2, StagedMoves, Zenon DEF CorInv
<1>6. \A b \in Attempts : Keeps(b) /\ Carries(b) /\ Waits(b) /\ Rests(b)
  BY <1>1, <1>2, <1>3, Zenon DEF Keeps, Carries, Waits, Rests, Closing, Holds, Unspent
<1>7. Named' /\ Once' /\ Guided' /\ ReservedFlowMatched'
  BY <1>1, <1>6, NamedStays, OnceStays, GuidedStays, MatchedStays, Zenon DEF CorInv
<1>8. Serial'
  BY <1>1, SerialStays, Zenon DEF CorInv
<1> QED
  BY <1>4, <1>5, <1>7, <1>8, Zenon DEF CorInv

\* finish of a connection that carried nothing: the row names a window, and uses none.
LEMMA FinishEmptyInv ==
    ASSUME CorInv, NEW a \in Attempts, FinishEmpty(a)
    PROVE  CorInv'
<1> DEFINE r == FoundFor(a, AnyKind)
           f == [flow[a] EXCEPT !.pc = "closing"]
<1>1. /\ UNCHANGED <<sessions, obs, reservations, freshId, mode, now, cli, astray>>
      /\ flow[a].pc = "open" /\ flow' = [flow EXCEPT ![a] = Applied(f, r)]
  BY Zenon DEF FinishEmpty, storeVars
<1>2. r # NoRes => r.id \in Nat /\ r.sid \in Sids
  BY Lookup, WindowIn, Zenon DEF CorInv
<1>3. flow[a].kind = AnyKind /\ flow[a].att = NoAttempt /\ flow[a].sid = NoSid
  BY <1>1, Zenon DEF CorInv, Staged, StageOf
<1>4. /\ f \in FlowType /\ f.pc = "closing" /\ f.kind = AnyKind /\ f.att = NoAttempt
      /\ f.sid = NoSid /\ f.copies = flow[a].copies
  BY <1>3, Parts, Zenon DEF CorInv, FlowType
<1> HIDE DEF r, f
<1>5. /\ flow' \in [Attempts -> FlowType] /\ flow'[a] = Applied(f, r)
      /\ \A b \in Attempts : b # a => flow'[b] = flow[b]
  BY <1>1, <1>2, <1>4, AppliedTo, Zenon DEF CorInv, CorTypes
<1>6. /\ flow'[a].pc = "closing" /\ flow'[a].kind = AnyKind /\ flow'[a].copies = flow[a].copies
      /\ flow'[a].sid = NoSid <=> flow'[a].att = NoAttempt
  BY <1>2, <1>4, <1>5, AppliedTo, Constants
<1>7. CorTypes'
  BY <1>1, <1>5, Zenon DEF CorInv, CorTypes
<1>8. Staged'
  <2>1. StageOf(a)
    BY Zenon DEF CorInv, Staged
  <2>2. StageOf(a)'
    BY <1>1, <1>6, <2>1, Zenon DEF StageOf
  <2> QED
    BY <1>1, <1>5, <2>2, StagedMoves, Zenon DEF CorInv
<1>9. \A b \in Attempts : Keeps(b) /\ Carries(b) /\ Waits(b) /\ Rests(b)
  BY <1>1, <1>3, <1>5, <1>6, Zenon DEF Keeps, Carries, Waits, Rests, Closing, Holds, Unspent
<1>10. Named' /\ Once' /\ Guided' /\ ReservedFlowMatched'
  BY <1>1, <1>9, NamedStays, OnceStays, GuidedStays, MatchedStays, Zenon DEF CorInv
<1>11. Serial'
  BY <1>1, SerialStays, Zenon DEF CorInv
<1> QED
  BY <1>7, <1>8, <1>10, <1>11, Zenon DEF CorInv

\* The row is written: it takes over from its flow the window that the flow had used.
LEMMA RecordInv ==
    ASSUME CorInv, NEW a \in Attempts, Record(a)
    PROVE  CorInv'
<1> DEFINE o == [id |-> freshId, sid |-> flow[a].sid, first |-> flow[a].first,
                 att |-> flow[a].att, owner |-> a, empty |-> flow[a].kind = AnyKind]
           n == IF flow[a].copies < MaxCopies THEN flow[a].copies + 1 ELSE MaxCopies
<1>1. /\ UNCHANGED <<sessions, reservations, mode, now, cli, astray>>
      /\ freshId' = freshId + 1 /\ freshId \in Nat
      /\ \/ obs' = obs
         \/ obs' = obs \cup {o} /\ Live(flow[a].sid, now)
      /\ flow[a].pc = "closing"
      /\ flow' = [flow EXCEPT ![a] = [NoFlow EXCEPT !.pc = "over", !.copies = n]]
  <2>1. addObservationAt(o, now) /\ o.sid = flow[a].sid
    BY Zenon DEF Record
  <2> HIDE DEF o
  <2>2. /\ UNCHANGED <<sessions, reservations>> /\ freshId' = freshId + 1
        /\ \/ obs' = obs
           \/ obs' = obs \cup {o} /\ Live(flow[a].sid, now)
    BY <2>1, RowKept, Zenon
  <2> QED
    BY <2>2, Zenon DEF Record, CorInv, CorTypes
<1>2. n \in Nat /\ (n > 0 \/ MaxCopies = 0)
  BY Parts, Constants DEF CorInv
<1>3. /\ o.id = freshId /\ o.sid = flow[a].sid /\ o.first = flow[a].first
      /\ o.att = flow[a].att /\ o.owner = a /\ (o.empty <=> flow[a].kind = AnyKind)
  BY Zenon
<1>4. Live(flow[a].sid, now) => o \in Row
  <2>1. SUFFICES ASSUME flow[a].sid \in Sids
                 PROVE  o \in Row
    BY Zenon DEF Live, CorInv, CorTypes
  <2>2. flow[a].att \in Nat /\ flow[a].first \in Nat
    BY <2>1, Parts, Constants, Zenon DEF CorInv, Staged, StageOf
  <2> QED
    BY <1>1, <2>1, <2>2, Zenon DEF Row
<1> HIDE DEF o, n
<1>5. /\ flow' \in [Attempts -> FlowType]
      /\ flow'[a].pc = "over" /\ flow'[a].kind = AnyKind /\ flow'[a].att = NoAttempt
      /\ flow'[a].sid = NoSid /\ flow'[a].copies = n
      /\ \A b \in Attempts : b # a => flow'[b] = flow[b]
  BY <1>1, <1>2, Zenon DEF CorInv, CorTypes, FlowType, NoFlow
<1>6. \/ obs' = obs
      \/ obs' = obs \cup {o} /\ o \in Row
  BY <1>1, <1>4, Zenon
<1>7. ~o.empty /\ o \in Row => Holds(a)
  BY <1>3, Constants, Zenon DEF Row, Holds
<1>8. CorTypes'
  BY <1>1, <1>5, <1>6 DEF CorInv, CorTypes
<1>9. Staged'
  <2>1. cli[a].pc \in {"sent", "done"}
    BY <1>1, Parts, Zenon DEF CorInv, Staged, StageOf
  <2>2. StageOf(a)
    BY Zenon DEF CorInv, Staged
  <2>3. StageOf(a)'
    BY <1>1, <1>2, <1>5, <2>1, <2>2, Zenon DEF StageOf
  <2> QED
    BY <1>1, <1>3, <1>5, <1>6, <2>1, <2>3, StagedMoves, Zenon DEF CorInv
<1>10. Named' /\ Serial' /\ ReservedFlowMatched'
  <2>1. \A b \in Attempts : Keeps(b) /\ Rests(b)
    BY <1>1, <1>5, Zenon DEF Keeps, Rests, Closing
  <2> QED
    BY <1>1, <2>1, NamedStays, SerialStays, MatchedStays, Zenon DEF CorInv
<1>11. Once'
  <2>1. \A b \in Attempts : Holds(b)' => Holds(b) /\ b # a /\ flow'[b] = flow[b]
    BY <1>5, Zenon DEF Holds
  <2>2. \A b \in Attempts : Holds(b) => flow[b].att \in Nat
    BY Parts, Zenon DEF CorInv, Holds
  <2>3. \A q \in obs' : q.att \in Nat
    BY <1>8, Zenon DEF CorTypes, Row
  <2>4. \A q \in obs' : ~q.empty => \/ q \in obs
                                    \/ q = o /\ Holds(a) /\ q.att = flow[a].att
    BY <1>3, <1>6, <1>7, Zenon
  <2>5. ASSUME NEW b \in Attempts, Holds(b)'
        PROVE  /\ flow'[b].att < freshId'
               /\ \A r \in reservations' : r.id = flow'[b].att => r.used
               /\ \A c \in Attempts : (Holds(c)' /\ flow'[c].att = flow'[b].att) => b = c
               /\ \A q \in obs' : q.empty \/ q.att # flow'[b].att
    BY <1>1, <2>1, <2>2, <2>4, <2>5 DEF CorInv, Once
  <2>6. ASSUME NEW q \in obs', ~q.empty
        PROVE  /\ q.att < freshId'
               /\ \A r \in reservations' : r.id = q.att => r.used
               /\ \A p \in obs' : (~p.empty /\ p.att = q.att) => q = p
    BY <1>1, <2>2, <2>3, <2>4, <2>6 DEF CorInv, Once
  <2> QED
    BY <2>5, <2>6, Zenon DEF Once
<1>12. Guided'
  <2>1. ~Unspent(a)' /\ ~Holds(a)'
    BY <1>5, Zenon DEF Unspent, Holds
  <2>2. \A b \in Attempts : b # a => (Unspent(b)' <=> Unspent(b)) /\ (Holds(b)' <=> Holds(b))
    BY <1>1, <1>5, Zenon DEF Unspent, Holds
  <2>3. ~astray => \A q \in obs' : q.empty \/ q.att = cli[q.owner].res
    BY <1>3, <1>6, <1>7, Zenon DEF CorInv, Guided
  <2> QED
    BY <1>1, <1>5, <2>1, <2>2, <2>3, Zenon DEF CorInv, Guided, Own, InPool
<1> QED
  BY <1>8, <1>9, <1>10, <1>11, <1>12, Zenon DEF CorInv

----------------------------------------------------------------------------
(* The theorems. *)

\* The invariant holds at the start.
LEMMA InitInv ==
    ASSUME Init
    PROVE  CorInv
<1>1. /\ reservations = {} /\ obs = {} /\ ~astray /\ astray \in BOOLEAN
      /\ freshId \in Nat /\ now = 0 /\ mode \in Modes /\ DOMAIN sessions \subseteq Sids
  BY Zenon DEF Init
<1>2. \A a \in Attempts :
         /\ cli[a] \in CliType /\ cli[a].pc = "todo" /\ cli[a].at = 0 /\ cli[a].res = NoAttempt
         /\ flow[a] \in FlowType /\ flow[a].pc = "none" /\ flow[a].kind = AnyKind
         /\ flow[a].att = NoAttempt /\ flow[a].sid = NoSid
  BY Zenon DEF Init, NoFlow, CliType, FlowType
<1>3. CorTypes
  BY <1>1, <1>2, Zenon DEF Init, CorTypes
<1>4. Staged
  BY <1>1, <1>2 DEF Staged, StageOf
<1>5. Named /\ Once
  BY <1>1, <1>2, Zenon DEF Named, Windows, Once, Holds
<1>6. Serial
  BY <1>1, <1>2, Zenon DEF Serial, InFlight
<1>7. Guided
  BY <1>1, <1>2, Zenon DEF Guided, Holds, Unspent
<1>8. ReservedFlowMatched
  BY <1>2, Zenon DEF ReservedFlowMatched
<1> QED
  BY <1>3, <1>4, <1>5, <1>6, <1>7, <1>8, Zenon DEF CorInv

\* Every step keeps the invariant.
LEMMA NextInv ==
    ASSUME CorInv, [Next]_corVars
    PROVE  CorInv'
<1>1. CASE UNCHANGED corVars
  <2>1. UNCHANGED <<sessions, obs, reservations, freshId, mode, now, cli, flow, astray>>
    BY <1>1, Zenon DEF corVars, storeVars
  <2>2. CorTypes' /\ Staged'
    BY <2>1, Zenon DEF CorInv, CorTypes, Staged, StageOf
  <2>3. Named' /\ Serial'
    BY <2>1 DEF CorInv, Named, Windows, Serial, InFlight, InPool, Pool
  <2>4. Once'
    BY <2>1, Zenon DEF CorInv, Once, Holds
  <2>5. Guided'
    BY <2>1, Zenon DEF CorInv, Guided, Holds, Unspent, Own, InPool
  <2>6. ReservedFlowMatched'
    BY <2>1, Zenon DEF CorInv, ReservedFlowMatched
  <2> QED
    BY <2>2, <2>3, <2>4, <2>5, <2>6, Zenon DEF CorInv
<1>2. CASE Next
  BY <1>2, LockInv, AskReservationInv, ReserveInv, SendInv, EndAttemptInv, AcceptInv, ParseInv,
     FinishEmptyInv, FinishInv, RecordInv, CollectInv, TickInv, Zenon DEF Next
<1> QED
  BY <1>1, <1>2, Zenon

\* The inductive invariant.
THEOREM CorInvariant == Spec => []CorInv
  BY InitInv, NextInv, PTL DEF Spec

\* matchReservation: of all handshakes, one's row names a given reservation.
THEOREM ReservationUsedOnceHolds == Spec => []ReservationUsedOnce
<1>1. CorInv => ReservationUsedOnce
  BY Zenon DEF CorInv, Once, ReservationUsedOnce
<1> QED
  BY <1>1, CorInvariant, PTL

\* The pool mutex of run.go and findReservation's newest-first order together: as long as every
\* handshake was correlated in a clear situation, its row names the attempt that caused it.
THEOREM SerialPoolsUnambiguousHolds == Spec => []SerialPoolsUnambiguous
<1>1. CorInv => SerialPoolsUnambiguous
  BY Zenon DEF CorInv, Guided, SerialPoolsUnambiguous
<1> QED
  BY <1>1, CorInvariant, PTL

\* A handshake first seen in its window and over before gc may drop it is matched.
THEOREM ReservedFlowMatchedHolds == Spec => []ReservedFlowMatched
<1>1. CorInv => ReservedFlowMatched
  BY Zenon DEF CorInv
<1> QED
  BY <1>1, CorInvariant, PTL

\* mergeObservations: the row attached to an attempt is the one of its handshake, whichever
\* empty flows were attributed to the same reservation.
THEOREM OwnRowAttachedHolds == Spec => []OwnRowAttached
<1>1. CorInv => OwnRowAttached
  <2>1. SUFFICES ASSUME CorInv, ~astray, NEW o \in obs, ~o.empty
                 PROVE  Attached(o.owner) = {o}
    BY Zenon DEF OwnRowAttached
  <2>2. o.att = cli[o.owner].res /\ o.id \in Nat
    BY <2>1, Zenon DEF CorInv, CorTypes, Row, Guided
  <2>3. \A q \in obs : (~q.empty /\ q.att = o.att) => q = o
    BY <2>1, Zenon DEF CorInv, Once
  <2> DEFINE mine == {q \in obs : q.att = cli[o.owner].res}
             best == IF \E q \in mine : ~q.empty THEN {q \in mine : ~q.empty} ELSE mine
  <2>4. best = {o}
    BY <2>1, <2>2, <2>3, Zenon
  <2>5. Attached(o.owner) = {q \in best : \A p \in best : q.id <= p.id}
    BY Zenon DEF Attached
  <2> HIDE DEF best
  <2> QED
    BY <2>2, <2>4, <2>5
<1> QED
  BY <1>1, CorInvariant, PTL
=============================================================================
