---------------------------- MODULE UdpVpnProofs ----------------------------
(***************************************************************************)
(* Proofs about the UDP listener's follow-ups (UdpVpn) for any peers,      *)
(* addresses, wire ids, protocols, limits and bounds.  The inductive       *)
(* invariant UdpInv says how the four pieces of state that the handlers    *)
(* share hang together: the store's windows and the sessions they opened,  *)
(* the listener's maps and those sessions, the row being served and the    *)
(* session it names, the QUIC endpoint's queue and the Initials matched.   *)
(***************************************************************************)
EXTENDS UdpVpn, WellFoundedInduction, TLAPS

\* The windows are reservations of ports eps, each with an id of its own.
Windows(eps) ==
    /\ reservations \subseteq [id : Nat, expires : Nat, ip : Addrs, ep : eps,
                               kind : Kinds, used : BOOLEAN, sid : Sids]
    /\ \A r, q \in reservations : r.id = q.id => r = q

SessType == [att : Nat, sid : Sids, peer : Peers, key : Keys \cup Peers, expires : Nat,
             dataIn : Nat, dataOut : Nat, ctlIn : Nat, ctlOut : Nat, ready : BOOLEAN]

UdpTypes ==
    /\ proto \in Protocols /\ now \in Nat /\ granted \in Nat
    /\ DOMAIN sessions \subseteq Sids /\ \A s \in DOMAIN sessions : sessions[s].ip \in Addrs
    /\ sess \in Seq(SessType)
    /\ quicC \in Seq([peer : Peers, at : Nat])

\* No window reaches beyond ResTTL from now, and the ones that opened a session are used.
Spent ==
    /\ Windows({Port})
    /\ \A r \in reservations : r.id < granted /\ r.expires <= now + ResTTL
    /\ \A i \in DOMAIN sess :
          /\ sess[i].att < granted
          /\ \A r \in reservations : r.id = sess[i].att => r.used

\* What a session has echoed is bounded by what it counted, and that by the limit.
Within(s) ==
    /\ s.dataOut <= s.dataIn
    /\ proto # "l2tp" => s.ctlOut <= s.ctlIn
    /\ proto # "openvpn" => s.ctlIn = 0
    /\ s.dataOut + (IF proto = "l2tp" THEN 0 ELSE s.ctlOut) <= vpnSessionMaxData

Bounded ==
    /\ \A i, j \in DOMAIN sess : sess[i].att = sess[j].att => i = j
    /\ \A i \in DOMAIN sess : Within(sess[i])

\* The maps lead to sessions, the two keyed by the peer to sessions of that peer.
Tabled ==
    /\ table = [t \in Tables |-> table[t]]
    /\ \A t \in Tables : \A k \in DOMAIN table[t] : table[t][k] \in DOMAIN sess
    /\ \A t \in {"ovpnPeer", "dtlsFlows"} :
          \A p \in DOMAIN table[t] : sess[table[t][p]].peer = p

\* The maps a protocol uses, and the id of session i in each.
UsedBy(p) ==
    {t \in Tables : \/ p = "wireguard" /\ t = "wgSess"
                    \/ p = "ike" /\ t \in {"ikeSess", "espSess"}
                    \/ p = "l2tp" /\ t = "l2tpSess"
                    \/ p = "openvpn" /\ t \in {"ovpnSess", "ovpnPeer"}
                    \/ p = "dtls" /\ t = "dtlsFlows"}

IdIn(t, i, peer, key) ==
    IF t \in {"wgSess", "espSess"} THEN i
    ELSE IF t \in {"ovpnPeer", "dtlsFlows"} THEN peer
    ELSE key

IdOf(t, i) == IdIn(t, i, sess[i].peer, sess[i].key)

At(t, k, i) == k \in DOMAIN table[t] /\ table[t][k] = i

\* LastHandshakeWins for any of the maps.
Found ==
    \A t \in UsedBy(proto) : \A i \in DOMAIN sess :
        ( /\ now <= sess[i].expires
          /\ \A j \in DOMAIN sess : j > i => IdOf(t, j) # IdOf(t, i) )
            => At(t, IdOf(t, i), i)

\* The row being served: answered only under a reservation, attributed to a session of
\* its peer.
RowRight(o) ==
    o # NoFlow =>
        /\ (o.replied /\ proto # "dns") => o.att # NoAttempt
        /\ (o.stage = "followup" /\ o.att # NoAttempt) => ServedFor(o)

\* A peer is remembered for quicTTL from an Initial, and what waits for the endpoint was
\* forwarded in that time.
Remembered ==
    /\ \A p \in DOMAIN quicPeers : \E i \in initials :
          i.peer = p /\ i.at \in Nat /\ i.at <= now /\ quicPeers[p] = i.at + quicTTL
    /\ \A n \in DOMAIN quicC : \E i \in initials :
          i.peer = quicC[n].peer /\ i.at <= quicC[n].at /\ quicC[n].at <= i.at + quicTTL

UdpInv ==
    UdpTypes /\ Spent /\ Bounded /\ Tabled /\ Found /\ RowRight(flow) /\ Remembered

----------------------------------------------------------------------------
(* What the store's reservation operations return and preserve. *)

\* A set of numbers that is not empty has a least element.
LEMMA LeastNumber ==
    ASSUME NEW S \in SUBSET Nat, S # {}
    PROVE  \E m \in S : \A n \in S : m <= n
<1>1. PICK m \in S : \A n \in S : ~ (<<n, m>> \in OpToRel(<, Nat))
  BY NatLessThanWellFounded, WFMin, Zenon
<1>2. ASSUME NEW n \in S
      PROVE  m <= n
  <2>1. m \in Nat /\ n \in Nat
    BY Zenon
  <2>2. n < m => <<n, m>> \in OpToRel(<, Nat)
    BY <2>1, Zenon DEF OpToRel
  <2>3. ~(n < m)
    BY <1>1, <2>2, Zenon
  <2> QED
    BY <2>1, <2>3
<1> QED
  BY <1>2, Zenon

\* findReservation (store.go): as long as no window reaches beyond some time, the newest of
\* the windows that fit exists, so if any fits one is found and none expires later.
LEMMA NewestFound ==
    ASSUME NEW ip, NEW ep, NEW kind, NEW t, NEW bound \in Nat,
           \A r \in reservations : r.id \in Nat /\ r.expires \in Nat /\ r.expires <= bound,
           \E r \in reservations : Fits(r, ip, ep, kind, t)
    PROVE  /\ findReservation(ip, ep, kind, t) \in reservations
           /\ Fits(findReservation(ip, ep, kind, t), ip, ep, kind, t)
           /\ \A q \in reservations : Fits(q, ip, ep, kind, t) =>
                 q.expires <= findReservation(ip, ep, kind, t).expires
<1> DEFINE fit == {r \in reservations : Fits(r, ip, ep, kind, t)}
           late == {bound - r.expires : r \in fit}
<1>1. fit # {}
  BY Zenon
<1>2. late \in SUBSET Nat /\ late # {}
  BY <1>1
<1>3. PICK d \in late : \A n \in late : d <= n
  BY <1>2, LeastNumber, Zenon
<1> DEFINE newest == {r \in fit : bound - r.expires = d}
           ids == {r.id : r \in newest}
<1>4. ids \in SUBSET Nat /\ ids # {}
  BY <1>3, Zenon
<1>5. PICK m \in ids : \A n \in ids : m <= n
  BY <1>4, LeastNumber, Zenon
<1>6. PICK r \in newest : r.id = m
  BY <1>5, Zenon
<1>7. ASSUME NEW q \in fit
      PROVE  r.expires > q.expires \/ (r.expires = q.expires /\ r.id <= q.id)
  <2>1. d <= bound - q.expires /\ d = bound - r.expires
    BY <1>3, <1>6, Zenon
  <2>2. r.expires >= q.expires
    BY <2>1
  <2>3. r.expires = q.expires => q \in newest
    BY <1>6, Zenon
  <2>4. r.expires = q.expires => r.id <= q.id
    BY <2>3, <1>5, <1>6, Zenon
  <2> QED
    BY <2>2, <2>4
<1>8. /\ findReservation(ip, ep, kind, t) \in fit
      /\ \A q \in fit : \/ findReservation(ip, ep, kind, t).expires > q.expires
                        \/ findReservation(ip, ep, kind, t).expires = q.expires
  BY <1>1, <1>6, <1>7, Zenon DEF findReservation
<1> QED
  BY <1>8

\* What is found fits.
LEMMA FoundFits ==
    ASSUME NEW ip, NEW ep, NEW kind, NEW t, NEW bound \in Nat,
           \A r \in reservations : r.id \in Nat /\ r.expires \in Nat /\ r.expires <= bound,
           findReservation(ip, ep, kind, t) # NoRes
    PROVE  /\ findReservation(ip, ep, kind, t) \in reservations
           /\ Fits(findReservation(ip, ep, kind, t), ip, ep, kind, t)
           /\ \A q \in reservations : Fits(q, ip, ep, kind, t) =>
                 q.expires <= findReservation(ip, ep, kind, t).expires
<1>1. \E r \in reservations : Fits(r, ip, ep, kind, t)
  BY Zenon DEF findReservation
<1> QED
  BY <1>1, NewestFound, Zenon

\* matchReservation: the window found is used from then on, the others are as they were.
LEMMA ConsumeMarks ==
    ASSUME NEW eps, Windows(eps), NEW r \in reservations, r # NoRes, consume(r)
    PROVE  /\ Windows(eps)'
           /\ \A q \in reservations' :
                 \/ q \in reservations /\ q.id # r.id
                 \/ /\ q.id = r.id /\ q.used /\ q.expires = r.expires
                    /\ q.ip = r.ip /\ q.ep = r.ep /\ q.kind = r.kind /\ q.sid = r.sid
           /\ \A q \in reservations : q.id # r.id => q \in reservations'
<1> DEFINE u == [r EXCEPT !.used = TRUE]
<1>1. reservations' = (reservations \ {r}) \cup {u}
  BY Zenon DEF consume
<1>2. u \in [id : Nat, expires : Nat, ip : Addrs, ep : eps,
             kind : Kinds, used : BOOLEAN, sid : Sids]
      /\ u.id = r.id /\ u.used /\ u.expires = r.expires
      /\ u.ip = r.ip /\ u.ep = r.ep /\ u.kind = r.kind /\ u.sid = r.sid
  BY Zenon DEF Windows
<1>3. \A q \in reservations \ {r} : q.id # r.id
  BY Zenon DEF Windows
<1> HIDE DEF u
<1>4. \A q \in reservations' : q = u \/ (q \in reservations /\ q.id # r.id)
  BY <1>1, <1>3, Zenon
<1>5. Windows(eps)'
  BY <1>1, <1>2, <1>4 DEF Windows
<1> QED
  BY <1>1, <1>2, <1>4, <1>5, Zenon

\* reserve: the new window differs from every other.
LEMMA ReserveAdds ==
    ASSUME NEW eps, Windows(eps),
           NEW r \in [id : Nat, expires : Nat, ip : Addrs, ep : eps,
                      kind : Kinds, used : BOOLEAN, sid : Sids],
           \A q \in reservations : q.id # r.id,
           reserve(r)
    PROVE  Windows(eps)' /\ reservations' = reservations \cup {r}
  BY Zenon DEF Windows, reserve

\* gc: what is left was there before.
LEMMA CollectKeeps ==
    ASSUME NEW eps, Windows(eps), NEW t, gc(t)
    PROVE  Windows(eps)' /\ reservations' \subseteq reservations
  BY Zenon DEF Windows, gc

----------------------------------------------------------------------------
(* What the handlers share. *)

\* The constants, as the proofs use them.
LEMMA Constants ==
    /\ IpOf \in [Peers -> Addrs]
    /\ Kinds = Protocols \cup {"unknown"}
    /\ NoAttempt \notin Nat
    /\ vpnSessionTTL \in Nat /\ vpnSessionMaxData \in Nat /\ quicTTL \in Nat
    /\ quicQueue \in Nat /\ ResTTL \in Nat
  BY UdpVpnConstants, Zenon

\* A session is one of the sequence's elements.
LEMMA SessIn ==
    ASSUME UdpTypes, NEW i \in DOMAIN sess
    PROVE  sess[i] \in SessType /\ i \in Nat /\ i # 0
  BY DEF UdpTypes

\* correlate finds a window that is not used yet, or none.
LEMMA FoundFree ==
    ASSUME UdpTypes, Spent, NEW peer, NEW kind, correlate(peer, kind) # NoRes
    PROVE  /\ correlate(peer, kind) \in reservations
           /\ ~correlate(peer, kind).used
           /\ correlate(peer, kind).id \in Nat
           /\ correlate(peer, kind).sid \in Sids
<1> DEFINE r == correlate(peer, kind)
<1>1. now + ResTTL \in Nat
  BY Constants DEF UdpTypes
<1>2. \A q \in reservations : q.id \in Nat /\ q.expires \in Nat /\ q.expires <= now + ResTTL
  BY Zenon DEF Spent, Windows
<1>3. r \in reservations /\ Fits(r, IpOf[peer], Port, kind, now)
  BY <1>1, <1>2, FoundFits, Zenon DEF correlate
<1> HIDE DEF r
<1>4. ~r.used
  BY <1>3, Zenon DEF Fits
<1>5. r.id \in Nat /\ r.sid \in Sids
  BY <1>3, Zenon DEF Spent, Windows
<1> QED
  BY <1>3, <1>4, <1>5, Zenon DEF r

\* matchReservation keeps the windows and the sessions they opened in step.
LEMMA TakesWindow ==
    ASSUME UdpTypes, Spent, NEW peer, NEW kind, consume(correlate(peer, kind)),
           UNCHANGED <<now, granted, sess>>
    PROVE  Spent' /\ sessions' = sessions
<1> DEFINE r == correlate(peer, kind)
<1>1. sessions' = sessions
  BY Zenon DEF consume
<1>2. CASE r = NoRes
  BY <1>1, <1>2, Zenon DEF consume, Spent, Windows
<1>3. CASE r # NoRes
  <2>1. r \in reservations
    BY <1>3, FoundFree, Zenon
  <2>2. /\ Windows({Port})'
        /\ \A q \in reservations' : \/ q \in reservations /\ q.id # r.id
                                    \/ q.id = r.id /\ q.used /\ q.expires = r.expires
    BY <1>3, <2>1, ConsumeMarks, Zenon DEF Spent
  <2> HIDE DEF r
  <2>3. \A q \in reservations' : q.id < granted /\ q.expires <= now + ResTTL
    BY <2>1, <2>2, Zenon DEF Spent
  <2>4. \A i \in DOMAIN sess : \A q \in reservations' : q.id = sess[i].att => q.used
    BY <2>2, Zenon DEF Spent
  <2> QED
    BY <1>1, <2>2, <2>3, <2>4, Zenon DEF Spent
<1> QED
  BY <1>2, <1>3, Zenon

\* A step that opens and changes no session, and touches neither maps nor the QUIC side.
LEMMA SessionsStay ==
    ASSUME UdpInv, Spent', RowRight(flow)', sessions' = sessions,
           UNCHANGED <<proto, now, granted, sess, table, quicPeers, quicC, initials>>
    PROVE  UdpInv'
<1>1. UdpTypes'
  BY Zenon DEF UdpInv, UdpTypes
<1>2. Bounded' /\ Tabled'
  BY Zenon DEF UdpInv, Bounded, Within, Tabled
<1>3. Found'
  BY DEF UdpInv, Found, UsedBy, At, IdOf, IdIn
<1>4. Remembered'
  BY Zenon DEF UdpInv, Remembered
<1> QED
  BY <1>1, <1>2, <1>3, <1>4, Zenon DEF UdpInv

\* The rows a handler makes: unmatched, under a reservation, or attributed to a session.
LEMMA UnmatchedRight ==
    ASSUME NEW peer, NEW stage, flow' = Unmatched(peer, stage)
    PROVE  RowRight(flow)'
  BY Zenon DEF RowRight, Unmatched

\* A row of a handshake with a reservation is right.
LEMMA ReservedRight ==
    ASSUME UdpTypes, Spent, NEW peer, NEW kind, NEW replied \in BOOLEAN,
           correlate(peer, kind) # NoRes, flow' = Reserved(peer, correlate(peer, kind), replied)
    PROVE  RowRight(flow)'
<1>1. correlate(peer, kind).id # NoAttempt
  BY FoundFree, Constants, Zenon
<1>2. flow'.att = correlate(peer, kind).id /\ flow'.stage = "handshake"
  BY Zenon DEF Reserved, Unmatched
<1> QED
  BY <1>1, <1>2, Zenon DEF RowRight

\* A row of a follow-up attributed to a session of its peer is right.
LEMMA AttributedRight ==
    ASSUME UdpTypes, NEW peer, NEW i \in DOMAIN sess, sess[i].peer = peer,
           now <= sess[i].expires, NEW replied \in BOOLEAN,
           NEW s, s.att = sess[i].att, s.sid = sess[i].sid,
           flow' = Attributed(peer, s, replied), DOMAIN sess' = DOMAIN sess,
           /\ sess'[i].att = sess[i].att /\ sess'[i].sid = sess[i].sid
           /\ sess'[i].peer = sess[i].peer /\ sess'[i].expires = sess[i].expires
    PROVE  RowRight(flow)'
<1>1. sess[i].att \in Nat
  BY SessIn, Zenon DEF SessType
<1>2. /\ flow'.att = sess[i].att /\ flow'.sid = sess[i].sid
      /\ flow'.peer = peer /\ flow'.first = now
  BY Zenon DEF Attributed, Unmatched
<1>3. ServedFor(flow)'
  BY <1>2, Zenon DEF ServedFor
<1> QED
  BY <1>1, <1>2, <1>3, Constants, Zenon DEF RowRight

\* A lookup that is not nil is a live session.
LEMMA LookedUp ==
    ASSUME UdpTypes, Tabled, NEW t \in Tables, NEW k, Lookup(t, k) # 0
    PROVE  /\ Lookup(t, k) \in DOMAIN sess
           /\ k \in DOMAIN table[t] /\ table[t][k] = Lookup(t, k)
           /\ now <= sess[Lookup(t, k)].expires
  BY Zenon DEF Lookup, Tabled

\* A datagram that is served without a session being opened or changed.
LEMMA PassedInv ==
    ASSUME UdpInv, NEW row, Passed(row), RowRight(flow)',
           UNCHANGED <<proto, now, granted, quicPeers, quicC, initials>>
    PROVE  UdpInv'
<1>1. Spent' /\ sessions' = sessions
  BY Zenon DEF UdpInv, Spent, Windows, Passed, storeVars
<1> QED
  BY <1>1, SessionsStay, Zenon DEF Passed

\* serveUnknown's part: the datagram may use a window of the unknown kind.
LEMMA UnclaimedSteps ==
    ASSUME UdpInv, NEW peer, Unclaimed(peer), UNCHANGED <<proto, now, granted>>
    PROVE  Spent' /\ sessions' = sessions /\ RowRight(flow)'
<1>1. Spent' /\ sessions' = sessions
  BY TakesWindow, Zenon DEF UdpInv, Unclaimed
<1>2. CASE correlate(peer, "unknown") = NoRes
  BY <1>1, <1>2, UnmatchedRight, Zenon DEF Unclaimed
<1>3. CASE correlate(peer, "unknown") # NoRes
  BY <1>1, <1>3, ReservedRight, Zenon DEF Unclaimed, UdpInv
<1> QED
  BY <1>1, <1>2, <1>3, Zenon

\* A datagram without a reservation keeps the invariant.
LEMMA UnclaimedInv ==
    ASSUME UdpInv, NEW peer, Unclaimed(peer),
           UNCHANGED <<proto, now, granted, quicPeers, quicC, initials>>
    PROVE  UdpInv'
<1>1. Spent' /\ sessions' = sessions /\ RowRight(flow)'
  BY UnclaimedSteps, Zenon
<1> QED
  BY <1>1, SessionsStay, Zenon DEF Unclaimed

\* The session u is s with its counters moved on.
Onward(s, u) ==
    /\ u \in SessType
    /\ u.att = s.att /\ u.sid = s.sid /\ u.peer = s.peer
    /\ u.key = s.key /\ u.expires = s.expires
    /\ Within(u)

\* A follow-up changes the counters of the session it belongs to and nothing that finds it.
LEMMA FollowsInv ==
    ASSUME UdpInv, NEW peer, NEW i \in DOMAIN sess, sess[i].peer = peer,
           now <= sess[i].expires, NEW s, Onward(sess[i], s), NEW replied \in BOOLEAN,
           Follows(peer, i, s, replied),
           UNCHANGED <<proto, now, granted, quicPeers, quicC, initials>>
    PROVE  UdpInv'
<1>1. /\ UdpTypes /\ sess \in Seq(SessType) /\ s \in SessType
      /\ sess' = [sess EXCEPT ![i] = s] /\ table' = table
      /\ sessions' = sessions /\ reservations' = reservations
  BY Zenon DEF UdpInv, UdpTypes, Onward, Follows, storeVars
<1>2. /\ DOMAIN sess' = DOMAIN sess /\ sess' \in Seq(SessType)
      /\ sess'[i] = s /\ \A j \in DOMAIN sess : j # i => sess'[j] = sess[j]
  BY <1>1
<1>3. \A j \in DOMAIN sess :
         /\ sess'[j].att = sess[j].att /\ sess'[j].sid = sess[j].sid
         /\ sess'[j].peer = sess[j].peer /\ sess'[j].key = sess[j].key
         /\ sess'[j].expires = sess[j].expires
  BY <1>2, Zenon DEF Onward
<1>4. UdpTypes'
  BY <1>1, <1>2, Zenon DEF UdpTypes
<1>5. Spent'
  BY <1>1, <1>2, <1>3 DEF UdpInv, Spent, Windows
<1>6. Bounded'
  <2>1. \A j, k \in DOMAIN sess : sess'[j].att = sess'[k].att => j = k
    BY <1>3, Zenon DEF UdpInv, Bounded
  <2>2. \A j \in DOMAIN sess : Within(sess'[j])
    BY <1>2, Zenon DEF UdpInv, Bounded, Onward
  <2>3. \A j \in DOMAIN sess : Within(sess[j])'
    BY <2>2, Zenon DEF Within
  <2> QED
    BY <1>2, <2>1, <2>3, Zenon DEF Bounded
<1>7. Tabled'
  BY <1>1, <1>2, <1>3 DEF UdpInv, Tabled, Tables
<1>8. Found'
  <2>1. \A t : \A j \in DOMAIN sess : IdOf(t, j)' = IdOf(t, j)
    BY <1>3, Zenon DEF IdOf, IdIn
  <2> QED
    BY <1>1, <1>2, <1>3, <2>1 DEF UdpInv, Found, UsedBy, At
<1>9. RowRight(flow)'
  BY <1>1, <1>2, <1>3, AttributedRight, Zenon DEF Follows, Onward
<1>10. Remembered'
  BY Zenon DEF UdpInv, Remembered
<1> QED
  BY <1>4, <1>5, <1>6, <1>7, <1>8, <1>9, <1>10, Zenon DEF UdpInv

\* What a handshake's sweep and entry make of the maps: an entry is the new session's or
\* was there before, no live one but the new session's own id is lost, and the new session
\* is in every map of its protocol.
Entered(tab, peer, key) ==
    /\ tab = [t \in Tables |-> tab[t]]
    /\ \A t \in Tables :
          /\ \A k \in DOMAIN tab[t] :
                \/ k = IdIn(t, Fresh, peer, key) /\ tab[t][k] = Fresh
                \/ k \in DOMAIN table[t] /\ tab[t][k] = table[t][k]
          /\ \A k \in DOMAIN table[t] :
                (now <= sess[table[t][k]].expires /\ k # IdIn(t, Fresh, peer, key))
                    => k \in DOMAIN tab[t] /\ tab[t][k] = table[t][k]
          /\ t \in UsedBy(proto) =>
                /\ IdIn(t, Fresh, peer, key) \in DOMAIN tab[t]
                /\ tab[t][IdIn(t, Fresh, peer, key)] = Fresh

\* A handshake that is answered opens a session of its own.
LEMMA OpensInv ==
    ASSUME UdpInv, NEW peer \in Peers, NEW key \in Keys \cup Peers, NEW ready \in BOOLEAN,
           NEW tab, Entered(tab, peer, key),
           correlate(peer, proto) # NoRes, consume(correlate(peer, proto)),
           flow' = Reserved(peer, correlate(peer, proto), TRUE),
           sess' = Append(sess, Opened(peer, correlate(peer, proto), key, ready)),
           table' = tab,
           UNCHANGED <<proto, now, granted, quicPeers, quicC, initials>>
    PROVE  UdpInv'
<1> DEFINE r == correlate(peer, proto)
           new == Opened(peer, r, key, ready)
<1>1. r \in reservations /\ ~r.used /\ r.id \in Nat /\ r.sid \in Sids /\ r.id < granted
  BY FoundFree, Zenon DEF UdpInv, Spent
<1>2. /\ Windows({Port})' /\ sessions' = sessions
      /\ \A q \in reservations' : \/ q \in reservations /\ q.id # r.id
                                  \/ q.id = r.id /\ q.used /\ q.expires = r.expires
  BY <1>1, ConsumeMarks, Zenon DEF UdpInv, Spent, consume
<1>3. RowRight(flow)'
  BY ReservedRight, Zenon DEF UdpInv
<1> HIDE DEF r
<1>4. /\ new \in SessType /\ new.att = r.id /\ new.peer = peer /\ new.key = key
      /\ new.dataIn = 0 /\ new.dataOut = 0 /\ new.ctlIn = 0 /\ new.ctlOut = 0
  <2>1. now + vpnSessionTTL \in Nat
    BY Constants DEF UdpInv, UdpTypes
  <2> QED
    BY <1>1, <2>1, Zenon DEF Opened, SessType
<1>5. sess' = Append(sess, new) /\ sess \in Seq(SessType)
  BY Zenon DEF UdpInv, UdpTypes, r
<1> HIDE DEF new
<1>6. /\ sess' \in Seq(SessType) /\ DOMAIN sess' = DOMAIN sess \cup {Fresh}
      /\ Fresh \in Nat /\ \A i \in DOMAIN sess : i < Fresh /\ sess'[i] = sess[i] /\ i \in Nat
      /\ sess'[Fresh] = new
  BY <1>4, <1>5 DEF Fresh
<1>7. UdpTypes'
  BY <1>2, <1>6, Zenon DEF UdpInv, UdpTypes
<1>8. Spent'
  <2>1. \A q \in reservations' : q.id < granted /\ q.expires <= now + ResTTL
    BY <1>1, <1>2, Zenon DEF UdpInv, Spent
  <2>2. ASSUME NEW i \in DOMAIN sess'
        PROVE  sess'[i].att < granted
               /\ \A q \in reservations' : q.id = sess'[i].att => q.used
    <3>1. CASE i = Fresh
      BY <1>1, <1>2, <1>4, <1>6, <3>1, Zenon
    <3>2. CASE i \in DOMAIN sess
      BY <1>2, <1>6, <3>2, Zenon DEF UdpInv, Spent
    <3> QED
      BY <1>6, <3>1, <3>2, Zenon
  <2> QED
    BY <1>2, <2>1, <2>2, Zenon DEF Spent
<1>9. Bounded'
  <2>1. \A i \in DOMAIN sess : sess[i].att # r.id
    BY <1>1, Zenon DEF UdpInv, Spent
  <2>2. \A i, j \in DOMAIN sess' : sess'[i].att = sess'[j].att => i = j
    BY <1>4, <1>6, <2>1 DEF UdpInv, Bounded
  <2>3. Within(new)
    BY <1>4, Constants DEF Within
  <2>4. \A i \in DOMAIN sess' : Within(sess'[i])
    BY <1>6, <2>3, Zenon DEF UdpInv, Bounded
  <2>5. \A i \in DOMAIN sess' : Within(sess[i])'
    BY <2>4, Zenon DEF Within
  <2> QED
    BY <2>2, <2>5, Zenon DEF Bounded
<1>10. Tabled'
  <2>1. tab = [t \in Tables |-> tab[t]]
    BY Zenon DEF Entered
  <2>2. \A t \in Tables : \A k \in DOMAIN tab[t] : tab[t][k] \in DOMAIN sess'
    BY <1>6 DEF UdpInv, Tabled, Entered
  <2>3. ASSUME NEW t \in {"ovpnPeer", "dtlsFlows"}, NEW p \in DOMAIN tab[t]
        PROVE  sess'[tab[t][p]].peer = p
    <3>1. t \in Tables /\ IdIn(t, Fresh, peer, key) = peer
      BY Zenon DEF Tables, IdIn
    <3>2. CASE p = peer /\ tab[t][p] = Fresh
      BY <1>4, <1>6, <3>2, Zenon
    <3>3. CASE p \in DOMAIN table[t] /\ tab[t][p] = table[t][p]
      <4>1. table[t][p] \in DOMAIN sess /\ sess[table[t][p]].peer = p
        BY <3>1, <3>3, Zenon DEF UdpInv, Tabled
      <4>2. sess'[table[t][p]] = sess[table[t][p]]
        BY <1>6, <4>1, Zenon
      <4> QED
        BY <3>3, <4>1, <4>2, Zenon
    <3> QED
      BY <3>1, <3>2, <3>3, Zenon DEF Entered
  <2> QED
    BY <2>1, <2>2, <2>3, Zenon DEF Tabled
<1>11. Found'
  <2>1. \A t : IdIn(t, Fresh, sess'[Fresh].peer, sess'[Fresh].key) = IdIn(t, Fresh, peer, key)
    BY <1>4, <1>6, Zenon
  <2>2. ASSUME NEW t \in UsedBy(proto), NEW i \in DOMAIN sess, now <= sess[i].expires,
               \A j \in DOMAIN sess : j > i => IdOf(t, j) # IdOf(t, i),
               IdOf(t, i) # IdIn(t, Fresh, peer, key)
        PROVE  IdOf(t, i) \in DOMAIN tab[t] /\ tab[t][IdOf(t, i)] = i
    <3>1. At(t, IdOf(t, i), i) /\ t \in Tables
      BY <2>2, Zenon DEF UdpInv, Found, UsedBy
    <3> QED
      BY <2>2, <3>1, Zenon DEF At, Entered
  <2>3. ASSUME NEW t \in UsedBy(proto), NEW i \in DOMAIN sess', now <= sess'[i].expires,
               \A j \in DOMAIN sess' : j > i =>
                   IdIn(t, j, sess'[j].peer, sess'[j].key)
                     # IdIn(t, i, sess'[i].peer, sess'[i].key)
        PROVE  /\ IdIn(t, i, sess'[i].peer, sess'[i].key) \in DOMAIN tab[t]
               /\ tab[t][IdIn(t, i, sess'[i].peer, sess'[i].key)] = i
    <3>1. CASE i = Fresh
      BY <2>1, <3>1 DEF Entered, UsedBy
    <3>2. CASE i \in DOMAIN sess
      <4>1. \A j \in DOMAIN sess : IdIn(t, j, sess'[j].peer, sess'[j].key) = IdOf(t, j)
        BY <1>6, Zenon DEF IdOf
      <4>2. \A j \in DOMAIN sess : j > i => IdOf(t, j) # IdOf(t, i)
        BY <1>6, <2>3, <3>2, <4>1
      <4>3. IdOf(t, i) # IdIn(t, Fresh, peer, key)
        BY <1>6, <2>1, <2>3, <3>2, <4>1
      <4> QED
        BY <1>6, <2>2, <2>3, <3>2, <4>1, <4>2, <4>3
    <3> QED
      BY <1>6, <3>1, <3>2, Zenon
  <2> QED
    BY <2>3 DEF Found, UsedBy, At, IdOf, IdIn
<1>12. Remembered'
  BY Zenon DEF UdpInv, Remembered
<1> QED
  BY <1>3, <1>7, <1>8, <1>9, <1>10, <1>11, <1>12, Zenon DEF UdpInv

\* A handshake: silent without a window, attributed without a session when it fails.
LEMMA HandshakeInv ==
    ASSUME UdpInv, NEW peer \in Peers, NEW ok \in BOOLEAN, NEW key \in Keys \cup Peers,
           NEW ready \in BOOLEAN, NEW tab, Entered(tab, peer, key),
           Handshake(peer, ok, key, ready, tab)
    PROVE  UdpInv'
<1> DEFINE r == correlate(peer, proto)
<1>1. UNCHANGED <<proto, now, granted, quicPeers, quicC, initials>> /\ consume(r)
  BY Zenon DEF Handshake
<1>2. CASE r # NoRes /\ ok
  <2>1. /\ flow' = Reserved(peer, r, TRUE) /\ table' = tab
        /\ sess' = Append(sess, Opened(peer, r, key, ready))
    BY <1>2, Zenon DEF Handshake
  <2> QED
    BY <1>1, <1>2, <2>1, OpensInv, Zenon
<1>3. CASE r # NoRes /\ ~ok
  <2>1. flow' = Reserved(peer, r, ok) /\ UNCHANGED <<sess, table>>
    BY <1>3, Zenon DEF Handshake
  <2>2. RowRight(flow)'
    BY <1>3, <2>1, ReservedRight, Zenon DEF UdpInv
  <2>3. Spent' /\ sessions' = sessions
    BY <1>1, <2>1, TakesWindow, Zenon DEF UdpInv
  <2> QED
    BY <1>1, <2>1, <2>2, <2>3, SessionsStay, Zenon
<1>4. CASE r = NoRes
  <2>1. flow' = Unmatched(peer, "handshake") /\ UNCHANGED <<sess, table>>
    BY <1>4, Zenon DEF Handshake
  <2>2. RowRight(flow)'
    BY <2>1, UnmatchedRight, Zenon
  <2>3. Spent' /\ sessions' = sessions
    BY <1>1, <2>1, TakesWindow, Zenon DEF UdpInv
  <2> QED
    BY <1>1, <2>1, <2>2, <2>3, SessionsStay, Zenon
<1> QED
  BY <1>2, <1>3, <1>4, Zenon

----------------------------------------------------------------------------
(* What goes on beside the handlers. *)

\* Record keeps the invariant.
LEMMA RecordInv ==
    ASSUME UdpInv, Record
    PROVE  UdpInv'
<1>1. /\ UNCHANGED <<proto, now, granted, sess, table, quicPeers, quicC, initials>>
      /\ flow' = NoFlow /\ reservations' = reservations /\ sessions' = sessions
  BY Zenon DEF Record, addObservationAt
<1>2. Spent' /\ RowRight(flow)'
  BY <1>1, Zenon DEF UdpInv, Spent, Windows, RowRight
<1> QED
  BY <1>1, <1>2, SessionsStay, Zenon


\* Reserve keeps the invariant.
LEMMA ReserveInv ==
    ASSUME UdpInv, NEW sid \in Sids, NEW kind \in {proto, "unknown"}, Reserve(sid, kind)
    PROVE  UdpInv'
<1> DEFINE r == [id |-> granted, expires |-> now + ResTTL, ip |-> sessions[sid].ip, ep |-> Port,
                 kind |-> kind, used |-> FALSE, sid |-> sid]
<1>1. /\ UNCHANGED <<proto, now, flow, sess, table, quicPeers, quicC, initials>>
      /\ granted' = granted + 1 /\ reserve(r) /\ sid \in DOMAIN sessions
  BY Zenon DEF Reserve, Live
<1>2. granted \in Nat /\ now \in Nat /\ now + ResTTL \in Nat
      /\ sessions[sid].ip \in Addrs /\ kind \in Kinds
  BY <1>1, Constants DEF UdpInv, UdpTypes
<1>3. /\ r \in [id : Nat, expires : Nat, ip : Addrs, ep : {Port},
                kind : Kinds, used : BOOLEAN, sid : Sids]
      /\ r.id = granted /\ r.expires = now + ResTTL
  BY <1>2, Zenon
<1> HIDE DEF r
<1>4. \A q \in reservations : q.id # r.id
  BY <1>2, <1>3 DEF UdpInv, Spent, Windows
<1>5. Windows({Port})' /\ reservations' = reservations \cup {r} /\ sessions' = sessions
  BY <1>1, <1>3, <1>4, ReserveAdds, Zenon DEF UdpInv, Spent, reserve
<1>6. Spent'
  <2>1. \A q \in reservations' : q.id < granted' /\ q.expires <= now + ResTTL
    BY <1>1, <1>2, <1>3, <1>5 DEF UdpInv, Spent, Windows
  <2>2. \A i \in DOMAIN sess : sess[i].att \in Nat /\ sess[i].att < granted
    BY SessIn, Zenon DEF UdpInv, Spent, SessType
  <2>3. \A i \in DOMAIN sess : \A q \in reservations' : q.id = sess[i].att => q.used
    BY <1>2, <1>3, <1>5, <2>2 DEF UdpInv, Spent
  <2> QED
    BY <1>1, <1>2, <1>5, <2>1, <2>2, <2>3 DEF Spent
<1>7. UdpTypes'
  BY <1>1, <1>2, <1>5 DEF UdpInv, UdpTypes
<1>8. Bounded' /\ Tabled' /\ RowRight(flow)' /\ Remembered'
  BY <1>1 DEF UdpInv, Bounded, Within, Tabled, RowRight, ServedFor, Remembered
<1>9. Found'
  BY <1>1 DEF UdpInv, Found, UsedBy, At, IdOf, IdIn
<1> QED
  BY <1>6, <1>7, <1>8, <1>9, Zenon DEF UdpInv

\* Collect keeps the invariant.
LEMMA CollectInv ==
    ASSUME UdpInv, Collect
    PROVE  UdpInv'
<1>1. UNCHANGED <<proto, now, granted, flow, sess, table, quicPeers, quicC, initials>> /\ gc(now)
  BY Zenon DEF Collect
<1>2. Windows({Port})' /\ reservations' \subseteq reservations
  BY <1>1, CollectKeeps, Zenon DEF UdpInv, Spent
<1>3. Spent'
  BY <1>1, <1>2, Zenon DEF UdpInv, Spent
<1>4. UdpTypes'
  BY <1>1, Zenon DEF gc, UdpInv, UdpTypes
<1>5. Bounded' /\ Tabled' /\ RowRight(flow)' /\ Remembered'
  BY <1>1 DEF UdpInv, Bounded, Within, Tabled, RowRight, ServedFor, Remembered
<1>6. Found'
  BY <1>1 DEF UdpInv, Found, UsedBy, At, IdOf, IdIn
<1> QED
  BY <1>3, <1>4, <1>5, <1>6, Zenon DEF UdpInv

\* Tick keeps the invariant.
LEMMA TickInv ==
    ASSUME UdpInv, Tick
    PROVE  UdpInv'
<1>1. /\ UNCHANGED <<storeVars, proto, granted, flow, sess, table, quicPeers, quicC, initials>>
      /\ now' = now + 1 /\ now \in Nat
  BY Zenon DEF Tick, UdpInv, UdpTypes
<1>2. UdpTypes'
  BY <1>1 DEF UdpInv, UdpTypes, storeVars
<1>3. Spent'
  BY <1>1, Constants DEF UdpInv, Spent, Windows, storeVars
<1>4. Bounded' /\ Tabled' /\ RowRight(flow)'
  BY <1>1, Zenon DEF UdpInv, Bounded, Within, Tabled, RowRight, ServedFor
<1>5. Found'
  <2>1. \A i \in DOMAIN sess : now' <= sess[i].expires => now <= sess[i].expires
    BY <1>1, SessIn DEF UdpInv, SessType
  <2> QED
    BY <1>1, <2>1 DEF UdpInv, Found, UsedBy, At, IdOf, IdIn
<1>6. Remembered'
  BY <1>1 DEF UdpInv, Remembered
<1> QED
  BY <1>2, <1>3, <1>4, <1>5, <1>6, Zenon DEF UdpInv

----------------------------------------------------------------------------
(* The handshakes: each sweeps the maps and enters its session. *)

\* g is the table without some of its expired entries.
SweptTo(g) ==
    /\ g = [t \in Tables |-> g[t]]
    /\ \A t \in Tables :
          /\ DOMAIN g[t] \subseteq DOMAIN table[t]
          /\ \A k \in DOMAIN g[t] : g[t][k] = table[t][k]
          /\ \A k \in DOMAIN table[t] : now <= sess[table[t][k]].expires => k \in DOMAIN g[t]

\* gcVPN drops expired entries only.
LEMMA GcSweeps == SweptTo(gcVPN(table))
  BY Zenon DEF SweptTo, gcVPN, Keep

\* Entering the new session under its id in every map of its protocol.
LEMMA EntersAll ==
    ASSUME NEW peer, NEW key, NEW g, SweptTo(g), NEW tab, tab = [t \in Tables |-> tab[t]],
           \A t \in UsedBy(proto) : tab[t] = Put(g[t], IdIn(t, Fresh, peer, key), Fresh),
           \A t \in Tables \ UsedBy(proto) : tab[t] = g[t]
    PROVE  Entered(tab, peer, key)
<1>1. ASSUME NEW t \in Tables, t \in UsedBy(proto)
      PROVE  /\ DOMAIN tab[t] = DOMAIN g[t] \cup {IdIn(t, Fresh, peer, key)}
             /\ tab[t][IdIn(t, Fresh, peer, key)] = Fresh
             /\ \A k \in DOMAIN g[t] : k # IdIn(t, Fresh, peer, key) => tab[t][k] = g[t][k]
  <2>1. tab[t] = Put(g[t], IdIn(t, Fresh, peer, key), Fresh)
    BY <1>1, Zenon
  <2> QED
    BY <2>1, Zenon DEF Put
<1>2. ASSUME NEW t \in Tables
      PROVE  /\ \A k \in DOMAIN tab[t] :
                  \/ k = IdIn(t, Fresh, peer, key) /\ tab[t][k] = Fresh
                  \/ k \in DOMAIN table[t] /\ tab[t][k] = table[t][k]
             /\ \A k \in DOMAIN table[t] :
                  (now <= sess[table[t][k]].expires /\ k # IdIn(t, Fresh, peer, key))
                      => k \in DOMAIN tab[t] /\ tab[t][k] = table[t][k]
  <2>1. CASE t \in UsedBy(proto)
    BY <1>1, <2>1 DEF SweptTo
  <2>2. CASE t \notin UsedBy(proto)
    BY <2>2 DEF SweptTo
  <2> QED
    BY <2>1, <2>2, Zenon
<1> QED
  BY <1>1, <1>2 DEF Entered

\* serveWGInitiation keeps the invariant.
LEMMA WGInitiationInv ==
    ASSUME UdpInv, NEW p \in Peers, NEW ok \in BOOLEAN, serveWGInitiation(p, ok)
    PROVE  UdpInv'
<1> DEFINE g == gcVPN(table)
           tab == [g EXCEPT !["wgSess"] = Put(g["wgSess"], Fresh, Fresh)]
<1>1. UsedBy(proto) = {"wgSess"} /\ IdIn("wgSess", Fresh, p, p) = Fresh
  BY Zenon DEF serveWGInitiation, UsedBy, Tables, IdIn
<1>2. Handshake(p, ok, p, TRUE, tab)
  BY Zenon DEF serveWGInitiation
<1>3. SweptTo(g)
  BY GcSweeps, Zenon
<1> HIDE DEF g
<1>4. /\ tab = [t \in Tables |-> tab[t]] /\ tab["wgSess"] = Put(g["wgSess"], Fresh, Fresh)
      /\ \A t \in Tables : t # "wgSess" => tab[t] = g[t]
  BY <1>3, Zenon DEF SweptTo, Tables
<1> HIDE DEF tab
<1>5. Entered(tab, p, p)
  BY <1>1, <1>3, <1>4, EntersAll, Zenon
<1> QED
  BY <1>2, <1>5, HandshakeInv, Zenon

\* serveIKEInit keeps the invariant.
LEMMA IKEInitInv ==
    ASSUME UdpInv, NEW p \in Peers, NEW k \in Keys, serveIKEInit(p, k)
    PROVE  UdpInv'
<1> DEFINE g == gcVPN(table)
           tab == [g EXCEPT !["ikeSess"] = Put(g["ikeSess"], k, Fresh),
                         !["espSess"] = Put(g["espSess"], Fresh, Fresh)]
<1>1. UsedBy(proto) = {"ikeSess", "espSess"}
      /\ IdIn("ikeSess", Fresh, p, k) = k /\ IdIn("espSess", Fresh, p, k) = Fresh
  BY Zenon DEF serveIKEInit, UsedBy, Tables, IdIn
<1>2. Handshake(p, TRUE, k, FALSE, tab)
  BY Zenon DEF serveIKEInit
<1>3. SweptTo(g)
  BY GcSweeps, Zenon
<1> HIDE DEF g
<1>4. /\ tab = [t \in Tables |-> tab[t]]
      /\ tab["ikeSess"] = Put(g["ikeSess"], k, Fresh)
      /\ tab["espSess"] = Put(g["espSess"], Fresh, Fresh)
      /\ \A t \in Tables : (t # "ikeSess" /\ t # "espSess") => tab[t] = g[t]
  BY <1>3, Zenon DEF SweptTo, Tables
<1> HIDE DEF tab
<1>5. Entered(tab, p, k)
  BY <1>1, <1>3, <1>4, EntersAll, Zenon
<1> QED
  BY <1>2, <1>5, HandshakeInv, Zenon

\* serveL2TPStart keeps the invariant.
LEMMA L2TPStartInv ==
    ASSUME UdpInv, NEW p \in Peers, NEW k \in Keys, serveL2TPStart(p, k)
    PROVE  UdpInv'
<1> DEFINE g == gcVPN(table)
           tab == [g EXCEPT !["l2tpSess"] = Put(g["l2tpSess"], k, Fresh)]
<1>1. UsedBy(proto) = {"l2tpSess"} /\ IdIn("l2tpSess", Fresh, p, k) = k
  BY Zenon DEF serveL2TPStart, UsedBy, Tables, IdIn
<1>2. Handshake(p, TRUE, k, FALSE, tab)
  BY Zenon DEF serveL2TPStart
<1>3. SweptTo(g)
  BY GcSweeps, Zenon
<1> HIDE DEF g
<1>4. /\ tab = [t \in Tables |-> tab[t]]
      /\ tab["l2tpSess"] = Put(g["l2tpSess"], k, Fresh)
      /\ \A t \in Tables : (t # "l2tpSess") => tab[t] = g[t]
  BY <1>3, Zenon DEF SweptTo, Tables
<1> HIDE DEF tab
<1>5. Entered(tab, p, k)
  BY <1>1, <1>3, <1>4, EntersAll, Zenon
<1> QED
  BY <1>2, <1>5, HandshakeInv, Zenon

\* serveOVPNReset keeps the invariant.
LEMMA OVPNResetInv ==
    ASSUME UdpInv, NEW p \in Peers, NEW ok \in BOOLEAN, NEW k \in Keys, serveOVPNReset(p, ok, k)
    PROVE  UdpInv'
<1> DEFINE g == gcVPN(table)
           tab == [g EXCEPT !["ovpnSess"] = Put(g["ovpnSess"], k, Fresh),
                         !["ovpnPeer"] = Put(g["ovpnPeer"], p, Fresh)]
<1>1. UsedBy(proto) = {"ovpnSess", "ovpnPeer"}
      /\ IdIn("ovpnSess", Fresh, p, k) = k /\ IdIn("ovpnPeer", Fresh, p, k) = p
  BY Zenon DEF serveOVPNReset, UsedBy, Tables, IdIn
<1>2. Handshake(p, ok, k, Live(correlate(p, proto).sid, now), tab)
  BY Zenon DEF serveOVPNReset
<1>3. SweptTo(g)
  BY GcSweeps, Zenon
<1> HIDE DEF g
<1>4. /\ tab = [t \in Tables |-> tab[t]]
      /\ tab["ovpnSess"] = Put(g["ovpnSess"], k, Fresh)
      /\ tab["ovpnPeer"] = Put(g["ovpnPeer"], p, Fresh)
      /\ \A t \in Tables : (t # "ovpnSess" /\ t # "ovpnPeer") => tab[t] = g[t]
  BY <1>3, Zenon DEF SweptTo, Tables
<1> HIDE DEF tab
<1>5. Entered(tab, p, k)
  BY <1>1, <1>3, <1>4, EntersAll, Zenon
<1> QED
  BY <1>2, <1>5, HandshakeInv, Zenon DEF Live

\* rememberDTLS sweeps its own map.
LEMMA DTLSHelloInv ==
    ASSUME UdpInv, NEW p \in Peers, serveDTLSHello(p)
    PROVE  UdpInv'
<1> DEFINE kept == {q \in DOMAIN table["dtlsFlows"] : now <= sess[table["dtlsFlows"][q]].expires}
           g == [table EXCEPT !["dtlsFlows"] = Keep(table["dtlsFlows"], kept)]
           tab == [table EXCEPT !["dtlsFlows"] = Put(Keep(table["dtlsFlows"], kept), p, Fresh)]
<1>1. UsedBy(proto) = {"dtlsFlows"} /\ IdIn("dtlsFlows", Fresh, p, p) = p
  BY Zenon DEF serveDTLSHello, UsedBy, Tables, IdIn
<1>2. Handshake(p, TRUE, p, TRUE, tab)
  BY Zenon DEF serveDTLSHello
<1>3. table = [t \in Tables |-> table[t]] /\ "dtlsFlows" \in Tables
  BY Zenon DEF UdpInv, Tabled, Tables
<1>4. /\ g = [t \in Tables |-> g[t]] /\ g["dtlsFlows"] = Keep(table["dtlsFlows"], kept)
      /\ \A t \in Tables : t # "dtlsFlows" => g[t] = table[t]
  BY <1>3, Zenon
<1>5. /\ tab = [t \in Tables |-> tab[t]]
      /\ tab["dtlsFlows"] = Put(Keep(table["dtlsFlows"], kept), p, Fresh)
      /\ \A t \in Tables : t # "dtlsFlows" => tab[t] = table[t]
  BY <1>3, Zenon
<1> HIDE DEF g, tab
<1>6. SweptTo(g)
  BY <1>4 DEF SweptTo, Keep
<1>7. Entered(tab, p, p)
  BY <1>1, <1>4, <1>5, <1>6, EntersAll
<1> QED
  BY <1>2, <1>7, HandshakeInv, Zenon

----------------------------------------------------------------------------
(* The follow-ups. *)

\* A data packet within the limit is echoed, a later one only counted.
LEMMA DataOnward ==
    ASSUME NEW s \in SessType, Within(s), NEW within \in BOOLEAN,
           within => s.dataIn + 1 + s.ctlIn <= vpnSessionMaxData
    PROVE  Onward(s, Data(s, within))
<1> DEFINE out == IF within THEN s.dataOut + 1 ELSE s.dataOut
           u == [s EXCEPT !.dataIn = s.dataIn + 1, !.dataOut = out]
<1>1. /\ s.dataIn \in Nat /\ s.dataOut \in Nat /\ s.ctlIn \in Nat /\ s.ctlOut \in Nat
  BY Zenon DEF SessType
<1>2. out \in Nat /\ s.dataIn + 1 \in Nat
  BY <1>1
<1>3. /\ u \in SessType
      /\ u.dataIn = s.dataIn + 1 /\ u.dataOut = out /\ u.ctlIn = s.ctlIn /\ u.ctlOut = s.ctlOut
      /\ u.att = s.att /\ u.sid = s.sid /\ u.peer = s.peer
      /\ u.key = s.key /\ u.expires = s.expires
  <2> HIDE DEF out
  <2> QED
    BY <1>2, Zenon DEF SessType
<1>4. Data(s, within) = u
  BY Zenon DEF Data
<1> HIDE DEF u
<1>5. Within(u)
  BY <1>1, <1>3, Constants DEF Within
<1> QED
  BY <1>3, <1>4, <1>5, Zenon DEF Onward

\* An OpenVPN control packet counts against the same limit.
LEMMA ControlOnward ==
    ASSUME NEW s \in SessType, Within(s), NEW within \in BOOLEAN, proto = "openvpn",
           within => s.ctlIn + 1 + s.dataIn <= vpnSessionMaxData
    PROVE  Onward(s, [s EXCEPT !.ctlIn = s.ctlIn + 1,
                               !.ctlOut = IF within THEN s.ctlOut + 1 ELSE s.ctlOut])
<1> DEFINE out == IF within THEN s.ctlOut + 1 ELSE s.ctlOut
           u == [s EXCEPT !.ctlIn = s.ctlIn + 1, !.ctlOut = out]
<1>1. /\ s.dataIn \in Nat /\ s.dataOut \in Nat /\ s.ctlIn \in Nat /\ s.ctlOut \in Nat
  BY Zenon DEF SessType
<1>2. out \in Nat /\ s.ctlIn + 1 \in Nat
  BY <1>1
<1>3. /\ u \in SessType
      /\ u.dataIn = s.dataIn /\ u.dataOut = s.dataOut /\ u.ctlIn = s.ctlIn + 1 /\ u.ctlOut = out
      /\ u.att = s.att /\ u.sid = s.sid /\ u.peer = s.peer
      /\ u.key = s.key /\ u.expires = s.expires
  <2> HIDE DEF out
  <2> QED
    BY <1>2, Zenon DEF SessType
<1> HIDE DEF u
<1>4. Within(u)
  BY <1>1, <1>3, Constants DEF Within
<1>5. Onward(s, u)
  BY <1>3, <1>4, Zenon DEF Onward
<1> QED
  BY <1>5, Zenon DEF u

\* The answers on an L2TP control connection count against nothing.
LEMMA AnswerOnward ==
    ASSUME NEW s \in SessType, Within(s), NEW b \in BOOLEAN, proto = "l2tp"
    PROVE  Onward(s, [s EXCEPT !.ctlOut = s.ctlOut + 1, !.ready = b])
<1> DEFINE u == [s EXCEPT !.ctlOut = s.ctlOut + 1, !.ready = b]
<1>1. s.ctlOut + 1 \in Nat
  BY DEF SessType
<1>2. /\ u \in SessType
      /\ u.dataIn = s.dataIn /\ u.dataOut = s.dataOut /\ u.ctlIn = s.ctlIn
      /\ u.att = s.att /\ u.sid = s.sid /\ u.peer = s.peer
      /\ u.key = s.key /\ u.expires = s.expires
  BY <1>1, Zenon DEF SessType
<1> HIDE DEF u
<1>3. Within(u)
  BY <1>2, Zenon DEF Within
<1>4. Onward(s, u)
  BY <1>2, <1>3, Zenon DEF Onward
<1> QED
  BY <1>4, Zenon DEF u

\* Whether a session is ready says nothing about what it has echoed.
LEMMA ReadyOnward ==
    ASSUME NEW s, NEW v, Onward(s, v), NEW b \in BOOLEAN
    PROVE  Onward(s, [v EXCEPT !.ready = b])
<1> DEFINE u == [v EXCEPT !.ready = b]
<1>1. /\ u \in SessType /\ u.att = v.att /\ u.sid = v.sid /\ u.peer = v.peer /\ u.key = v.key
      /\ u.expires = v.expires /\ u.dataIn = v.dataIn /\ u.dataOut = v.dataOut
      /\ u.ctlIn = v.ctlIn /\ u.ctlOut = v.ctlOut
  BY Zenon DEF Onward, SessType
<1> HIDE DEF u
<1>2. Within(u)
  BY <1>1, Zenon DEF Onward, Within
<1>3. Onward(s, u)
  BY <1>1, <1>2, Zenon DEF Onward
<1> QED
  BY <1>3, Zenon DEF u

\* Rows without a session, and rows of session i that change nothing.
LEMMA SilentInv ==
    ASSUME UdpInv, NEW peer, NEW stage, Passed(Unmatched(peer, stage)),
           UNCHANGED <<proto, now, granted, quicPeers, quicC, initials>>
    PROVE  UdpInv'
<1>1. RowRight(flow)'
  BY UnmatchedRight, Zenon DEF Passed
<1> QED
  BY <1>1, PassedInv, Zenon

\* A datagram that leaves no row keeps the invariant.
LEMMA NoRowInv ==
    ASSUME UdpInv, Passed(NoFlow),
           UNCHANGED <<proto, now, granted, quicPeers, quicC, initials>>
    PROVE  UdpInv'
<1>1. RowRight(flow)'
  BY Zenon DEF Passed, RowRight
<1> QED
  BY <1>1, PassedInv, Zenon

\* A follow-up that is only noted keeps the invariant.
LEMMA NotedInv ==
    ASSUME UdpInv, NEW peer, NEW i \in DOMAIN sess, sess[i].peer = peer,
           now <= sess[i].expires, NEW replied \in BOOLEAN,
           Passed(Attributed(peer, sess[i], replied)),
           UNCHANGED <<proto, now, granted, quicPeers, quicC, initials>>
    PROVE  UdpInv'
<1>1. RowRight(flow)'
  BY AttributedRight, Zenon DEF Passed, UdpInv
<1> QED
  BY <1>1, PassedInv, Zenon

\* A session found by an id and served to its own peer.
LEMMA ServedSession ==
    ASSUME UdpInv, NEW t \in Tables, NEW k, NEW peer, Lookup(t, k) # 0,
           samePeer(Lookup(t, k), peer)
    PROVE  /\ Lookup(t, k) \in DOMAIN sess
           /\ sess[Lookup(t, k)].peer = peer /\ now <= sess[Lookup(t, k)].expires
           /\ sess[Lookup(t, k)] \in SessType /\ Within(sess[Lookup(t, k)])
<1>1. Lookup(t, k) \in DOMAIN sess /\ now <= sess[Lookup(t, k)].expires
  BY LookedUp, Zenon DEF UdpInv
<1> QED
  BY <1>1, SessIn, Zenon DEF UdpInv, Bounded, samePeer

\* A data packet of session i that counts against the limit.
LEMMA DataInv ==
    ASSUME UdpInv, NEW peer, NEW i \in DOMAIN sess, sess[i].peer = peer,
           now <= sess[i].expires, NEW within \in BOOLEAN,
           within => sess[i].dataIn + 1 + sess[i].ctlIn <= vpnSessionMaxData,
           Follows(peer, i, Data(sess[i], within), within),
           UNCHANGED <<proto, now, granted, quicPeers, quicC, initials>>
    PROVE  UdpInv'
<1>1. sess[i] \in SessType /\ Within(sess[i])
  BY SessIn, Zenon DEF UdpInv, Bounded
<1>2. Onward(sess[i], Data(sess[i], within))
  BY <1>1, DataOnward, Zenon
<1> QED
  BY <1>2, FollowsInv, Zenon

\* serveWGTransport keeps the invariant.
LEMMA WGTransportInv ==
    ASSUME UdpInv, NEW p \in Peers, NEW idx, NEW ok \in BOOLEAN, serveWGTransport(p, idx, ok)
    PROVE  UdpInv'
<1> DEFINE i == Lookup("wgSess", idx)
           within == sess[i].dataIn + 1 <= vpnSessionMaxData
<1>1. UNCHANGED <<proto, now, granted, quicPeers, quicC, initials>> /\ proto = "wireguard"
  BY Zenon DEF serveWGTransport
<1>2. CASE i = 0 \/ ~samePeer(i, p)
  BY <1>1, <1>2, SilentInv, Zenon DEF serveWGTransport
<1>3. CASE i # 0 /\ samePeer(i, p)
  <2>1. /\ i \in DOMAIN sess /\ sess[i].peer = p /\ now <= sess[i].expires
        /\ sess[i] \in SessType /\ Within(sess[i])
    BY <1>3, ServedSession, Zenon DEF Tables
  <2>2. CASE ~ok
    BY <1>1, <1>3, <2>1, <2>2, NotedInv, Zenon DEF serveWGTransport
  <2>3. CASE ok
    <3>1. Follows(p, i, Data(sess[i], within), within)
      BY <1>3, <2>3, Zenon DEF serveWGTransport
    <3>2. /\ within \in BOOLEAN
          /\ within => sess[i].dataIn + 1 + sess[i].ctlIn <= vpnSessionMaxData
      BY <1>1, <2>1 DEF Within, SessType
    <3> HIDE DEF i, within
    <3> QED
      BY <1>1, <2>1, <3>1, <3>2, DataInv, Zenon
  <2> QED
    BY <2>2, <2>3, Zenon
<1> QED
  BY <1>2, <1>3, Zenon

\* serveIKEAuth keeps the invariant.
LEMMA IKEAuthInv ==
    ASSUME UdpInv, NEW p \in Peers, NEW k, NEW spir, serveIKEAuth(p, k, spir)
    PROVE  UdpInv'
<1> DEFINE i == Lookup("ikeSess", k)
           within == sess[i].dataIn + 1 <= vpnSessionMaxData
           d == Data(sess[i], within)
           b == d.ready \/ within
           u == [d EXCEPT !.ready = b]
<1>1. UNCHANGED <<proto, now, granted, quicPeers, quicC, initials>> /\ proto = "ike"
  BY Zenon DEF serveIKEAuth
<1>2. CASE i = 0 \/ i # spir \/ ~samePeer(i, p)
  BY <1>1, <1>2, SilentInv, Zenon DEF serveIKEAuth
<1>3. CASE i # 0 /\ i = spir /\ samePeer(i, p)
  <2>1. /\ i \in DOMAIN sess /\ sess[i].peer = p /\ now <= sess[i].expires
        /\ sess[i] \in SessType /\ Within(sess[i])
    BY <1>3, ServedSession, Zenon DEF Tables
  <2>2. Follows(p, i, u, within)
    BY <1>3, Zenon DEF serveIKEAuth
  <2>3. /\ within \in BOOLEAN
        /\ within => sess[i].dataIn + 1 + sess[i].ctlIn <= vpnSessionMaxData
    BY <1>1, <2>1 DEF Within, SessType
  <2> HIDE DEF i, within
  <2>4. Onward(sess[i], d)
    BY <2>1, <2>3, DataOnward, Zenon
  <2>5. b \in BOOLEAN
    BY Zenon
  <2> HIDE DEF d, b
  <2>6. Onward(sess[i], u)
    BY <2>4, <2>5, ReadyOnward, Zenon
  <2> HIDE DEF u
  <2> QED
    BY <1>1, <2>1, <2>2, <2>3, <2>6, FollowsInv, Zenon
<1> QED
  BY <1>2, <1>3, Zenon

\* serveESP keeps the invariant.
LEMMA ESPInv ==
    ASSUME UdpInv, NEW p \in Peers, NEW spi, serveESP(p, spi)
    PROVE  UdpInv'
<1> DEFINE i == Lookup("espSess", spi)
           within == sess[i].dataIn + 1 <= vpnSessionMaxData
<1>1. UNCHANGED <<proto, now, granted, quicPeers, quicC, initials>> /\ proto = "ike"
  BY Zenon DEF serveESP
<1>2. CASE i = 0
  BY <1>1, <1>2, UnclaimedInv, Zenon DEF serveESP
<1>3. CASE i # 0 /\ (~samePeer(i, p) \/ ~sess[i].ready)
  BY <1>1, <1>3, SilentInv, Zenon DEF serveESP
<1>4. CASE i # 0 /\ samePeer(i, p) /\ sess[i].ready
  <2>1. /\ i \in DOMAIN sess /\ sess[i].peer = p /\ now <= sess[i].expires
        /\ sess[i] \in SessType /\ Within(sess[i])
    BY <1>4, ServedSession, Zenon DEF Tables
  <2>2. Follows(p, i, Data(sess[i], within), within)
    BY <1>4, Zenon DEF serveESP
  <2>3. /\ within \in BOOLEAN
        /\ within => sess[i].dataIn + 1 + sess[i].ctlIn <= vpnSessionMaxData
    BY <1>1, <2>1 DEF Within, SessType
  <2> HIDE DEF i, within
  <2> QED
    BY <1>1, <2>1, <2>2, <2>3, DataInv, Zenon
<1> QED
  BY <1>2, <1>3, <1>4, Zenon

\* serveL2TPControl keeps the invariant.
LEMMA L2TPControlInv ==
    ASSUME UdpInv, NEW p \in Peers, NEW k, NEW msg, serveL2TPControl(p, k, msg)
    PROVE  UdpInv'
<1> DEFINE i == Lookup("l2tpSess", k)
           b == sess[i].ready \/ msg = "ICRQ"
           u == [sess[i] EXCEPT !.ctlOut = sess[i].ctlOut + 1, !.ready = b]
<1>1. UNCHANGED <<proto, now, granted, quicPeers, quicC, initials>> /\ proto = "l2tp"
  BY Zenon DEF serveL2TPControl
<1>2. CASE i = 0 \/ ~samePeer(i, p)
  BY <1>1, <1>2, SilentInv, Zenon DEF serveL2TPControl
<1>3. CASE i # 0 /\ samePeer(i, p)
  <2>1. /\ i \in DOMAIN sess /\ sess[i].peer = p /\ now <= sess[i].expires
        /\ sess[i] \in SessType /\ Within(sess[i])
    BY <1>3, ServedSession, Zenon DEF Tables
  <2>2. CASE msg = "ZLB"
    BY <1>1, <1>3, <2>2, NoRowInv, Zenon DEF serveL2TPControl
  <2>3. CASE msg = "other"
    BY <1>1, <1>3, <2>1, <2>3, NotedInv, Zenon DEF serveL2TPControl
  <2>4. CASE msg # "ZLB" /\ msg # "other"
    <3>1. Follows(p, i, u, TRUE)
      BY <1>3, <2>4, Zenon DEF serveL2TPControl
    <3>2. b \in BOOLEAN
      BY Zenon
    <3> HIDE DEF i, b
    <3>3. Onward(sess[i], u)
      BY <1>1, <2>1, <3>2, AnswerOnward, Zenon
    <3> HIDE DEF u
    <3> QED
      BY <1>1, <2>1, <3>1, <3>3, FollowsInv, Zenon
  <2> QED
    BY <2>2, <2>3, <2>4, Zenon
<1> QED
  BY <1>2, <1>3, Zenon

\* serveL2TPData keeps the invariant.
LEMMA L2TPDataInv ==
    ASSUME UdpInv, NEW p \in Peers, NEW k, serveL2TPData(p, k)
    PROVE  UdpInv'
<1> DEFINE i == Lookup("l2tpSess", k)
           within == sess[i].dataIn + 1 <= vpnSessionMaxData /\ sess[i].ready
<1>1. UNCHANGED <<proto, now, granted, quicPeers, quicC, initials>> /\ proto = "l2tp"
  BY Zenon DEF serveL2TPData
<1>2. CASE i = 0
  BY <1>1, <1>2, UnclaimedInv, Zenon DEF serveL2TPData
<1>3. CASE i # 0 /\ ~samePeer(i, p)
  BY <1>1, <1>3, SilentInv, Zenon DEF serveL2TPData
<1>4. CASE i # 0 /\ samePeer(i, p)
  <2>1. /\ i \in DOMAIN sess /\ sess[i].peer = p /\ now <= sess[i].expires
        /\ sess[i] \in SessType /\ Within(sess[i])
    BY <1>4, ServedSession, Zenon DEF Tables
  <2>2. Follows(p, i, Data(sess[i], within), within)
    BY <1>4, Zenon DEF serveL2TPData
  <2>3. /\ within \in BOOLEAN
        /\ within => sess[i].dataIn + 1 + sess[i].ctlIn <= vpnSessionMaxData
    BY <1>1, <2>1 DEF Within, SessType
  <2> HIDE DEF i, within
  <2> QED
    BY <1>1, <2>1, <2>2, <2>3, DataInv, Zenon
<1> QED
  BY <1>2, <1>3, <1>4, Zenon

\* serveOVPNControl keeps the invariant.
LEMMA OVPNControlInv ==
    ASSUME UdpInv, NEW p \in Peers, NEW k, NEW op, serveOVPNControl(p, k, op)
    PROVE  UdpInv'
<1> DEFINE i == Lookup("ovpnSess", k)
           within == sess[i].ctlIn + 1 + sess[i].dataIn <= vpnSessionMaxData
           u == [sess[i] EXCEPT !.ctlIn = sess[i].ctlIn + 1,
                                !.ctlOut = IF within THEN sess[i].ctlOut + 1 ELSE sess[i].ctlOut]
<1>1. UNCHANGED <<proto, now, granted, quicPeers, quicC, initials>> /\ proto = "openvpn"
  BY Zenon DEF serveOVPNControl
<1>2. CASE i = 0 \/ ~samePeer(i, p)
  BY <1>1, <1>2, SilentInv, Zenon DEF serveOVPNControl
<1>3. CASE i # 0 /\ samePeer(i, p)
  <2>1. /\ i \in DOMAIN sess /\ sess[i].peer = p /\ now <= sess[i].expires
        /\ sess[i] \in SessType /\ Within(sess[i])
    BY <1>3, ServedSession, Zenon DEF Tables
  <2>2. CASE op = "broken"
    BY <1>1, <1>3, <2>1, <2>2, NotedInv, Zenon DEF serveOVPNControl
  <2>3. CASE op = "ack"
    BY <1>1, <1>3, <2>3, NoRowInv, Zenon DEF serveOVPNControl
  <2>4. CASE op # "broken" /\ op # "ack"
    <3>1. Follows(p, i, u, within)
      BY <1>3, <2>4, Zenon DEF serveOVPNControl
    <3>2. /\ within \in BOOLEAN
          /\ within => sess[i].ctlIn + 1 + sess[i].dataIn <= vpnSessionMaxData
      OBVIOUS
    <3> HIDE DEF i, within
    <3>3. Onward(sess[i], u)
      BY <1>1, <2>1, <3>2, ControlOnward, Zenon
    <3> HIDE DEF u
    <3> QED
      BY <1>1, <2>1, <3>1, <3>2, <3>3, FollowsInv, Zenon
  <2> QED
    BY <2>2, <2>3, <2>4, Zenon
<1> QED
  BY <1>2, <1>3, Zenon

\* The map keyed by the peer leads to a session of that peer.
LEMMA OVPNDataInv ==
    ASSUME UdpInv, NEW p \in Peers, NEW ok \in BOOLEAN, serveOVPNData(p, ok)
    PROVE  UdpInv'
<1> DEFINE i == Lookup("ovpnPeer", p)
           within == sess[i].ctlIn + sess[i].dataIn + 1 <= vpnSessionMaxData
<1>1. UNCHANGED <<proto, now, granted, quicPeers, quicC, initials>> /\ proto = "openvpn"
  BY Zenon DEF serveOVPNData
<1>2. CASE i = 0 \/ ~sess[i].ready
  BY <1>1, <1>2, SilentInv, Zenon DEF serveOVPNData
<1>3. CASE i # 0 /\ sess[i].ready
  <2>1. samePeer(i, p)
    BY <1>3, LookedUp, Zenon DEF UdpInv, Tabled, samePeer, Tables
  <2>2. /\ i \in DOMAIN sess /\ sess[i].peer = p /\ now <= sess[i].expires
        /\ sess[i] \in SessType /\ Within(sess[i])
    BY <1>3, <2>1, ServedSession, Zenon DEF Tables
  <2>3. CASE ~ok
    BY <1>1, <1>3, <2>2, <2>3, NotedInv, Zenon DEF serveOVPNData
  <2>4. CASE ok
    <3>1. Follows(p, i, Data(sess[i], within), within)
      BY <1>3, <2>4, Zenon DEF serveOVPNData
    <3>2. /\ within \in BOOLEAN
          /\ within => sess[i].dataIn + 1 + sess[i].ctlIn <= vpnSessionMaxData
      BY <2>2 DEF SessType
    <3> HIDE DEF i, within
    <3> QED
      BY <1>1, <2>2, <3>1, <3>2, DataInv, Zenon
  <2> QED
    BY <2>3, <2>4, Zenon
<1> QED
  BY <1>2, <1>3, Zenon

\* serveDTLSCookie keeps the invariant.
LEMMA DTLSCookieInv ==
    ASSUME UdpInv, NEW p \in Peers, NEW cookie, serveDTLSCookie(p, cookie)
    PROVE  UdpInv'
<1> DEFINE i == Lookup("dtlsFlows", p)
           own == cookie = p
<1>1. UNCHANGED <<proto, now, granted, quicPeers, quicC, initials>>
  BY Zenon DEF serveDTLSCookie
<1>2. CASE i = 0
  BY <1>1, <1>2, SilentInv, Zenon DEF serveDTLSCookie
<1>3. CASE i # 0
  <2>1. samePeer(i, p)
    BY <1>3, LookedUp, Zenon DEF UdpInv, Tabled, samePeer, Tables
  <2>2. i \in DOMAIN sess /\ sess[i].peer = p /\ now <= sess[i].expires
    BY <1>3, <2>1, ServedSession, Zenon DEF Tables
  <2>3. Passed(Attributed(p, sess[i], own)) /\ own \in BOOLEAN
    BY <1>3, Zenon DEF serveDTLSCookie
  <2> HIDE DEF i, own
  <2> QED
    BY <1>1, <2>2, <2>3, NotedInv, Zenon
<1> QED
  BY <1>2, <1>3, Zenon

----------------------------------------------------------------------------
(* The handlers without sessions, QUIC among them. *)

\* serveSTUN keeps the invariant.
LEMMA STUNInv ==
    ASSUME UdpInv, NEW p \in Peers, serveSTUN(p)
    PROVE  UdpInv'
<1>1. /\ UNCHANGED <<proto, now, granted, sess, table, quicPeers, quicC, initials>>
      /\ consume(correlate(p, proto))
  BY Zenon DEF serveSTUN
<1>2. Spent' /\ sessions' = sessions
  BY <1>1, TakesWindow, Zenon DEF UdpInv
<1>3. RowRight(flow)'
  <2>1. CASE correlate(p, proto) = NoRes
    BY <2>1, UnmatchedRight, Zenon DEF serveSTUN
  <2>2. CASE correlate(p, proto) # NoRes
    BY <2>2, ReservedRight, Zenon DEF serveSTUN, UdpInv
  <2> QED
    BY <2>1, <2>2, Zenon
<1> QED
  BY <1>1, <1>2, <1>3, SessionsStay, Zenon

\* A DNS port's rows: answered whoever asks.
LEMMA DNSInv ==
    ASSUME UdpInv, NEW p \in Peers, NEW named, serveDNS(p, named)
    PROVE  UdpInv'
<1> DEFINE r == IF named = NoSid THEN correlate(p, proto) ELSE NoRes
<1>1. /\ UNCHANGED <<proto, now, granted, sess, table, quicPeers, quicC, initials>>
      /\ consume(r) /\ proto = "dns"
  BY Zenon DEF serveDNS
<1>2. Spent' /\ sessions' = sessions
  <2>1. CASE r = NoRes
    BY <1>1, <2>1, Zenon DEF consume, UdpInv, Spent, Windows
  <2>2. CASE r # NoRes
    BY <1>1, <2>2, TakesWindow, Zenon DEF UdpInv
  <2> QED
    BY <2>1, <2>2, Zenon
<1>3. flow'.stage = "handshake"
  BY Zenon DEF serveDNS, Reserved, Unmatched
<1>4. RowRight(flow)'
  BY <1>1, <1>3, Zenon DEF RowRight
<1> QED
  BY <1>1, <1>2, <1>4, SessionsStay, Zenon

\* serveUnknown keeps the invariant.
LEMMA UnknownInv ==
    ASSUME UdpInv, NEW p \in Peers, serveUnknown(p)
    PROVE  UdpInv'
  BY UnclaimedInv, Zenon DEF serveUnknown

\* Malformed keeps the invariant.
LEMMA MalformedInv ==
    ASSUME UdpInv, NEW p \in Peers, Malformed(p)
    PROVE  UdpInv'
  BY SilentInv, Zenon DEF Malformed

\* A step of the QUIC side that leaves the sessions alone.
LEMMA QuicStep ==
    ASSUME UdpInv, Spent', RowRight(flow)', sessions' = sessions,
           UNCHANGED <<proto, now, granted, sess, table>>,
           quicC' \in Seq([peer : Peers, at : Nat]), Remembered'
    PROVE  UdpInv'
<1>1. UdpTypes'
  BY Zenon DEF UdpInv, UdpTypes
<1>2. Bounded' /\ Tabled'
  BY Zenon DEF UdpInv, Bounded, Within, Tabled
<1>3. Found'
  BY DEF UdpInv, Found, UsedBy, At, IdOf, IdIn
<1> QED
  BY <1>1, <1>2, <1>3, Zenon DEF UdpInv

\* A packet is forwarded at most quicTTL after an Initial of its peer.
LEMMA ForwardedRight ==
    ASSUME UdpInv, NEW p \in Peers, Forwarded(p), initials \subseteq initials',
           \E i \in initials' : i.peer = p /\ i.at <= now /\ now <= i.at + quicTTL
    PROVE  /\ quicC' \in Seq([peer : Peers, at : Nat])
           /\ \A n \in DOMAIN quicC' : \E i \in initials' :
                 i.peer = quicC'[n].peer /\ i.at <= quicC'[n].at /\ quicC'[n].at <= i.at + quicTTL
<1> DEFINE e == [peer |-> p, at |-> now]
<1>1. quicC \in Seq([peer : Peers, at : Nat]) /\ e \in [peer : Peers, at : Nat]
      /\ e.peer = p /\ e.at = now
  BY Zenon DEF UdpInv, UdpTypes
<1>2. \A n \in DOMAIN quicC : \E i \in initials' :
         i.peer = quicC[n].peer /\ i.at <= quicC[n].at /\ quicC[n].at <= i.at + quicTTL
  BY Zenon DEF UdpInv, Remembered
<1>3. CASE quicC' = quicC
  BY <1>1, <1>2, <1>3, Zenon
<1>4. CASE quicC' = Append(quicC, e)
  <2> HIDE DEF e
  <2>1. /\ quicC' \in Seq([peer : Peers, at : Nat])
        /\ DOMAIN quicC' = DOMAIN quicC \cup {Len(quicC) + 1}
        /\ quicC'[Len(quicC) + 1] = e
        /\ \A n \in DOMAIN quicC : quicC'[n] = quicC[n]
    BY <1>1, <1>4
  <2> QED
    BY <1>1, <1>2, <2>1, Zenon
<1> QED
  BY <1>3, <1>4, Zenon DEF Forwarded

\* Forgetting peers keeps what is remembered of the others.
LEMMA ForgottenRight ==
    ASSUME UdpInv, NEW S \in SUBSET DOMAIN quicPeers, quicPeers' = Keep(quicPeers, S),
           UNCHANGED <<now, quicC, initials>>
    PROVE  Remembered'
  BY DEF UdpInv, Remembered, Keep

\* serveQUIC keeps the invariant.
LEMMA QUICInv ==
    ASSUME UdpInv, NEW p \in Peers, NEW long \in BOOLEAN, serveQUIC(p, long)
    PROVE  UdpInv'
<1> DEFINE r == correlate(p, proto)
           others == DOMAIN quicPeers \ {p}
<1>1. UNCHANGED <<proto, now, granted>>
  BY Zenon DEF serveQUIC
<1>2. CASE knownPeer(p)
  <2>1. Forwarded(p) /\ Passed(NoFlow) /\ UNCHANGED <<quicPeers, initials>>
    BY <1>2, Zenon DEF serveQUIC
  <2>2. \E i \in initials : i.peer = p /\ i.at <= now /\ now <= i.at + quicTTL
    <3>1. PICK i \in initials : i.peer = p /\ i.at \in Nat /\ i.at <= now
                                /\ quicPeers[p] = i.at + quicTTL
      BY <1>2, Zenon DEF knownPeer, UdpInv, Remembered
    <3> QED
      BY <1>2, <3>1, Constants DEF knownPeer, UdpInv, UdpTypes
  <2>3. /\ quicC' \in Seq([peer : Peers, at : Nat])
        /\ \A n \in DOMAIN quicC' : \E i \in initials' :
              i.peer = quicC'[n].peer /\ i.at <= quicC'[n].at /\ quicC'[n].at <= i.at + quicTTL
    BY <2>1, <2>2, ForwardedRight, Zenon
  <2>4. Remembered'
    BY <1>1, <2>1, <2>3, Zenon DEF UdpInv, Remembered
  <2>5. Spent' /\ sessions' = sessions /\ RowRight(flow)' /\ UNCHANGED <<sess, table>>
    BY <1>1, <2>1, Zenon DEF Passed, storeVars, RowRight, UdpInv, Spent, Windows
  <2> QED
    BY <1>1, <2>3, <2>4, <2>5, QuicStep, Zenon
<1>3. CASE ~knownPeer(p) /\ ~long
  <2>1. Unclaimed(p) /\ quicPeers' = Keep(quicPeers, others) /\ UNCHANGED <<quicC, initials>>
    BY <1>3, Zenon DEF serveQUIC
  <2>2. Spent' /\ sessions' = sessions /\ RowRight(flow)' /\ UNCHANGED <<sess, table>>
    BY <1>1, <2>1, UnclaimedSteps, Zenon DEF Unclaimed
  <2>3. Remembered'
    BY <1>1, <2>1, ForgottenRight, Zenon
  <2>4. quicC' \in Seq([peer : Peers, at : Nat])
    BY <2>1, Zenon DEF UdpInv, UdpTypes
  <2> QED
    BY <1>1, <2>2, <2>3, <2>4, QuicStep, Zenon
<1>4. CASE ~knownPeer(p) /\ long /\ r = NoRes
  <2>1. /\ Passed(Unmatched(p, "handshake"))
        /\ quicPeers' = Keep(quicPeers, others) /\ UNCHANGED <<quicC, initials>>
    BY <1>4, Zenon DEF serveQUIC
  <2>2. Spent' /\ sessions' = sessions /\ UNCHANGED <<sess, table>>
    BY <1>1, <2>1, Zenon DEF Passed, storeVars, UdpInv, Spent, Windows
  <2>3. RowRight(flow)'
    BY <2>1, UnmatchedRight, Zenon DEF Passed
  <2>4. Remembered'
    BY <1>1, <2>1, ForgottenRight, Zenon
  <2>5. quicC' \in Seq([peer : Peers, at : Nat])
    BY <2>1, Zenon DEF UdpInv, UdpTypes
  <2> QED
    BY <1>1, <2>2, <2>3, <2>4, <2>5, QuicStep, Zenon
<1>5. CASE ~knownPeer(p) /\ long /\ r # NoRes
  <2> DEFINE kept == {q \in DOMAIN quicPeers : now <= quicPeers[q]}
             first == [peer |-> p, at |-> now]
  <2>1. /\ consume(r) /\ Forwarded(p) /\ flow' = Reserved(p, r, FALSE)
        /\ quicPeers' = Put(Keep(quicPeers, kept), p, now + quicTTL)
        /\ initials' = initials \cup {first} /\ UNCHANGED <<sess, table>>
    BY <1>5, Zenon DEF serveQUIC
  <2>2. Spent' /\ sessions' = sessions
    BY <1>1, <2>1, TakesWindow, Zenon DEF UdpInv
  <2>3. RowRight(flow)'
    BY <1>5, <2>1, ReservedRight, Zenon DEF UdpInv
  <2>4. first.peer = p /\ first.at = now /\ now \in Nat /\ now <= now + quicTTL
    BY Constants DEF UdpInv, UdpTypes
  <2> HIDE DEF first
  <2>5. /\ quicC' \in Seq([peer : Peers, at : Nat])
        /\ \A n \in DOMAIN quicC' : \E i \in initials' :
              i.peer = quicC'[n].peer /\ i.at <= quicC'[n].at /\ quicC'[n].at <= i.at + quicTTL
    <3>1. first \in initials' /\ initials \subseteq initials' /\ Forwarded(p)
      BY <2>1, Zenon
    <3>2. \E i \in initials' : i.peer = p /\ i.at <= now /\ now <= i.at + quicTTL
      BY <2>4, <3>1
    <3> QED
      BY <3>1, <3>2, ForwardedRight, Zenon
  <2>6. \A q \in DOMAIN quicPeers' : \E i \in initials' :
           i.peer = q /\ i.at \in Nat /\ i.at <= now /\ quicPeers'[q] = i.at + quicTTL
    <3>1. kept \subseteq DOMAIN quicPeers /\ quicPeers' = Put(Keep(quicPeers, kept), p, now + quicTTL)
      BY <2>1, Zenon
    <3> HIDE DEF kept
    <3>2. \A q \in DOMAIN quicPeers' :
             \/ q = p /\ quicPeers'[q] = now + quicTTL
             \/ q \in DOMAIN quicPeers /\ quicPeers'[q] = quicPeers[q]
      BY <3>1, Zenon DEF Put, Keep
    <3>3. first \in initials' /\ initials \subseteq initials'
      BY <2>1, Zenon
    <3>4. \A q \in DOMAIN quicPeers : \E i \in initials :
             i.peer = q /\ i.at \in Nat /\ i.at <= now /\ quicPeers[q] = i.at + quicTTL
      BY Zenon DEF UdpInv, Remembered
    <3> QED
      BY <2>4, <3>2, <3>3, <3>4
  <2>7. Remembered'
    BY <1>1, <2>5, <2>6, Zenon DEF Remembered
  <2> QED
    BY <1>1, <2>1, <2>2, <2>3, <2>5, <2>7, QuicStep, Zenon
<1> QED
  BY <1>2, <1>3, <1>4, <1>5, Zenon

\* ReadFrom keeps the invariant.
LEMMA ReadFromInv ==
    ASSUME UdpInv, ReadFrom
    PROVE  UdpInv'
<1>1. /\ UNCHANGED <<storeVars, proto, now, granted, flow, sess, table, quicPeers, initials>>
      /\ quicC' = Tail(quicC) /\ quicC # <<>> /\ quicC \in Seq([peer : Peers, at : Nat])
  BY Zenon DEF ReadFrom, UdpInv, UdpTypes
<1>2. Spent' /\ RowRight(flow)' /\ sessions' = sessions
  BY <1>1, Zenon DEF storeVars, UdpInv, Spent, Windows, RowRight, ServedFor
<1>3. /\ quicC' \in Seq([peer : Peers, at : Nat])
      /\ \A n \in DOMAIN quicC' : n + 1 \in DOMAIN quicC /\ quicC'[n] = quicC[n + 1]
  BY <1>1
<1>4. Remembered'
  BY <1>1, <1>3 DEF UdpInv, Remembered
<1> QED
  BY <1>1, <1>2, <1>3, <1>4, QuicStep, Zenon

----------------------------------------------------------------------------
(* The invariant and the theorems. *)

\* The invariant holds at the start.
LEMMA InitInv == Init => UdpInv
<1> SUFFICES ASSUME Init
             PROVE  UdpInv
  BY Zenon
<1> USE DEF Init
<1>1. PICK client \in [Sids -> Addrs] :
         sessions = [s \in Sids |-> [expires |-> SessionTTL, ip |-> client[s], tests |-> Tests]]
  BY Zenon
<1>2. sess = <<>> /\ DOMAIN sess = {} /\ quicC = <<>> /\ DOMAIN quicC = {}
  OBVIOUS
<1>3. UdpTypes
  BY <1>1 DEF UdpTypes
<1>4. Spent /\ Bounded
  BY <1>2, Zenon DEF Spent, Windows, Bounded
<1>5. \A t \in Tables : DOMAIN table[t] = {}
  BY Zenon DEF Empty
<1>6. Tabled
  BY <1>5, Zenon DEF Tabled, Tables
<1>7. Found /\ RowRight(flow) /\ Remembered
  BY <1>2, Zenon DEF Found, RowRight, Remembered, Empty
<1> QED
  BY <1>3, <1>4, <1>6, <1>7, Zenon DEF UdpInv

\* Every handler, and every step beside them, keeps the invariant.
LEMMA NextInv == UdpInv /\ [Next]_udpVars => UdpInv'
<1> SUFFICES ASSUME UdpInv, [Next]_udpVars
             PROVE  UdpInv'
  BY Zenon
<1>1. ASSUME NEW p \in Peers, NEW ok \in BOOLEAN,
             serveWGInitiation(p, ok) \/ serveOVPNData(p, ok) \/ serveQUIC(p, ok)
      PROVE  UdpInv'
  BY <1>1, WGInitiationInv, OVPNDataInv, QUICInv, Zenon
<1>2. ASSUME NEW p \in Peers, NEW n \in 1..MaxPackets, NEW ok \in BOOLEAN,
             serveWGTransport(p, n, ok)
      PROVE  UdpInv'
  BY <1>2, WGTransportInv, Zenon
<1>3. ASSUME NEW p \in Peers, NEW k \in Keys,
             serveIKEInit(p, k) \/ serveL2TPStart(p, k) \/ serveL2TPData(p, k)
      PROVE  UdpInv'
  BY <1>3, IKEInitInv, L2TPStartInv, L2TPDataInv, Zenon
<1>4. ASSUME NEW p \in Peers, NEW k \in Keys, NEW n \in 1..MaxPackets, serveIKEAuth(p, k, n)
      PROVE  UdpInv'
  BY <1>4, IKEAuthInv, Zenon
<1>5. ASSUME NEW p \in Peers, NEW n \in 1..MaxPackets, serveESP(p, n)
      PROVE  UdpInv'
  BY <1>5, ESPInv, Zenon
<1>6. ASSUME NEW p \in Peers, NEW k \in Keys, NEW msg,
             serveL2TPControl(p, k, msg) \/ serveOVPNControl(p, k, msg)
      PROVE  UdpInv'
  BY <1>6, L2TPControlInv, OVPNControlInv, Zenon
<1>7. ASSUME NEW p \in Peers, NEW ok \in BOOLEAN, NEW k \in Keys, serveOVPNReset(p, ok, k)
      PROVE  UdpInv'
  BY <1>7, OVPNResetInv, Zenon
<1>8. ASSUME NEW p \in Peers, NEW cookie \in Peers, serveDTLSCookie(p, cookie)
      PROVE  UdpInv'
  BY <1>8, DTLSCookieInv, Zenon
<1>9. ASSUME NEW p \in Peers, NEW sid \in Sids \cup {NoSid}, serveDNS(p, sid)
      PROVE  UdpInv'
  BY <1>9, DNSInv, Zenon
<1>10. ASSUME NEW p \in Peers,
              serveDTLSHello(p) \/ serveSTUN(p) \/ serveUnknown(p) \/ Malformed(p)
       PROVE  UdpInv'
  BY <1>10, DTLSHelloInv, STUNInv, UnknownInv, MalformedInv, Zenon
<1>11. CASE Record \/ ReadFrom \/ Collect \/ Tick
  BY <1>11, RecordInv, ReadFromInv, CollectInv, TickInv, Zenon
<1>12. ASSUME NEW sid \in Sids, NEW kind \in {proto, "unknown"}, Reserve(sid, kind)
       PROVE  UdpInv'
  BY <1>12, ReserveInv, Zenon
<1>13. CASE UNCHANGED udpVars
  <2>1. /\ UNCHANGED <<proto, now, granted, flow, sess, table, quicPeers, quicC, initials>>
        /\ reservations' = reservations /\ sessions' = sessions
    BY <1>13, Zenon DEF udpVars, storeVars
  <2>2. Spent' /\ RowRight(flow)'
    BY <2>1, Zenon DEF UdpInv, Spent, Windows, RowRight, ServedFor
  <2> QED
    BY <2>1, <2>2, SessionsStay, Zenon
<1> QED
  BY <1>1, <1>2, <1>3, <1>4, <1>5, <1>6, <1>7, <1>8, <1>9, <1>10, <1>11, <1>12, <1>13 DEF Next

\* The invariant holds throughout.
LEMMA UdpInvariant == Spec => []UdpInv
<1>1. Init => UdpInv
  BY InitInv, Zenon
<1>2. UdpInv /\ [Next]_udpVars => UdpInv'
  BY NextInv, Zenon
<1> QED
  BY <1>1, <1>2, PTL DEF Spec

\* dataObs and attribute (udp_vpn.go), for any number of peers, wire ids and packets: a
\* follow-up is attributed to the attempt of a handshake of its own peer that is at most
\* vpnSessionTTL old, however wire ids repeat and map entries are overwritten.
THEOREM FollowUpsAttributedHolds == Spec => []FollowUpsAttributed
<1>1. UdpInv => FollowUpsAttributed
  BY Zenon DEF UdpInv, RowRight, FollowUpsAttributed, Rows
<1> QED
  BY <1>1, UdpInvariant, PTL

\* Every handler of udpDispatch: no peer gets an answer, and the QUIC endpoint no packet,
\* without a reservation consumed for it; a DNS port alone answers whoever asks.
THEOREM AnsweredReservedHolds == Spec => []AnsweredReserved
<1>1. UdpInv => AnsweredReserved
  BY Zenon DEF UdpInv, RowRight, Remembered, AnsweredReserved, Rows
<1> QED
  BY <1>1, UdpInvariant, PTL

\* vpnSessionMaxData (udp_vpn.go) for any limit and any traffic: one reservation opens one
\* session, and that one echoes no more packets than the limit.
THEOREM EchoesBoundedHolds == Spec => []EchoesBounded
<1>1. UdpInv => EchoesBounded
  BY Zenon DEF UdpInv, Bounded, Within, EchoesBounded
<1> QED
  BY <1>1, UdpInvariant, PTL

\* gcVPN and rememberDTLS: whatever the sweeps and later handshakes drop, a live session is
\* found by the ids its peer puts on the wire, unless a later handshake took the id.
THEOREM LastHandshakeWinsHolds == Spec => []LastHandshakeWins
<1>1. UdpInv => LastHandshakeWins
  <2> SUFFICES ASSUME UdpInv, NEW i \in DOMAIN sess, now <= sess[i].expires
               PROVE  LET byKey == NewestBy(i, LAMBDA j : sess[j].key = sess[i].key)
                          byPeer == NewestBy(i, LAMBDA j : samePeer(j, sess[i].peer))
                      IN  /\ proto = "wireguard" => Lookup("wgSess", i) = i
                          /\ proto = "ike" => Lookup("espSess", i) = i
                          /\ (proto = "ike" /\ byKey) => Lookup("ikeSess", sess[i].key) = i
                          /\ (proto = "l2tp" /\ byKey) => Lookup("l2tpSess", sess[i].key) = i
                          /\ (proto = "openvpn" /\ byKey) => Lookup("ovpnSess", sess[i].key) = i
                          /\ (proto = "openvpn" /\ byPeer) => Lookup("ovpnPeer", sess[i].peer) = i
                          /\ (proto = "dtls" /\ byPeer) => Lookup("dtlsFlows", sess[i].peer) = i
    BY Zenon DEF LastHandshakeWins
  <2> DEFINE byKey == \A j \in DOMAIN sess : j > i => sess[j].key # sess[i].key
             byPeer == \A j \in DOMAIN sess : j > i => sess[j].peer # sess[i].peer
  <2>1. \A t, k : At(t, k, i) => Lookup(t, k) = i
    BY Zenon DEF At, Lookup
  <2>2. \A j \in DOMAIN sess : j > i => j # i
    BY SessIn DEF UdpInv
  <2>3. proto = "wireguard" => Lookup("wgSess", i) = i
    BY <2>1, <2>2, Zenon DEF UdpInv, Found, UsedBy, Tables, IdOf, IdIn
  <2>4. proto = "ike" => Lookup("espSess", i) = i
    BY <2>1, <2>2, Zenon DEF UdpInv, Found, UsedBy, Tables, IdOf, IdIn
  <2>5. /\ (proto = "ike" /\ byKey) => Lookup("ikeSess", sess[i].key) = i
        /\ (proto = "l2tp" /\ byKey) => Lookup("l2tpSess", sess[i].key) = i
        /\ (proto = "openvpn" /\ byKey) => Lookup("ovpnSess", sess[i].key) = i
    BY <2>1, Zenon DEF UdpInv, Found, UsedBy, Tables, IdOf, IdIn
  <2>6. /\ (proto = "openvpn" /\ byPeer) => Lookup("ovpnPeer", sess[i].peer) = i
        /\ (proto = "dtls" /\ byPeer) => Lookup("dtlsFlows", sess[i].peer) = i
    BY <2>1, Zenon DEF UdpInv, Found, UsedBy, Tables, IdOf, IdIn
  <2> QED
    BY <2>3, <2>4, <2>5, <2>6, Zenon DEF NewestBy, samePeer
<1> QED
  BY <1>1, UdpInvariant, PTL
=============================================================================
