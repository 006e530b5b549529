--------------------------- MODULE SessionsProofs ---------------------------
(***************************************************************************)
(* Theorems about Sessions: type correctness, the absence of the unchecked *)
(* nil session, the bookkeeping of observations and the bound on how far   *)
(* concurrent openers can pass the live-session cap.                       *)
(***************************************************************************)
EXTENDS Sessions, FiniteSetTheorems, SequenceTheorems, TLAPS

\* 1..n has n elements.
LEMMA PrefixCardinality ==
    ASSUME NEW n \in Nat
    PROVE  IsFiniteSet(1..n) /\ Cardinality(1..n) = n
<1>1. /\ IsFiniteSet(1..n)
      /\ Cardinality(1..n) = IF 1 > n THEN 0 ELSE n - 1 + 1
  BY FS_Interval, 1 \in Int, n \in Int, Zenon
<1> QED
  BY <1>1

\* Pruning a window of clock values leaves a window of clock values.
LEMMA PruneType ==
    ASSUME NEW ts \in Seq(Nat), NEW since \in Int
    PROVE  prune(ts, since) \in Seq(Nat)
<1> DEFINE old == {j \in 1..Len(ts) : \A m \in 1..j : ts[m] < since}
<1>1. Len(ts) \in Nat
  BY LenProperties, Zenon
<1>2. IsFiniteSet(1..Len(ts)) /\ Cardinality(1..Len(ts)) = Len(ts)
  BY <1>1, PrefixCardinality, Zenon
<1>3. old \in SUBSET (1..Len(ts))
  BY Zenon
<1>4. IsFiniteSet(old) /\ Cardinality(old) <= Len(ts)
  BY <1>2, <1>3, FS_Subset
<1>5. Cardinality(old) \in Nat
  BY <1>4, FS_CardinalityType, Zenon
<1>6. SubSeq(ts, Cardinality(old) + 1, Len(ts)) \in Seq(Nat)
  <2> HIDE DEF old
  <2>1. Cardinality(old) + 1 \in 1..(Len(ts) + 1)
    BY <1>1, <1>4, <1>5
  <2> QED
    BY <2>1, <1>1, SubSeqProperties
<1> QED
  BY <1>6, Zenon DEF prune

\* The constants are what the assumptions say, in the form the steps use them.
LEMMA Constants ==
    /\ RateKeyOf \in [Addrs -> Addrs]
    /\ NoSid \notin Sids
    /\ Total \notin Addrs
    /\ MaxLiveSessions \in Nat /\ MaxSessionObservations \in Nat /\ ObsMax \in Nat
    /\ SessPerMin \in Nat /\ AttPer10Min \in Nat
    /\ Minute \in Nat /\ TenMinutes \in Nat /\ Retention \in Nat
    /\ SessionTTL \in Nat /\ MaxTime \in Nat /\ MaxArrivals \in Nat /\ MaxStall \in Nat
    /\ MaxStall <= Minute
    /\ Enabled \subseteq Tests
    /\ SomeAddr \in Addrs
  BY StoreConstants, SessionsConstants, Zenon DEF SomeAddr

\* The numbers among them.
LEMMA Limits ==
    /\ MaxLiveSessions \in Nat /\ MaxSessionObservations \in Nat /\ ObsMax \in Nat
    /\ Minute \in Nat /\ MaxStall \in Nat /\ MaxStall <= Minute
  BY Constants, Zenon

\* The numbers of the state.
LEMMA Numbers ==
    ASSUME TypeOK
    PROVE  /\ now \in Nat /\ freshId \in Nat /\ obsCount \in Int
           /\ freed \in Nat /\ reported \in Nat
           /\ drops.noSession \in Nat /\ drops.sessionCap \in Nat /\ drops.globalCap \in Nat
           /\ \A o \in obs : o.id \in Nat /\ o.first \in Nat
<1>1. now \in Nat /\ freshId \in Nat /\ obsCount \in Int /\ freed \in Nat /\ reported \in Nat
  BY Zenon DEF TypeOK
<1>2. drops.noSession \in Nat /\ drops.sessionCap \in Nat /\ drops.globalCap \in Nat
  BY Zenon DEF TypeOK
<1>3. \A o \in obs : o.id \in Nat /\ o.first \in Nat
  BY Zenon DEF TypeOK, Row
<1> QED
  BY <1>1, <1>2, <1>3, Zenon

\* An activation that is over has the type of an activation.
LEMMA IdleTypes ==
    /\ IdleOpener \in OpenerType
    /\ IdleFlow \in FlowType
  BY Constants, Zenon DEF IdleOpener, IdleFlow, OpenerType, FlowType

----------------------------------------------------------------------------
(* Type correctness. *)

\* A finished activation keeps the session it names and its arrival time.
LEMMA EndingType ==
    ASSUME TypeOK, NEW f \in Flows, NEW sid \in Sids \cup {NoSid}
    PROVE  Ending(f, sid) \in FlowType
  BY Constants, Zenon DEF TypeOK, Ending, IdleFlow, FlowType

\* What the steps of a flow make of its activation.
LEMMA FlowKeyed ==
    ASSUME NEW x \in FlowType, NEW sid \in Sids, NEW t \in Nat, NEW u \in Nat
    PROVE  [x EXCEPT !.pc = "keyed", !.sid = sid, !.keyed = t, !.seen = u] \in FlowType
  BY Zenon DEF FlowType

\* A flow that is served keeps its type.
LEMMA FlowServed ==
    ASSUME NEW x \in FlowType, NEW ip \in Addrs
    PROVE  [x EXCEPT !.pc = "served", !.ip = ip, !.keyed = 0] \in FlowType
  BY Zenon DEF FlowType

\* So does one that stops, in either way.
LEMMA FlowStopped ==
    ASSUME NEW x \in FlowType
    PROVE  /\ [x EXCEPT !.pc = "nilDereference"] \in FlowType
           /\ [x EXCEPT !.pc = "read", !.seen = 0] \in FlowType
<1>1. [x EXCEPT !.pc = "nilDereference"] \in FlowType
  BY Zenon DEF FlowType
<1>2. [x EXCEPT !.pc = "read", !.seen = 0] \in FlowType
  BY Zenon DEF FlowType
<1> QED
  BY <1>1, <1>2, Zenon

\* A flow's activation, and the clock values in it.
LEMMA FlowIn ==
    ASSUME TypeOK, NEW f \in Flows
    PROVE  flow[f] \in FlowType /\ flow[f].first \in Nat /\ flow[f].seen \in Nat /\ now \in Nat
<1>1. flow[f] \in FlowType /\ now \in Nat
  BY Zenon DEF TypeOK
<1> QED
  BY <1>1, Zenon DEF FlowType

\* Rows, the counter and the refusals keep their types when a row is handed in.
LEMMA AddType ==
    ASSUME TypeOK, NEW o \in [id : Nat, sid : Sids \cup {NoSid}, first : Nat],
           addObservationAt(o, now)
    PROVE  /\ obs' \in SUBSET Row /\ IsFiniteSet(obs')
           /\ obsCount' \in Int
           /\ drops' \in [noSession : Nat, sessionCap : Nat, globalCap : Nat]
           /\ freshId' \in Nat
<1>1. freshId' \in Nat
  BY DEF addObservationAt, TypeOK
<1>2. Verdict(o, now) \in {"noSession", "sessionCap", "globalCap", "kept"}
  BY Zenon DEF Verdict
<1>3. CASE Verdict(o, now) = "kept"
  <2>1. Live(o.sid, now)
    BY <1>3, Zenon DEF Verdict
  <2>2. o \in Row
    BY <2>1, Zenon DEF Live, TypeOK, Row
  <2>3. IsFiniteSet(obs \cup {o})
    BY FS_AddElement, Zenon DEF TypeOK
  <2>4. obs' = obs \cup {o} /\ obsCount' = obsCount + 1 /\ drops' = drops
    BY <1>3, Zenon DEF addObservationAt
  <2>5. obs \cup {o} \in SUBSET Row
    BY <2>2, Zenon DEF TypeOK
  <2>6. IsFiniteSet(obs')
    BY <2>3, <2>4, Zenon
  <2>7. obs' \in SUBSET Row /\ obsCount' \in Int
    BY <2>4, <2>5 DEF TypeOK
  <2>8. drops' \in [noSession : Nat, sessionCap : Nat, globalCap : Nat]
    BY <2>4, Zenon DEF TypeOK
  <2> QED
    BY <1>1, <2>6, <2>7, <2>8, Zenon
<1>4. CASE Verdict(o, now) # "kept"
  <2>1. obs' = obs /\ obsCount' = obsCount
    BY <1>4, Zenon DEF addObservationAt
  <2>2. drops' = [drops EXCEPT ![Verdict(o, now)] = @ + 1]
    BY <1>4, Zenon DEF addObservationAt
  <2>3. drops \in [noSession : Nat, sessionCap : Nat, globalCap : Nat]
    BY Zenon DEF TypeOK
  <2>4. drops' \in [noSession : Nat, sessionCap : Nat, globalCap : Nat]
    <3>1. CASE Verdict(o, now) = "noSession"
      BY <2>2, <2>3, <3>1
    <3>2. CASE Verdict(o, now) = "sessionCap"
      BY <2>2, <2>3, <3>2
    <3>3. CASE Verdict(o, now) = "globalCap"
      BY <2>2, <2>3, <3>3
    <3> QED
      BY <1>2, <1>4, <3>1, <3>2, <3>3, Zenon
  <2> QED
    BY <1>1, <2>1, <2>4, Zenon DEF TypeOK
<1> QED
  BY <1>3, <1>4, Zenon

\* Every step of the openers, the flows, the gc loop and the clock keeps the types.
LEMMA TypeStep == TypeOK /\ [Next]_vars => TypeOK'
<1> SUFFICES ASSUME TypeOK, [Next]_vars
             PROVE  TypeOK'
  BY Zenon
<1>1. ASSUME NEW h \in Openers, NEW ip \in Addrs, Admit(h, ip)
      PROVE  TypeOK'
  <2>1. RateKeyOf[ip] \in Addrs
    BY Constants, Zenon
  <2>2. SessWindow(ip, now) \in Seq(Nat)
    BY <2>1, Constants, PruneType DEF SessWindow, TypeOK
  <2>3. Append(SessWindow(ip, now), now) \in Seq(Nat)
    BY <2>2, AppendProperties, Zenon DEF TypeOK
  <2>4. sessRate' \in [Addrs -> Seq(Nat)]
    BY <1>1, <2>1, <2>2, <2>3, Zenon DEF Admit, allowSession, TypeOK
  <2>5. [pc |-> "admitted", at |-> now, ip |-> ip] \in OpenerType
    BY Zenon DEF OpenerType, TypeOK
  <2> QED
    BY <1>1, <2>4, <2>5, Zenon DEF Admit, allowSession, TypeOK
<1>2. ASSUME NEW h \in Openers, Reject(h)
      PROVE  TypeOK'
  BY <1>2, IdleTypes, Zenon DEF Reject, storeVars, TypeOK
<1>3. ASSUME NEW h \in Openers, NEW sid \in Sids, NEW req \in SUBSET Tests, Open(h, sid, req)
      PROVE  TypeOK'
  <2>1. Granted(req) \in SUBSET Tests
    BY Constants, Zenon DEF Granted
  <2>2. opener[h].at \in Nat /\ opener[h].ip \in Addrs
    BY Zenon DEF TypeOK, OpenerType
  <2>3. [expires |-> opener[h].at + SessionTTL, ip |-> opener[h].ip, tests |-> Granted(req)]
            \in Session
    BY <2>1, <2>2, Constants DEF Session
  <2>4. DOMAIN sessions' \in SUBSET Sids /\ \A s \in DOMAIN sessions' : sessions'[s] \in Session
    BY <1>3, <2>3, Zenon DEF Open, putSession, TypeOK
  <2>5. IsFiniteSet(DOMAIN sessions')
    <3>1. DOMAIN sessions' = DOMAIN sessions \cup {sid}
      BY <1>3, Zenon DEF Open, putSession
    <3>2. IsFiniteSet(DOMAIN sessions \cup {sid})
      BY FS_AddElement, Zenon DEF TypeOK
    <3> QED
      BY <3>1, <3>2, Zenon
  <2> QED
    BY <1>3, <2>4, <2>5, IdleTypes, Zenon DEF Open, putSession, TypeOK
<1>4. ASSUME NEW f \in Flows, NEW udp \in BOOLEAN, Arrive(f, udp)
      PROVE  TypeOK'
  <2>1. [IdleFlow EXCEPT !.pc = "read", !.udp = udp, !.first = now] \in FlowType
    BY Constants, Zenon DEF IdleFlow, FlowType, TypeOK
  <2> QED
    BY <1>4, <2>1, SMTT(30) DEF Arrive, storeVars, TypeOK
<1>5. ASSUME NEW f \in Flows, NEW sid \in Sids \cup {NoSid}, Unauthenticated(f, sid)
      PROVE  TypeOK'
  <2>1. (IF flow[f].sid = NoSid THEN sid ELSE flow[f].sid) \in Sids \cup {NoSid}
    BY Zenon DEF TypeOK, FlowType
  <2>2. Ending(f, IF flow[f].sid = NoSid THEN sid ELSE flow[f].sid) \in FlowType
    BY <2>1, EndingType, Zenon
  <2> QED
    BY <1>5, <2>2, Zenon DEF Unauthenticated, storeVars, TypeOK
<1>6. ASSUME NEW f \in Flows, NEW sid \in Sids, NEW mac \in BOOLEAN, Decode(f, sid, mac)
      PROVE  TypeOK'
  <2>1. Ending(f, sid) \in FlowType
    BY EndingType, Zenon
  <2> DEFINE seen == IF flow[f].udp THEN flow[f].first ELSE now
  <2>2. [flow[f] EXCEPT !.pc = "keyed", !.sid = sid, !.keyed = now, !.seen = seen] \in FlowType
    <3>1. seen \in Nat
      BY FlowIn, Zenon
    <3> HIDE DEF seen
    <3> QED
      BY <3>1, FlowIn, FlowKeyed, Zenon
  <2> QED
    BY <1>6, <2>1, <2>2, Zenon DEF Decode, storeVars, TypeOK
<1>7. ASSUME NEW f \in Flows, NEW test \in Tests, NEW cookie \in BOOLEAN,
             Lookup(f, test, cookie)
      PROVE  TypeOK'
  <2>1. Ending(f, flow[f].sid) \in FlowType
    BY EndingType, Zenon DEF TypeOK, FlowType
  <2>2. Live(flow[f].sid, flow[f].seen) => sessions[flow[f].sid].ip \in Addrs
    BY Zenon DEF Live, TypeOK, Session
  <2>3. [flow[f] EXCEPT !.pc = "nilDereference"] \in FlowType
    BY FlowIn, FlowStopped, Zenon
  <2>4. ASSUME NEW ip \in Addrs
        PROVE  [flow[f] EXCEPT !.pc = "served", !.ip = ip, !.keyed = 0] \in FlowType
    BY FlowIn, FlowServed, Zenon
  <2>5. flow' \in [Flows -> FlowType]
    BY <1>7, <2>1, <2>2, <2>3, <2>4, Zenon DEF Lookup, TypeOK
  <2> QED
    BY <1>7, <2>5, Zenon DEF Lookup, storeVars, TypeOK
<1>8. ASSUME NEW f \in Flows, Echo(f)
      PROVE  TypeOK'
  <2>1. flow[f].ip \in Addrs /\ flow[f].seen \in Nat /\ flow[f].sid \in Sids \cup {NoSid}
    BY Zenon DEF TypeOK, FlowType
  <2>2. RateKeyOf[flow[f].ip] \in Addrs
    BY <2>1, Constants, Zenon
  <2>3. AttemptWindow(flow[f].ip, flow[f].seen) \in Seq(Nat)
    <3>1. attemptRate[RateKeyOf[flow[f].ip]] \in Seq(Nat)
      BY <2>2, Zenon DEF TypeOK
    <3>2. flow[f].seen - TenMinutes \in Int
      BY <2>1, Constants
    <3> QED
      BY <3>1, <3>2, PruneType, Zenon DEF AttemptWindow
  <2>4. Append(AttemptWindow(flow[f].ip, flow[f].seen), flow[f].seen) \in Seq(Nat)
    BY <2>1, <2>3, AppendProperties, Zenon
  <2>5. attemptRate' \in [Addrs -> Seq(Nat)]
    BY <1>8, <2>2, <2>3, <2>4, Zenon DEF Echo, allowAttempt, TypeOK
  <2>6. Ending(f, flow[f].sid) \in FlowType
    BY <2>1, EndingType, Zenon
  <2>7. [flow[f] EXCEPT !.pc = "read", !.seen = 0] \in FlowType
    BY FlowIn, FlowStopped, Zenon
  <2>8. flow' \in [Flows -> FlowType]
    BY <1>8, <2>6, <2>7, Zenon DEF Echo, TypeOK
  <2> QED
    BY <1>8, <2>5, <2>8, Zenon DEF Echo, allowAttempt, TypeOK
<1>9. ASSUME NEW f \in Flows, Record(f)
      PROVE  TypeOK'
  <2> DEFINE o == [id |-> freshId, sid |-> flow[f].sid, first |-> flow[f].first]
  <2>1. o \in [id : Nat, sid : Sids \cup {NoSid}, first : Nat]
    BY Zenon DEF TypeOK, FlowType
  <2>2. addObservationAt(o, now)
    BY <1>9, Zenon DEF Record
  <2>3. /\ obs' \in SUBSET Row /\ IsFiniteSet(obs')
        /\ obsCount' \in Int
        /\ drops' \in [noSession : Nat, sessionCap : Nat, globalCap : Nat]
        /\ freshId' \in Nat
    <3> HIDE DEF o
    <3> QED
      BY <2>1, <2>2, AddType, Zenon
  <2> QED
    BY <1>9, <2>3, IdleTypes, Zenon DEF Record, addObservationAt, TypeOK
<1>10. CASE Collect
  <2>1. sessRate' \in [Addrs -> Seq(Nat)] /\ attemptRate' \in [Addrs -> Seq(Nat)]
    BY <1>10, EmptySeq, Zenon DEF Collect, gc, TypeOK
  <2>2. /\ DOMAIN sessions' \in SUBSET Sids
        /\ \A s \in DOMAIN sessions' : sessions'[s] \in Session
        /\ DOMAIN sessions' = DOMAIN sessions \ DeadSessions(now)
    BY <1>10, Zenon DEF Collect, gc, TypeOK
  <2>3. IsFiniteSet(DOMAIN sessions')
    <3>1. IsFiniteSet(DOMAIN sessions)
      BY Zenon DEF TypeOK
    <3>2. IsFiniteSet(DOMAIN sessions \ DeadSessions(now))
      BY <3>1, FS_Difference, Zenon
    <3> QED
      BY <2>2, <3>2, Zenon
  <2>4. bulkUsed' \in [Addrs \cup {Total} -> [day : Nat, bytes : Nat]]
    BY <1>10, Zenon DEF Collect, gc, NoUse, TypeOK
  <2>5. obs' = obs \ DeadRows(now) /\ reservations' = {}
    BY <1>10, Zenon DEF Collect, gc, TypeOK
  <2>6. IsFiniteSet(obs')
    BY <2>5, FS_Difference, Zenon DEF TypeOK
  <2>7. Cardinality(DeadRows(now)) \in Nat
    BY FS_Subset, FS_CardinalityType, Zenon DEF DeadRows, TypeOK
  <2>8. obsCount' \in Int /\ freed' \in Nat /\ gcPc' \in {"wait", "report"}
    BY <1>10, <2>7 DEF Collect, gc, TypeOK
  <2> QED
    BY <1>10, <2>1, <2>2, <2>3, <2>4, <2>5, <2>6, <2>8 DEF Collect, gc, TypeOK
<1>11. CASE Report
  BY <1>11 DEF Report, takeDrops, ZeroDrops, TypeOK
<1>12. CASE Tick
  BY <1>12 DEF Tick, storeVars, TypeOK
<1>13. CASE UNCHANGED vars
  BY <1>13, Zenon DEF vars, storeVars, TypeOK
<1> QED
  BY <1>1, <1>2, <1>3, <1>4, <1>5, <1>6, <1>7, <1>8, <1>9, <1>10, <1>11, <1>12, <1>13 DEF Next

\* The server starts with an empty store.
LEMMA TypeInit == Init => TypeOK
<1> SUFFICES ASSUME Init PROVE TypeOK
  BY Zenon
<1>1. DOMAIN sessions = {} /\ IsFiniteSet({})
  BY FS_EmptySet, Zenon DEF Init, newStore
<1> QED
  BY <1>1, IdleTypes DEF Init, newStore, ZeroDrops, NoUse, TypeOK

\* Type correctness of the session plane: every reachable state is well typed, with
\* finitely many sessions and rows.
THEOREM TypeCorrect == Spec => []TypeOK
<1>1. Init => TypeOK
  BY TypeInit, Zenon
<1>2. TypeOK /\ [Next]_vars => TypeOK'
  BY TypeStep, Zenon
<1> QED
  BY <1>1, <1>2, PTL DEF Spec

----------------------------------------------------------------------------
(* The unchecked nil session. *)

\* Between keyFor and getSession the session stays in the map: keyFor saw it live, the
\* clock value of getSession is no later, no more than MaxStall <= Minute has passed, and
\* the gc frees a session only once Minute has passed since its expiry.
KeyedHeld ==
    /\ DOMAIN sessions \subseteq issued
    /\ \A f \in Flows : flow[f].first <= now
    /\ \A f \in Flows : flow[f].pc = "keyed" =>
            /\ flow[f].sid \in DOMAIN sessions
            /\ flow[f].seen <= flow[f].keyed
            /\ flow[f].keyed <= sessions[flow[f].sid].expires
            /\ now <= flow[f].keyed + MaxStall

NilInv == TypeOK /\ KeyedHeld /\ NoNilSession

\* The fields of an ended activation and of an idle one.
LEMMA EndingFields ==
    ASSUME NEW f, NEW sid
    PROVE  /\ Ending(f, sid).pc = "finish" /\ Ending(f, sid).first = flow[f].first
           /\ Ending(f, sid).sid = sid
           /\ IdleFlow.pc = "idle" /\ IdleFlow.first = 0
  BY Zenon DEF Ending, IdleFlow

\* Every step keeps a keyed flow's session in the map.
LEMMA NilStep == NilInv /\ TypeOK' /\ [Next]_vars => KeyedHeld' /\ NoNilSession'
<1> SUFFICES ASSUME TypeOK, KeyedHeld, NoNilSession, TypeOK', [Next]_vars
             PROVE  KeyedHeld' /\ NoNilSession'
  BY Zenon DEF NilInv
<1>1. ASSUME NEW h \in Openers, NEW ip \in Addrs, Admit(h, ip)
      PROVE  KeyedHeld' /\ NoNilSession'
  BY <1>1, Zenon DEF Admit, allowSession, KeyedHeld, NoNilSession
<1>2. ASSUME NEW h \in Openers, Reject(h)
      PROVE  KeyedHeld' /\ NoNilSession'
  BY <1>2, Zenon DEF Reject, storeVars, KeyedHeld, NoNilSession
<1>3. ASSUME NEW h \in Openers, NEW sid \in Sids, NEW req \in SUBSET Tests, Open(h, sid, req)
      PROVE  KeyedHeld' /\ NoNilSession'
  <2>1. sid \notin DOMAIN sessions
    BY <1>3, Zenon DEF Open, KeyedHeld
  <2>2. /\ DOMAIN sessions' = DOMAIN sessions \cup {sid}
        /\ \A s \in DOMAIN sessions : sessions'[s] = sessions[s]
    BY <1>3, <2>1, Zenon DEF Open, putSession
  <2>3. flow' = flow /\ now' = now /\ issued' = issued \cup {sid}
    BY <1>3, Zenon DEF Open
  <2> QED
    BY <2>2, <2>3, Zenon DEF KeyedHeld, NoNilSession
<1>4. ASSUME NEW f \in Flows, NEW udp \in BOOLEAN, Arrive(f, udp)
      PROVE  KeyedHeld' /\ NoNilSession'
  <2>1. [IdleFlow EXCEPT !.pc = "read", !.udp = udp, !.first = now].pc = "read"
        /\ [IdleFlow EXCEPT !.pc = "read", !.udp = udp, !.first = now].first = now
    BY Zenon DEF IdleFlow
  <2> QED
    BY <1>4, <2>1 DEF Arrive, storeVars, TypeOK, KeyedHeld, NoNilSession
<1>5. ASSUME NEW f \in Flows, NEW sid \in Sids \cup {NoSid}, Unauthenticated(f, sid)
      PROVE  KeyedHeld' /\ NoNilSession'
  <2> DEFINE s == IF flow[f].sid = NoSid THEN sid ELSE flow[f].sid
  <2>1. flow' = [flow EXCEPT ![f] = Ending(f, s)]
    BY <1>5, Zenon DEF Unauthenticated
  <2>2. sessions' = sessions /\ now' = now /\ issued' = issued
    BY <1>5, Zenon DEF Unauthenticated, storeVars
  <2> HIDE DEF s
  <2>3. flow'[f] = Ending(f, s) /\ \A g \in Flows : g # f => flow'[g] = flow[g]
    BY <2>1, Zenon DEF TypeOK
  <2> QED
    BY <2>2, <2>3, EndingFields DEF KeyedHeld, NoNilSession
<1>6. ASSUME NEW f \in Flows, NEW sid \in Sids, NEW mac \in BOOLEAN, Decode(f, sid, mac)
      PROVE  KeyedHeld' /\ NoNilSession'
  <2> DEFINE seen == IF flow[f].udp THEN flow[f].first ELSE now
             g == [flow[f] EXCEPT !.pc = "keyed", !.sid = sid, !.keyed = now, !.seen = seen]
  <2>1. /\ sessions' = sessions /\ issued' = issued /\ now' = now
        /\ \A e \in Flows : e # f => flow'[e] = flow[e]
        /\ flow'[f] = IF Live(sid, now) /\ mac THEN g ELSE Ending(f, sid)
    BY <1>6 DEF Decode, storeVars, TypeOK
  <2>2. CASE Live(sid, now) /\ mac
    <3>1. /\ g.pc = "keyed" /\ g.sid = sid /\ g.keyed = now /\ g.seen = seen
          /\ g.first = flow[f].first
      BY DEF TypeOK, FlowType
    <3>2. seen <= now
      <4>1. flow[f].first <= now /\ now <= now
        BY Numbers DEF KeyedHeld
      <4> QED
        BY <4>1, Zenon
    <3>3. sid \in DOMAIN sessions /\ now <= sessions[sid].expires /\ now <= now + MaxStall
      BY <2>2, Limits, Numbers DEF Live
    <3> HIDE DEF g, seen
    <3> QED
      BY <2>1, <2>2, <3>1, <3>2, <3>3 DEF KeyedHeld, NoNilSession
  <2>3. CASE ~(Live(sid, now) /\ mac)
    BY <2>1, <2>3, EndingFields DEF KeyedHeld, NoNilSession
  <2> QED
    BY <2>2, <2>3, Zenon
<1>7. ASSUME NEW f \in Flows, NEW test \in Tests, NEW cookie \in BOOLEAN,
             Lookup(f, test, cookie)
      PROVE  KeyedHeld' /\ NoNilSession'
  <2>1. Live(flow[f].sid, flow[f].seen)
    <3>1. /\ flow[f].seen \in Nat /\ flow[f].keyed \in Nat
          /\ flow[f].sid \in DOMAIN sessions
          /\ sessions[flow[f].sid].expires \in Nat
      BY <1>7, Zenon DEF Lookup, KeyedHeld, TypeOK, FlowType, Session
    <3> QED
      BY <1>7, <3>1 DEF Lookup, KeyedHeld, Live
  <2>2. /\ sessions' = sessions /\ issued' = issued /\ now' = now
        /\ \A e \in Flows : e # f => flow'[e] = flow[e]
    BY <1>7, Zenon DEF Lookup, storeVars, TypeOK
  <2>3. flow'[f].pc \in {"served", "finish"} /\ flow'[f].first = flow[f].first
    <3> DEFINE g == [flow[f] EXCEPT !.pc = "served", !.ip = sessions[flow[f].sid].ip,
                                    !.keyed = 0]
    <3>1. g.pc = "served" /\ g.first = flow[f].first
      BY DEF TypeOK, FlowType
    <3> QED
      BY <1>7, <2>1, <3>1, EndingFields DEF Lookup, TypeOK
  <2> QED
    BY <2>2, <2>3, Zenon DEF KeyedHeld, NoNilSession
<1>8. ASSUME NEW f \in Flows, Echo(f)
      PROVE  KeyedHeld' /\ NoNilSession'
  <2> DEFINE g == [flow[f] EXCEPT !.pc = "read", !.seen = 0]
  <2>1. g.pc = "read" /\ g.first = flow[f].first
    BY DEF TypeOK, FlowType
  <2>2. flow'[f] = g \/ flow'[f] = Ending(f, flow[f].sid)
    BY <1>8, Zenon DEF Echo, TypeOK
  <2>3. /\ sessions' = sessions /\ issued' = issued /\ now' = now
        /\ \A e \in Flows : e # f => flow'[e] = flow[e]
    BY <1>8, Zenon DEF Echo, allowAttempt, TypeOK
  <2> HIDE DEF g
  <2> QED
    BY <2>1, <2>2, <2>3, EndingFields, SMTT(30) DEF KeyedHeld, NoNilSession
<1>9. ASSUME NEW f \in Flows, Record(f)
      PROVE  KeyedHeld' /\ NoNilSession'
  <2>1. /\ sessions' = sessions /\ issued' = issued /\ now' = now
        /\ \A e \in Flows : e # f => flow'[e] = flow[e]
        /\ flow'[f] = IdleFlow
    BY <1>9, Zenon DEF Record, addObservationAt, TypeOK
  <2>2. 0 <= now
    BY Numbers
  <2> QED
    BY <2>1, <2>2, EndingFields DEF KeyedHeld, NoNilSession
<1>10. CASE Collect
  <2>1. flow' = flow /\ issued' = issued /\ now' = now
    BY <1>10, Zenon DEF Collect
  <2>2. /\ DOMAIN sessions' = DOMAIN sessions \ DeadSessions(now)
        /\ \A s \in DOMAIN sessions' : sessions'[s] = sessions[s]
    BY <1>10, Zenon DEF Collect, gc
  <2>3. ASSUME NEW f \in Flows, flow[f].pc = "keyed"
        PROVE  flow[f].sid \notin DeadSessions(now)
    <3>1. /\ flow[f].keyed \in Nat /\ now \in Nat
          /\ flow[f].sid \in DOMAIN sessions
          /\ sessions[flow[f].sid].expires \in Nat
      BY <2>3, Zenon DEF KeyedHeld, TypeOK, FlowType, Session
    <3> DEFINE e == sessions[flow[f].sid].expires
               k == flow[f].keyed
    <3>2. k <= e /\ now <= k + MaxStall
      BY <2>3, Zenon DEF KeyedHeld
    <3>3. k \in Nat /\ e \in Nat /\ now \in Nat
      BY <3>1, Zenon
    <3>4. flow[f].sid \in DeadSessions(now) => now > e + Minute
      BY Zenon DEF DeadSessions
    <3> HIDE DEF e, k
    <3>5. ~(now > e + Minute)
      BY <3>2, <3>3, Limits
    <3> QED
      BY <3>4, <3>5, Zenon
  <2> QED
    BY <2>1, <2>2, <2>3, Zenon DEF KeyedHeld, NoNilSession
<1>11. CASE Report
  BY <1>11, Zenon DEF Report, takeDrops, KeyedHeld, NoNilSession
<1>12. CASE Tick
  <2>1. /\ sessions' = sessions /\ issued' = issued /\ flow' = flow /\ now' = now + 1
        /\ now \in Nat
        /\ \A f \in Flows : flow[f].pc = "keyed" => now < flow[f].keyed + MaxStall
    BY <1>12, Zenon DEF Tick, storeVars, TypeOK
  <2>2. \A f \in Flows : flow[f].first \in Nat /\ flow[f].keyed \in Nat
    BY Zenon DEF TypeOK, FlowType
  <2> QED
    BY <2>1, <2>2, Constants DEF KeyedHeld, NoNilSession
<1>13. CASE UNCHANGED vars
  BY <1>13, Zenon DEF vars, storeVars, KeyedHeld, NoNilSession
<1> QED
  BY <1>1, <1>2, <1>3, <1>4, <1>5, <1>6, <1>7, <1>8, <1>9, <1>10, <1>11, <1>12, <1>13 DEF Next

\* Nothing is keyed at the start.
LEMMA NilInit == Init => NilInv
<1> SUFFICES ASSUME Init PROVE NilInv
  BY Zenon
<1>1. now = 0 /\ DOMAIN sessions = {}
  BY Zenon DEF Init, newStore
<1>2. \A f \in Flows : flow[f].pc = "idle" /\ flow[f].first = 0
  <2>1. \A f \in Flows : flow[f] = IdleFlow
    BY Zenon DEF Init
  <2> QED
    BY <2>1 DEF IdleFlow
<1> QED
  BY <1>1, <1>2, TypeInit DEF NilInv, KeyedHeld, NoNilSession

\* No flow ever dereferences a nil session: getSession after a successful keyFor finds the
\* session, for any number of flows, sessions and openers and any clock, provided the gap
\* between the two calls is at most the gc's extra minute.
THEOREM NoNilSessionHolds == Spec => []NoNilSession
<1>1. Init => NilInv
  BY NilInit, Zenon
<1>2. NilInv /\ [Next]_vars => NilInv'
  BY TypeStep, NilStep, Zenon DEF NilInv
<1>3. NilInv => NoNilSession
  BY Zenon DEF NilInv
<1> QED
  BY <1>1, <1>2, <1>3, PTL DEF Spec

----------------------------------------------------------------------------
(* The bookkeeping of observations. *)

\* The counters of the store, with the freshness of row ids they rest on.
Books == RowsCounted /\ RowsOwned /\ RowsAccounted /\ \A o \in obs : o.id < freshId

BooksInv == NilInv /\ Books

\* The rows of one session are a finite part of the rows.
LEMMA RowsOfFinite ==
    ASSUME TypeOK, NEW s
    PROVE  IsFiniteSet(RowsOf(s)) /\ Cardinality(RowsOf(s)) \in Nat
<1>1. RowsOf(s) \in SUBSET obs /\ IsFiniteSet(obs)
  BY Zenon DEF RowsOf, TypeOK
<1>2. IsFiniteSet(RowsOf(s))
  BY <1>1, FS_Subset, Zenon
<1> QED
  BY <1>2, FS_CardinalityType, Zenon

\* Steps that leave the rows, the counters and the sessions' domain alone.
LEMMA BooksFrame ==
    ASSUME Books, TypeOK, TypeOK', obs' = obs, obsCount' = obsCount, drops' = drops,
           freshId' = freshId, reported' = reported, freed' = freed,
           DOMAIN sessions \subseteq DOMAIN sessions', now <= now'
    PROVE  Books'
<1>1. RowsCounted'
  BY Zenon DEF Books, RowsCounted, RowsOf
<1>2. RowsOwned'
  <2>1. now' \in Nat
    BY Zenon DEF TypeOK
  <2> QED
    BY <2>1, Numbers DEF Books, RowsOwned
<1>3. RowsAccounted' /\ \A o \in obs' : o.id < freshId'
  BY Zenon DEF Books, RowsAccounted
<1> QED
  BY <1>1, <1>2, <1>3, Zenon DEF Books

\* A row that is handed in is counted among the kept or among the refused ones.
LEMMA BooksAdd ==
    ASSUME Books, TypeOK, NEW o \in [id : Nat, sid : Sids \cup {NoSid}, first : Nat],
           o.id = freshId, o.first <= now,
           addObservationAt(o, now), sessions' = sessions, now' = now,
           reported' = reported, freed' = freed
    PROVE  Books'
<1>1. freshId' = freshId + 1 /\ freshId \in Nat
  BY Zenon DEF addObservationAt, TypeOK
<1>2. CASE Verdict(o, now) = "kept"
  <2>1. obs' = obs \cup {o} /\ obsCount' = obsCount + 1 /\ drops' = drops
    BY <1>2, Zenon DEF addObservationAt
  <2>2. /\ o.sid \in DOMAIN sessions
        /\ Cardinality(RowsOf(o.sid)) < MaxSessionObservations
        /\ obsCount < ObsMax
    <3>1. ~(Cardinality(RowsOf(o.sid)) >= MaxSessionObservations) /\ ~(obsCount >= ObsMax)
      BY <1>2, Zenon DEF Verdict
    <3>2. Live(o.sid, now)
      BY <1>2, Zenon DEF Verdict
    <3>3. o.sid \in DOMAIN sessions
      BY <3>2, Zenon DEF Live
    <3>4. obsCount < ObsMax
      <4>1. obsCount \in Int
        BY Zenon DEF TypeOK
      <4> QED
        BY <3>1, <4>1, Limits
    <3>5. Cardinality(RowsOf(o.sid)) < MaxSessionObservations
      BY <3>1, RowsOfFinite, Limits
    <3> QED
      BY <3>3, <3>4, <3>5, Zenon
  <2>3. o \notin obs
    <3>1. \A x \in obs : x.id < freshId /\ x.id \in Nat
      BY Zenon DEF Books, TypeOK, Row
    <3> QED
      BY <1>1, <3>1
  <2>4. Cardinality(obs \cup {o}) = Cardinality(obs) + 1
    BY <2>3, FS_AddElement, Zenon DEF TypeOK
  <2>5. ASSUME NEW s \in Sids
        PROVE  Cardinality(RowsOf(s)') <= MaxSessionObservations
    <3>1. CASE s = o.sid
      <4>1. RowsOf(s)' = RowsOf(s) \cup {o} /\ o \notin RowsOf(s)
        BY <2>1, <2>3, <3>1, Zenon DEF RowsOf
      <4>2. Cardinality(RowsOf(s) \cup {o}) = Cardinality(RowsOf(s)) + 1
        BY <4>1, RowsOfFinite, FS_AddElement, Zenon
      <4> QED
        BY <2>2, <3>1, <4>1, <4>2, RowsOfFinite, Limits
    <3>2. CASE s # o.sid
      <4>1. RowsOf(s)' = RowsOf(s)
        BY <2>1, <3>2, Zenon DEF RowsOf
      <4> QED
        BY <4>1, Zenon DEF Books, RowsCounted
    <3> QED
      BY <3>1, <3>2, Zenon
  <2>6. RowsCounted'
    <3>1. obsCount' = Cardinality(obs')
      BY <2>1, <2>4, Zenon DEF Books, RowsCounted
    <3>2. obsCount' <= ObsMax
      <4>1. obsCount \in Int
        BY Zenon DEF TypeOK
      <4> QED
        BY <2>1, <2>2, <4>1, Limits
    <3> QED
      BY <2>5, <3>1, <3>2, Zenon DEF RowsCounted
  <2>7. RowsOwned'
    BY <2>1, <2>2, Zenon DEF Books, RowsOwned
  <2>8. RowsAccounted'
    BY <1>1, <2>1, Numbers DEF Books, RowsAccounted
  <2>9. \A x \in obs' : x.id < freshId'
    BY <1>1, <2>1, Numbers DEF Books
  <2> QED
    BY <2>6, <2>7, <2>8, <2>9 DEF Books
<1>3. CASE Verdict(o, now) # "kept"
  <2>1. obs' = obs /\ obsCount' = obsCount /\ drops' = [drops EXCEPT ![Verdict(o, now)] = @ + 1]
    BY <1>3, Zenon DEF addObservationAt
  <2>2. Verdict(o, now) \in {"noSession", "sessionCap", "globalCap"}
    BY <1>3, Zenon DEF Verdict
  <2>3. drops \in [noSession : Nat, sessionCap : Nat, globalCap : Nat]
    BY Zenon DEF TypeOK
  <2>4. drops'.noSession + drops'.sessionCap + drops'.globalCap
            = drops.noSession + drops.sessionCap + drops.globalCap + 1
    <3>1. CASE Verdict(o, now) = "noSession"
      BY <2>1, <2>3, <3>1
    <3>2. CASE Verdict(o, now) = "sessionCap"
      BY <2>1, <2>3, <3>2
    <3>3. CASE Verdict(o, now) = "globalCap"
      BY <2>1, <2>3, <3>3
    <3> QED
      BY <2>2, <3>1, <3>2, <3>3, Zenon
  <2>5. /\ drops.noSession \in Nat /\ drops.sessionCap \in Nat /\ drops.globalCap \in Nat
        /\ drops'.noSession \in Nat /\ drops'.sessionCap \in Nat /\ drops'.globalCap \in Nat
    <3>1. drops' \in [noSession : Nat, sessionCap : Nat, globalCap : Nat]
      BY AddType, Zenon
    <3> QED
      BY <2>3, <3>1, Zenon
  <2>6. RowsAccounted'
    <3>1. obsCount' = obsCount /\ obsCount \in Int /\ freed \in Nat /\ reported \in Nat
      BY <2>1, Zenon DEF TypeOK
    <3>2. freshId = obsCount + freed + reported
                      + drops.noSession + drops.sessionCap + drops.globalCap
      BY Zenon DEF Books, RowsAccounted
    <3> QED
      BY <1>1, <2>4, <2>5, <3>1, <3>2 DEF RowsAccounted
  <2>7. RowsCounted'
    BY <2>1, Zenon DEF Books, RowsCounted, RowsOf
  <2>8. RowsOwned' /\ \A x \in obs' : x.id < freshId'
    BY <1>1, <2>1, Numbers DEF Books, RowsOwned
  <2> QED
    BY <2>6, <2>7, <2>8, Zenon DEF Books
<1> QED
  BY <1>2, <1>3, Zenon

\* The gc takes from the counter exactly the rows it takes from the sessions.
LEMMA BooksCollect ==
    ASSUME Books, TypeOK, Collect
    PROVE  Books'
<1> DEFINE D == DeadRows(now)
<1>1. /\ obs' = obs \ D /\ obsCount' = obsCount - Cardinality(D)
      /\ freed' = freed + Cardinality(D)
      /\ drops' = drops /\ freshId' = freshId /\ reported' = reported /\ now' = now
      /\ DOMAIN sessions' = DOMAIN sessions \ DeadSessions(now)
  BY Zenon DEF Collect, gc
<1>2. D \subseteq obs
  BY Zenon DEF DeadRows
<1> HIDE DEF D
<1>3. IsFiniteSet(obs)
  BY Zenon DEF TypeOK
<1>4. IsFiniteSet(D) /\ Cardinality(D) \in Nat /\ Cardinality(obs) \in Nat
  <2>1. IsFiniteSet(D)
    BY <1>2, <1>3, FS_Subset, Zenon
  <2> QED
    BY <1>3, <2>1, FS_CardinalityType, Zenon
<1>5. Cardinality(obs \ D) = Cardinality(obs) - Cardinality(D)
  <2>1. obs \cap D = D
    BY <1>2, Zenon
  <2> QED
    BY <1>3, <2>1, FS_Difference
<1>6. RowsCounted'
  <2>1. obsCount' = Cardinality(obs')
    BY <1>1, <1>5, Zenon DEF Books, RowsCounted
  <2>2. obsCount' <= ObsMax
    BY <1>1, <1>4, Numbers, Limits DEF Books, RowsCounted
  <2>3. ASSUME NEW s \in Sids
        PROVE  Cardinality(RowsOf(s)') <= MaxSessionObservations
    <3>1. RowsOf(s)' \in SUBSET RowsOf(s)
      BY <1>1, Zenon DEF RowsOf
    <3>2. IsFiniteSet(RowsOf(s)') /\ Cardinality(RowsOf(s)') <= Cardinality(RowsOf(s))
      BY <3>1, RowsOfFinite, FS_Subset, Zenon
    <3>3. Cardinality(RowsOf(s)') \in Nat
      BY <3>2, FS_CardinalityType, Zenon
    <3>4. Cardinality(RowsOf(s)) <= MaxSessionObservations
      BY Zenon DEF Books, RowsCounted
    <3> QED
      BY <3>2, <3>3, <3>4, RowsOfFinite, Limits
  <2> QED
    BY <2>1, <2>2, <2>3, Zenon DEF RowsCounted
<1>7. RowsOwned'
  BY <1>1, Zenon DEF Books, RowsOwned, D, DeadRows
<1>8. RowsAccounted' /\ \A o \in obs' : o.id < freshId'
  <2>1. RowsAccounted'
    BY <1>1, <1>4, Numbers DEF Books, RowsAccounted
  <2> QED
    BY <1>1, <2>1, Zenon DEF Books
<1> QED
  BY <1>6, <1>7, <1>8, Zenon DEF Books

\* Every step keeps the books.
LEMMA BooksStep == BooksInv /\ TypeOK' /\ [Next]_vars => Books'
<1> SUFFICES ASSUME TypeOK, KeyedHeld, Books, TypeOK', [Next]_vars
             PROVE  Books'
  BY Zenon DEF BooksInv, NilInv
<1>0. now <= now
  BY Numbers
<1>1. ASSUME NEW h \in Openers, NEW ip \in Addrs, Admit(h, ip)
      PROVE  Books'
  BY <1>0, <1>1, BooksFrame, Zenon DEF Admit, allowSession
<1>2. ASSUME NEW h \in Openers, Reject(h)
      PROVE  Books'
  BY <1>0, <1>2, BooksFrame, Zenon DEF Reject, storeVars
<1>3. ASSUME NEW h \in Openers, NEW sid \in Sids, NEW req \in SUBSET Tests, Open(h, sid, req)
      PROVE  Books'
  <2>1. DOMAIN sessions \subseteq DOMAIN sessions'
    BY <1>3, Zenon DEF Open, putSession
  <2> QED
    BY <1>0, <1>3, <2>1, BooksFrame, Zenon DEF Open, putSession
<1>4. ASSUME NEW f \in Flows, NEW udp \in BOOLEAN, Arrive(f, udp)
      PROVE  Books'
  BY <1>0, <1>4, BooksFrame, Zenon DEF Arrive, storeVars
<1>5. ASSUME NEW f \in Flows, NEW sid \in Sids \cup {NoSid}, Unauthenticated(f, sid)
      PROVE  Books'
  BY <1>0, <1>5, BooksFrame, Zenon DEF Unauthenticated, storeVars
<1>6. ASSUME NEW f \in Flows, NEW sid \in Sids, NEW mac \in BOOLEAN, Decode(f, sid, mac)
      PROVE  Books'
  BY <1>0, <1>6, BooksFrame, Zenon DEF Decode, storeVars
<1>7. ASSUME NEW f \in Flows, NEW test \in Tests, NEW cookie \in BOOLEAN,
             Lookup(f, test, cookie)
      PROVE  Books'
  BY <1>0, <1>7, BooksFrame, Zenon DEF Lookup, storeVars
<1>8. ASSUME NEW f \in Flows, Echo(f)
      PROVE  Books'
  BY <1>0, <1>8, BooksFrame, Zenon DEF Echo, allowAttempt
<1>9. ASSUME NEW f \in Flows, Record(f)
      PROVE  Books'
  <2> DEFINE o == [id |-> freshId, sid |-> flow[f].sid, first |-> flow[f].first]
  <2>1. o \in [id : Nat, sid : Sids \cup {NoSid}, first : Nat]
    BY Zenon DEF TypeOK, FlowType
  <2>2. o.id = freshId /\ o.first <= now
    BY Zenon DEF KeyedHeld
  <2>3. /\ addObservationAt(o, now)
        /\ now' = now /\ reported' = reported /\ freed' = freed
    BY <1>9, Zenon DEF Record
  <2>4. sessions' = sessions
    BY <2>3, Zenon DEF addObservationAt
  <2> HIDE DEF o
  <2> QED
    BY <2>1, <2>2, <2>3, <2>4, BooksAdd, Zenon
<1>10. CASE Collect
  BY <1>10, BooksCollect, Zenon
<1>11. CASE Report
  <2>1. /\ drops' = ZeroDrops
        /\ reported' = reported + drops.noSession + drops.sessionCap + drops.globalCap
        /\ obs' = obs /\ obsCount' = obsCount /\ freshId' = freshId /\ freed' = freed
        /\ sessions' = sessions /\ now' = now
    BY <1>11, Zenon DEF Report, takeDrops
  <2>2. RowsAccounted'
    BY <2>1, Numbers DEF Books, RowsAccounted, ZeroDrops
  <2> QED
    BY <2>1, <2>2, Zenon DEF Books, RowsCounted, RowsOwned, RowsOf
<1>12. CASE Tick
  <2>1. now <= now'
    BY <1>12, Numbers DEF Tick
  <2> QED
    BY <1>12, <2>1, BooksFrame, Zenon DEF Tick, storeVars
<1>13. CASE UNCHANGED vars
  BY <1>0, <1>13, BooksFrame, Zenon DEF vars, storeVars
<1> QED
  BY <1>1, <1>2, <1>3, <1>4, <1>5, <1>6, <1>7, <1>8, <1>9, <1>10, <1>11, <1>12, <1>13, Zenon DEF Next

\* The empty store is balanced.
LEMMA BooksInit == Init => BooksInv
<1> SUFFICES ASSUME Init PROVE BooksInv
  BY Zenon
<1>2. NilInv
  BY NilInit, Zenon
<1>3. Cardinality({}) = 0
  BY FS_EmptySet, Zenon
<1>4. obs = {} /\ \A s \in Sids : RowsOf(s) = {}
  BY Zenon DEF Init, newStore, RowsOf
<1>5. RowsCounted
  <2>1. obsCount = 0 /\ Cardinality(obs) = 0 /\ \A s \in Sids : Cardinality(RowsOf(s)) = 0
    BY <1>3, <1>4, Zenon DEF Init, newStore
  <2> QED
    BY <2>1, Constants DEF RowsCounted
<1>6. RowsOwned /\ RowsAccounted /\ \A o \in obs : o.id < freshId
  <2>1. RowsOwned /\ \A o \in obs : o.id < freshId
    BY <1>4, Zenon DEF RowsOwned
  <2>2. drops = ZeroDrops /\ freshId = 0 /\ obsCount = 0 /\ freed = 0 /\ reported = 0
    BY Zenon DEF Init, newStore
  <2>3. RowsAccounted
    BY <2>2 DEF ZeroDrops, RowsAccounted
  <2> QED
    BY <2>1, <2>3, Zenon
<1> QED
  BY <1>2, <1>5, <1>6, Zenon DEF BooksInv, Books

\* All counters and ownership facts at once.
LEMMA BooksHold == Spec => []BooksInv
<1>1. Init => BooksInv
  BY BooksInit, Zenon
<1>2. BooksInv /\ [Next]_vars => BooksInv'
  BY TypeStep, NilStep, BooksStep, Zenon DEF BooksInv, NilInv
<1> QED
  BY <1>1, <1>2, PTL DEF Spec

\* store.obsCount always equals the number of rows held, never above the global ceiling,
\* and no session holds more than its own.
THEOREM RowsCountedHolds == Spec => []RowsCounted
<1>1. BooksInv => RowsCounted
  BY Zenon DEF BooksInv, Books
<1> QED
  BY <1>1, BooksHold, PTL

\* Every row held belongs to a session in the map: what is freed with the sessions is
\* everything.
THEOREM RowsOwnedHolds == Spec => []RowsOwned
<1>1. BooksInv => RowsOwned
  BY Zenon DEF BooksInv, Books
<1> QED
  BY <1>1, BooksHold, PTL

\* No row is lost between the counters: handed in = held + freed + refused.
THEOREM RowsAccountedHolds == Spec => []RowsAccounted
<1>1. BooksInv => RowsAccounted
  BY Zenon DEF BooksInv, Books
<1> QED
  BY <1>1, BooksHold, PTL

\* A step takes a row away only after its session expired a minute ago or past retention.
THEOREM NeverEvictedHolds == Spec => NeverEvicted
<1> DEFINE A == \A o \in obs \ obs' : \/ now > sessions[o.sid].expires + Minute
                                      \/ now - o.first >= Retention
<1>1. [Next]_vars => [A]_vars
  <2> SUFFICES ASSUME Next PROVE A
    BY Zenon
  <2>1. CASE Collect
    BY <2>1, Zenon DEF Collect, gc, DeadRows, DeadSessions
  <2>2. CASE ~Collect
    BY <2>2 DEF Next, Admit, allowSession, Reject, Open, putSession, Arrive, Unauthenticated,
                Decode, Lookup, Echo, allowAttempt, Record, addObservationAt, Report,
                takeDrops, Tick, storeVars
  <2> QED
    BY <2>1, <2>2, Zenon
<1> QED
  BY <1>1, PTL DEF Spec, NeverEvicted

----------------------------------------------------------------------------
(* The live-session cap. *)

Admitted == {h \in Openers : opener[h].pc = "admitted"}

\* Sessions in the map plus sessions on their way into it: an opener was admitted below
\* the cap, and each opener carries at most one session.
CapInv == Cardinality(DOMAIN sessions) + Cardinality(Admitted)
            < MaxLiveSessions + Cardinality(Openers)

\* The openers past admission are finitely many, at most all of them.
LEMMA AdmittedFinite ==
    /\ IsFiniteSet(Admitted) /\ Cardinality(Admitted) \in Nat
    /\ Cardinality(Openers) \in Nat /\ Cardinality(Admitted) <= Cardinality(Openers)
<1>1. IsFiniteSet(Openers) /\ Admitted \in SUBSET Openers
  BY SessionsConstants, Zenon DEF Admitted
<1>2. IsFiniteSet(Admitted) /\ Cardinality(Admitted) <= Cardinality(Openers)
  BY <1>1, FS_Subset, Zenon
<1> QED
  BY <1>1, <1>2, FS_CardinalityType, Zenon

\* The sessions in the map can be counted.
LEMMA SessionsFinite == TypeOK => Cardinality(DOMAIN sessions) \in Nat
  BY FS_CardinalityType, Zenon DEF TypeOK

\* An opener back at rest is no longer among the admitted ones.
LEMMA OpenerLeaves ==
    ASSUME TypeOK, NEW h \in Openers, opener[h].pc = "admitted",
           opener' = [opener EXCEPT ![h] = IdleOpener]
    PROVE  Cardinality(Admitted') = Cardinality(Admitted) - 1
<1>1. IdleOpener.pc = "idle"
  BY Zenon DEF IdleOpener
<1>2. Admitted' = Admitted \ {h} /\ h \in Admitted
  BY <1>1, Zenon DEF Admitted, TypeOK
<1> QED
  BY <1>2, AdmittedFinite, FS_RemoveElement, Zenon

\* The sum after a step, from what became of its two parts.
LEMMA CapArith ==
    ASSUME TypeOK, CapInv, Cardinality(DOMAIN sessions') \in Nat,
           \/ /\ Cardinality(DOMAIN sessions') <= Cardinality(DOMAIN sessions)
              /\ \/ Cardinality(Admitted') = Cardinality(Admitted)
                 \/ Cardinality(Admitted') = Cardinality(Admitted) - 1
           \/ /\ Cardinality(DOMAIN sessions') = Cardinality(DOMAIN sessions) + 1
              /\ Cardinality(Admitted') = Cardinality(Admitted) - 1
           \/ /\ Cardinality(DOMAIN sessions') < MaxLiveSessions
              /\ Cardinality(Admitted') \in Nat
              /\ Cardinality(Admitted') <= Cardinality(Openers)
    PROVE  CapInv'
<1> DEFINE s == Cardinality(DOMAIN sessions)
           t == Cardinality(DOMAIN sessions')
           a == Cardinality(Admitted)
           b == Cardinality(Admitted')
           m == MaxLiveSessions
           n == Cardinality(Openers)
<1>1. s \in Nat /\ t \in Nat /\ a \in Nat /\ m \in Nat /\ n \in Nat
  BY SessionsFinite, AdmittedFinite, Limits, Zenon
<1>2. s + a < m + n
  BY Zenon DEF CapInv
<1>3. \/ t <= s /\ (b = a \/ b = a - 1)
      \/ t = s + 1 /\ b = a - 1
      \/ t < m /\ b \in Nat /\ b <= n
  BY Zenon
<1>4. CapInv' <=> t + b < m + n
  BY Zenon DEF CapInv
<1> HIDE DEF s, t, a, b, m, n
<1>5. t + b < m + n
  BY <1>1, <1>2, <1>3
<1> QED
  BY <1>4, <1>5, Zenon

\* Every step keeps the sum below the cap plus the number of openers.
LEMMA CapStep == TypeOK /\ KeyedHeld /\ CapInv /\ TypeOK' /\ [Next]_vars => CapInv'
<1> SUFFICES ASSUME TypeOK, KeyedHeld, CapInv, TypeOK', [Next]_vars
             PROVE  CapInv'
  BY Zenon
<1>1. ASSUME NEW h \in Openers, NEW ip \in Addrs, Admit(h, ip)
      PROVE  CapInv'
  <2>1. sessions' = sessions
    BY <1>1, Zenon DEF Admit, allowSession
  <2>2. CASE SessionAllowed(ip, now)
    <3>1. Cardinality(DOMAIN sessions) < MaxLiveSessions
      BY <2>2, SessionsFinite, Limits DEF SessionAllowed, SessionCapReached
    <3>2. Cardinality(Admitted') \in Nat /\ Cardinality(Admitted') <= Cardinality(Openers)
      <4>1. Admitted' \in SUBSET Openers
        BY Zenon DEF Admitted
      <4>2. IsFiniteSet(Openers)
        BY SessionsConstants, Zenon
      <4>3. IsFiniteSet(Admitted') /\ Cardinality(Admitted') <= Cardinality(Openers)
        BY <4>1, <4>2, FS_Subset, Zenon
      <4> QED
        BY <4>3, FS_CardinalityType, Zenon
    <3>3. Cardinality(DOMAIN sessions') \in Nat /\ Cardinality(DOMAIN sessions') < MaxLiveSessions
      BY <2>1, <3>1, SessionsFinite, Zenon
    <3> QED
      BY <3>2, <3>3, CapArith, Zenon
  <2>3. CASE ~SessionAllowed(ip, now)
    <3>1. opener' = opener
      BY <1>1, <2>3, Zenon DEF Admit
    <3> QED
      BY <2>1, <3>1, Zenon DEF CapInv, Admitted
  <2> QED
    BY <2>2, <2>3, Zenon
<1>2. ASSUME NEW h \in Openers, Reject(h)
      PROVE  CapInv'
  <2>1. Cardinality(Admitted') = Cardinality(Admitted) - 1 /\ sessions' = sessions
    BY <1>2, OpenerLeaves, Zenon DEF Reject, storeVars
  <2> QED
    <3>1. /\ Cardinality(DOMAIN sessions') = Cardinality(DOMAIN sessions)
          /\ Cardinality(DOMAIN sessions') \in Nat
      BY <2>1, SessionsFinite, Zenon
    <3>2. Cardinality(DOMAIN sessions') <= Cardinality(DOMAIN sessions)
      BY <3>1
    <3> QED
      BY <2>1, <3>1, <3>2, CapArith, Zenon
<1>3. ASSUME NEW h \in Openers, NEW sid \in Sids, NEW req \in SUBSET Tests, Open(h, sid, req)
      PROVE  CapInv'
  <2>1. Cardinality(Admitted') = Cardinality(Admitted) - 1
    BY <1>3, OpenerLeaves, Zenon DEF Open
  <2>2. DOMAIN sessions' = DOMAIN sessions \cup {sid} /\ sid \notin DOMAIN sessions
    BY <1>3, Zenon DEF Open, putSession, KeyedHeld
  <2>3. Cardinality(DOMAIN sessions \cup {sid}) = Cardinality(DOMAIN sessions) + 1
    BY <2>2, FS_AddElement, Zenon DEF TypeOK
  <2> QED
    <3>1. /\ Cardinality(DOMAIN sessions') = Cardinality(DOMAIN sessions) + 1
          /\ Cardinality(DOMAIN sessions') \in Nat
      BY <2>2, <2>3, SessionsFinite
    <3> QED
      BY <2>1, <3>1, CapArith, Zenon
<1>4. CASE Collect
  <2>1. DOMAIN sessions' \in SUBSET DOMAIN sessions /\ opener' = opener
    BY <1>4, Zenon DEF Collect, gc
  <2>2. Cardinality(DOMAIN sessions') <= Cardinality(DOMAIN sessions)
    BY <2>1, FS_Subset, Zenon DEF TypeOK
  <2>3. Cardinality(DOMAIN sessions') \in Nat
    BY FS_CardinalityType, Zenon DEF TypeOK
  <2> QED
    <3>1. Admitted' = Admitted
      BY <2>1, Zenon DEF Admitted
    <3> QED
      BY <2>2, <2>3, <3>1, CapArith, Zenon
<1>5. CASE UNCHANGED <<sessions, opener>>
  BY <1>5, Zenon DEF CapInv, Admitted
<1> QED
  BY <1>1, <1>2, <1>3, <1>4, <1>5
     DEF Next, Arrive, Unauthenticated, Decode, Lookup, Echo, allowAttempt, Record,
         addObservationAt, Report, takeDrops, Tick, storeVars, vars

\* However many session requests race between allowSession and putSession, the sessions
\* held stay below the cap plus the number of concurrent requests.
THEOREM SessionOvershootHolds == Spec => []SessionOvershootBounded
<1> DEFINE I == NilInv /\ CapInv
<1>1. Init => I
  <2> SUFFICES ASSUME Init PROVE I
    BY Zenon
  <2>1. NilInv
    BY BooksInit, Zenon DEF BooksInv
  <2>2. DOMAIN sessions = {} /\ Admitted = {}
    BY Zenon DEF Init, newStore, Admitted, IdleOpener
  <2>3. Cardinality({}) = 0 /\ Cardinality(Openers) # 0
    BY SessionsConstants, FS_EmptySet, Zenon
  <2> QED
    BY <2>1, <2>2, <2>3, AdmittedFinite, Constants DEF CapInv
<1>2. I /\ [Next]_vars => I'
  BY TypeStep, NilStep, CapStep, Zenon DEF NilInv
<1>3. I => SessionOvershootBounded
  BY SessionsFinite, AdmittedFinite, Constants DEF NilInv, CapInv, SessionOvershootBounded
<1> QED
  BY <1>1, <1>2, <1>3, PTL DEF Spec
=============================================================================
