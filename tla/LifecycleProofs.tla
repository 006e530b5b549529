--------------------------- MODULE LifecycleProofs --------------------------
(***************************************************************************)
(* Theorems about Lifecycle, for any configurations, any sockets held by    *)
(* other programs, any finite set of flows and any limit per address.      *)
(***************************************************************************)
EXTENDS Lifecycle, FiniteSetTheorems, SequenceTheorems, TLAPS

----------------------------------------------------------------------------
(* The inductive invariant. *)

Stages == {"starting", "recording", "up", "cancelled", "closing", "closed", "failed"}
SocketStates == {"none", "open", "shut", "closed"}
LoopStates == {"none", "spawned", "running", "sleeping", "done"}
FlowPhases == {"none", "backlog", "handled", "cut"}

\* What Start has to bind: a role and a key of Server.listeners.
ListenerRoles == {"control", "tcp", "dns", "dot", "udp"}
Entries == [role : ListenerRoles, at : {"tcp", "udp"} \X Int]

\* Every listener Start has yet to bind has its key, and a UDP one its QUIC key.
Keyed(s, N) ==
    \A i \in DOMAIN s : s[i].at \in N /\ (s[i].role = "udp" => quicOf(s[i].at) \in N)

\* x is an item of the sequence s.
In(x, s) == \E i \in 1..Len(s) : s[i] = x

LifeTypes ==
    /\ pc \in Stages
    /\ ctxDone \in BOOLEAN
    /\ gc \in DOMAIN loop /\ control \in DOMAIN loop
    /\ loop \in [DOMAIN loop -> LoopStates]
    /\ socket \in [DOMAIN loop -> SocketStates]
    /\ listeners \in [DOMAIN loop -> {"none", "ok", "error"}]
    /\ todo \in Seq(Entries) /\ Keyed(todo, DOMAIN loop)
    /\ (pc = "recording" => todo # <<>> /\ Head(todo).role = "udp")
    /\ closers \in Seq(DOMAIN loop) /\ taken \in Seq(DOMAIN loop)
    /\ flow \in [Flows -> [at : DOMAIN loop, ph : FlowPhases]]
    /\ conns \in [IPs -> Nat]

\* The context is cancelled exactly from Close on.
Cancelled == ctxDone <=> pc \notin {"starting", "recording", "up"}

\* An open socket has its closer, registered until Close takes them all.
Covered ==
    /\ \A n \in DOMAIN loop : socket[n] = "open" => In(n, closers) \/ In(n, taken)
    /\ pc \in {"closing", "closed", "failed"} => closers = <<>>
    /\ pc \in {"starting", "recording", "up", "cancelled"} => taken = <<>>

\* Only a socket whose Serve has not begun is shut without being closed, and only by Close.
ShutAwaits ==
    \A n \in DOMAIN loop :
        /\ socket[n] = "shut" => loop[n] = "spawned" /\ ctxDone
        /\ loop[n] = "spawned" => n = control

\* Until the server is closing, a listener recorded as ok is bound and served,
\* but for the UDP socket whose QUIC endpoint is being recorded.
Served ==
    ~ctxDone => \A n \in DOMAIN loop :
        listeners[n] = "ok" /\ n[1] # "quic" =>
            /\ socket[n] = "open"
            /\ loop[n] \in {"spawned", "running", "sleeping"} \/ (pc = "recording" /\ n = Head(todo).at)

LifeInv == LifeTypes /\ Cancelled /\ Covered /\ ShutAwaits /\ Served /\ FailsClosed

----------------------------------------------------------------------------
(* Sequences and plans. *)

\* Membership of pairs, for components the provers treat differently.
LEMMA PairIn ==
    ASSUME NEW A, NEW B, NEW x \in A, NEW y \in B
    PROVE  <<x, y>> \in A \X B /\ <<x, y>>[1] = x /\ <<x, y>>[2] = y
OBVIOUS

\* What the constants are.
LEMMA ConfigTypes ==
    ASSUME NEW c \in Configs
    PROVE  /\ c.control \in Int /\ c.dot \in Int /\ c.quic \in BOOLEAN
           /\ c.tcp \in Seq(Int) /\ c.dns \in Seq(Int) /\ c.udp \in Seq(Int)
BY LifecycleConstants

\* Where the items of a sequence are when it grows at its end or loses its first.
LEMMA ItemsMove ==
    ASSUME NEW S, NEW s \in Seq(S), NEW t \in Seq(S), NEW x \in S
    PROVE  /\ In(x, Append(s, x))
           /\ \A y \in S : In(y, s) => In(y, Append(s, x)) /\ In(y, s \o t)
           /\ \A y \in S : In(y, t) => In(y, s \o t)
           /\ s # <<>> => Tail(s) \in Seq(S) /\ Head(s) \in S
           /\ s # <<>> => \A y \in S : In(y, s) => y = Head(s) \/ In(y, Tail(s))
           /\ ~In(x, <<>>)
<1>1. In(x, Append(s, x))
  <2>1. Len(s) + 1 \in 1..Len(Append(s, x)) /\ Append(s, x)[Len(s) + 1] = x
    OBVIOUS
  <2> QED BY <2>1 DEF In
<1>2. \A y \in S : In(y, s) => In(y, Append(s, x)) /\ In(y, s \o t)
  <2> SUFFICES ASSUME NEW y \in S, NEW i \in 1..Len(s), s[i] = y
               PROVE  In(y, Append(s, x)) /\ In(y, s \o t)
    BY Zenon DEF In
  <2>1. i \in 1..Len(Append(s, x)) /\ Append(s, x)[i] = y
    OBVIOUS
  <2>2. i \in 1..Len(s \o t) /\ (s \o t)[i] = y
    OBVIOUS
  <2> QED BY <2>1, <2>2 DEF In
<1>3. \A y \in S : In(y, t) => In(y, s \o t)
  <2> SUFFICES ASSUME NEW y \in S, NEW i \in 1..Len(t), t[i] = y
               PROVE  In(y, s \o t)
    BY Zenon DEF In
  <2>1. Len(s) + i \in 1..Len(s \o t) /\ (s \o t)[Len(s) + i] = y
    OBVIOUS
  <2> QED BY <2>1 DEF In
<1>4. s # <<>> => Tail(s) \in Seq(S) /\ Head(s) \in S
  OBVIOUS
<1>5. s # <<>> => \A y \in S : In(y, s) => y = Head(s) \/ In(y, Tail(s))
  <2> SUFFICES ASSUME s # <<>>, NEW y \in S, NEW i \in 1..Len(s), s[i] = y, y # Head(s)
               PROVE  In(y, Tail(s))
    BY Zenon DEF In
  <2>1. i - 1 \in 1..Len(Tail(s)) /\ Tail(s)[i - 1] = y
    OBVIOUS
  <2> QED BY <2>1 DEF In
<1>6. ~In(x, <<>>)
  BY DEF In
<1> QED BY <1>1, <1>2, <1>3, <1>4, <1>5, <1>6

\* An entry of the plan.
LEMMA EntryIn ==
    ASSUME NEW r \in ListenerRoles, NEW t \in {"tcp", "udp"}, NEW p \in Int
    PROVE  [role |-> r, at |-> <<t, p>>] \in Entries
<1>1. <<t, p>> \in {"tcp", "udp"} \X Int
  BY PairIn, Zenon
<1> QED BY <1>1, Zenon DEF Entries

\* Start's plan is a sequence of entries, and begins with the control API.
LEMMA PlanTyped ==
    ASSUME NEW c \in Configs
    PROVE  /\ Plan(c) \in Seq(Entries)
           /\ 1 \in DOMAIN Plan(c) /\ Plan(c)[1].at = <<"tcp", c.control>>
<1> DEFINE all(r, t, ports) == [i \in DOMAIN ports |-> [role |-> r, at |-> <<t, ports[i]>>]]
           first == <<[role |-> "control", at |-> <<"tcp", c.control>>]>>
           dns == [i \in 1..(2 * Len(c.dns)) |->
              [role |-> "dns", at |-> <<IF i % 2 = 1 THEN "tcp" ELSE "udp", c.dns[(i + 1) \div 2]>>]]
           dot == IF c.dot = 0 THEN <<>> ELSE all("dot", "tcp", <<c.dot>>)
<1>1. first \in Seq(Entries) /\ Len(first) = 1 /\ first[1].at = <<"tcp", c.control>>
  <2>1. [role |-> "control", at |-> <<"tcp", c.control>>] \in Entries
    <3>1. "control" \in ListenerRoles /\ "tcp" \in {"tcp", "udp"} /\ c.control \in Int
      BY ConfigTypes, Zenon DEF ListenerRoles
    <3> QED BY <3>1, EntryIn, Zenon
  <2>2. ASSUME NEW e \in Entries
        PROVE  <<e>> \in Seq(Entries) /\ Len(<<e>>) = 1 /\ <<e>>[1] = e
    OBVIOUS
  <2>3. [role |-> "control", at |-> <<"tcp", c.control>>].at = <<"tcp", c.control>>
    BY Zenon
  <2> QED BY <2>1, <2>2, <2>3, Zenon
<1>2. ASSUME NEW r \in ListenerRoles, NEW t \in {"tcp", "udp"}, NEW ports \in Seq(Int)
      PROVE  all(r, t, ports) \in Seq(Entries)
  <2>1. Len(ports) \in Nat /\ DOMAIN ports = 1..Len(ports) /\ \A i \in DOMAIN ports : ports[i] \in Int
    OBVIOUS
  <2>2. \A i \in DOMAIN ports : [role |-> r, at |-> <<t, ports[i]>>] \in Entries
    BY <2>1, EntryIn, Zenon
  <2> QED BY <2>1, <2>2
<1>3. dns \in Seq(Entries)
  <2>1. Len(c.dns) \in Nat /\ DOMAIN c.dns = 1..Len(c.dns) /\ \A k \in DOMAIN c.dns : c.dns[k] \in Int
    BY ConfigTypes
  <2>2. ASSUME NEW i \in 1..(2 * Len(c.dns))
        PROVE  c.dns[(i + 1) \div 2] \in Int
    <3>1. (i + 1) \div 2 \in 1..Len(c.dns)
      BY <2>1
    <3> QED BY <3>1, <2>1
  <2>3. ASSUME NEW i \in 1..(2 * Len(c.dns))
        PROVE  dns[i] \in Entries
    <3>1. (IF i % 2 = 1 THEN "tcp" ELSE "udp") \in {"tcp", "udp"}
      BY Zenon
    <3>2. "dns" \in ListenerRoles
      BY Zenon DEF ListenerRoles
    <3> DEFINE t == IF i % 2 = 1 THEN "tcp" ELSE "udp"
               p == c.dns[(i + 1) \div 2]
    <3>3. t \in {"tcp", "udp"} /\ p \in Int
      BY <2>2, <3>1, Zenon
    <3>4. dns[i] = [role |-> "dns", at |-> <<t, p>>]
      BY Zenon
    <3> HIDE DEF t, p, dns
    <3> QED BY <3>2, <3>3, <3>4, EntryIn, Zenon
  <2>4. DOMAIN dns = 1..(2 * Len(c.dns)) /\ 2 * Len(c.dns) \in Nat /\ dns = [i \in DOMAIN dns |-> dns[i]]
    BY <2>1
  <2> HIDE DEF dns
  <2>5. dns \in [1..(2 * Len(c.dns)) -> Entries]
    BY <2>3, <2>4, Zenon
  <2> QED BY <2>4, <2>5, SeqDef
<1>4. dot \in Seq(Entries)
  <2>1. <<c.dot>> \in Seq(Int)
    BY ConfigTypes
  <2>2. all("dot", "tcp", <<c.dot>>) \in Seq(Entries)
    <3>1. "dot" \in ListenerRoles /\ "tcp" \in {"tcp", "udp"}
      BY Zenon DEF ListenerRoles
    <3> QED BY <1>2, <2>1, <3>1, Zenon
  <2>3. <<>> \in Seq(Entries)
    OBVIOUS
  <2> HIDE DEF all
  <2> QED BY <2>2, <2>3
<1> DEFINE tcp == all("tcp", "tcp", c.tcp)
           udp == all("udp", "udp", c.udp)
<1>5. tcp \in Seq(Entries) /\ udp \in Seq(Entries)
  <2>1. "tcp" \in ListenerRoles /\ "udp" \in ListenerRoles /\ "tcp" \in {"tcp", "udp"} /\ "udp" \in {"tcp", "udp"}
    BY Zenon DEF ListenerRoles
  <2>2. c.tcp \in Seq(Int) /\ c.udp \in Seq(Int)
    BY ConfigTypes, Zenon
  <2> QED BY <1>2, <2>1, <2>2, Zenon
<1>6. Plan(c) = first \o tcp \o dns \o dot \o udp
  BY Zenon DEF Plan
<1> HIDE DEF first, dns, dot, tcp, udp
<1>7. Plan(c) \in Seq(Entries) /\ 1 \in DOMAIN Plan(c) /\ Plan(c)[1] = first[1]
  <2> HIDE DEF all
  <2> DEFINE p2 == first \o tcp
             p3 == p2 \o dns
             p4 == p3 \o dot
             p5 == p4 \o udp
  <2>1. p2 \in Seq(Entries) /\ Len(p2) \in Nat /\ Len(p2) >= 1 /\ p2[1] = first[1]
    BY <1>1, <1>5, ConcatProperties, LenProperties
  <2> HIDE DEF p2
  <2>2. p3 \in Seq(Entries) /\ Len(p3) \in Nat /\ Len(p3) >= 1 /\ p3[1] = first[1]
    BY <1>3, <2>1, ConcatProperties, LenProperties
  <2> HIDE DEF p3
  <2>3. p4 \in Seq(Entries) /\ Len(p4) \in Nat /\ Len(p4) >= 1 /\ p4[1] = first[1]
    BY <1>4, <2>2, ConcatProperties, LenProperties
  <2> HIDE DEF p4
  <2>4. p5 \in Seq(Entries) /\ Len(p5) \in Nat /\ Len(p5) >= 1 /\ p5[1] = first[1]
    BY <1>5, <2>3, ConcatProperties, LenProperties
  <2>5. Plan(c) = p5
    BY <1>6, Zenon DEF p2, p3, p4
  <2> HIDE DEF p5
  <2> QED BY <2>4, <2>5, LenProperties
<1> QED BY <1>1, <1>7, Zenon

\* Every entry of the plan has its key in Server.listeners.
LEMMA PlanKeyed ==
    ASSUME NEW c \in Configs
    PROVE  Keyed(Plan(c), Names(c)) /\ gc \in Names(c) /\ <<"tcp", c.control>> \in Names(c)
<1>1. Keyed(Plan(c), Names(c))
  BY Zenon DEF Keyed, Names, ToSet
<1>2. gc \in Names(c)
  BY Zenon DEF Names
<1>3. <<"tcp", c.control>> \in Names(c)
  BY PlanTyped, <1>1, Zenon DEF Keyed
<1> QED BY <1>1, <1>2, <1>3

----------------------------------------------------------------------------
(* The listeners: LifeInv is inductive. *)

\* The program starts with nothing bound, served or accepted.
LEMMA InitInv == Init => LifeInv
<1> SUFFICES ASSUME Init PROVE LifeInv
  BY Zenon
<1>1. PICK c \in Configs : New(c)
  BY Zenon DEF Init
<1>2. /\ cfg = c /\ todo = Plan(c) /\ DOMAIN loop = Names(c) /\ control = <<"tcp", c.control>>
      /\ \A n \in DOMAIN loop : loop[n] = "none" /\ socket[n] = "none" /\ listeners[n] = "none"
  BY <1>1, Zenon DEF New, control
<1>3. /\ pc = "starting" /\ ctxDone = FALSE /\ closers = <<>> /\ taken = <<>>
      /\ flow = [f \in Flows |-> [at |-> gc, ph |-> "none"]] /\ conns = [ip \in IPs |-> 0]
  BY Zenon DEF Init
<1>4. LifeTypes
  <2>1. gc \in DOMAIN loop /\ control \in DOMAIN loop
    BY <1>2, PlanKeyed, Zenon
  <2>2. todo \in Seq(Entries) /\ Keyed(todo, DOMAIN loop)
    BY <1>2, PlanKeyed, PlanTyped, Zenon
  <2>3. /\ loop \in [DOMAIN loop -> LoopStates] /\ socket \in [DOMAIN loop -> SocketStates]
        /\ listeners \in [DOMAIN loop -> {"none", "ok", "error"}]
    BY <1>1, <1>2, Zenon DEF New, LoopStates, SocketStates
  <2>4. flow \in [Flows -> [at : DOMAIN loop, ph : FlowPhases]] /\ conns \in [IPs -> Nat]
    BY <1>3, <2>1, Zenon DEF FlowPhases
  <2>5. closers \in Seq(DOMAIN loop) /\ taken \in Seq(DOMAIN loop)
    BY <1>3
  <2>6. pc \in Stages /\ ctxDone \in BOOLEAN /\ pc # "recording"
    BY <1>3, Zenon DEF Stages
  <2> QED BY <2>1, <2>2, <2>3, <2>4, <2>5, <2>6 DEF LifeTypes
<1> QED BY <1>2, <1>3, <1>4 DEF LifeInv, Cancelled, Covered, ShutAwaits, Served, FailsClosed

\* What one item of Start's list is.
LEMMA NextEntry ==
    ASSUME LifeInv, todo # <<>>
    PROVE  LET l == Head(todo) IN
           /\ l \in Entries /\ l.at \in DOMAIN loop /\ l.at[1] \in {"tcp", "udp"}
           /\ quicOf(l.at)[1] = "quic" /\ quicOf(l.at) # l.at /\ quicOf(l.at) # control
           /\ l.role = "udp" => quicOf(l.at) \in DOMAIN loop
           /\ Tail(todo) \in Seq(Entries) /\ Keyed(Tail(todo), DOMAIN loop)
<1>1. todo \in Seq(Entries) /\ Keyed(todo, DOMAIN loop)
  BY Zenon DEF LifeInv, LifeTypes
<1>2. /\ Head(todo) \in Entries /\ Tail(todo) \in Seq(Entries) /\ Head(todo) = todo[1]
      /\ Len(todo) \in Nat /\ Len(Tail(todo)) = Len(todo) - 1 /\ DOMAIN todo = 1..Len(todo)
      /\ DOMAIN Tail(todo) = 1..Len(Tail(todo)) /\ 1 \in DOMAIN todo
      /\ \A i \in 1..Len(Tail(todo)) : Tail(todo)[i] = todo[i + 1]
  BY <1>1, HeadTailProperties, LenProperties, EmptySeq
<1>3. Head(todo).at \in {"tcp", "udp"} \X Int
  BY <1>2, Zenon DEF Entries
<1>4. Head(todo).at[1] \in {"tcp", "udp"}
  BY <1>3, Zenon
<1>5. quicOf(Head(todo).at)[1] = "quic" /\ control[1] = "tcp"
  BY Zenon DEF quicOf, control
<1>6. Keyed(Tail(todo), DOMAIN loop)
  BY <1>1, <1>2 DEF Keyed
<1>7. Head(todo).at \in DOMAIN loop /\ (Head(todo).role = "udp" => quicOf(Head(todo).at) \in DOMAIN loop)
  BY <1>1, <1>2 DEF Keyed
<1> QED BY <1>2, <1>4, <1>5, <1>6, <1>7

\* A listener is bound, or not.
LEMMA StartNextInv ==
    ASSUME LifeInv, StartNext
    PROVE  LifeInv'
<1> DEFINE l == Head(todo)
           at == Head(todo).at
<1>1. /\ pc = "starting" /\ todo # <<>>
      /\ cfg' = cfg /\ control' = control /\ taken' = taken /\ ctxDone' = ctxDone /\ flow' = flow /\ conns' = conns
  BY Zenon DEF StartNext, control
<1>2. /\ l \in Entries /\ at \in DOMAIN loop /\ at[1] \in {"tcp", "udp"}
      /\ quicOf(at)[1] = "quic" /\ quicOf(at) # at /\ quicOf(at) # control
      /\ l.role = "udp" => quicOf(at) \in DOMAIN loop
      /\ Tail(todo) \in Seq(Entries) /\ Keyed(Tail(todo), DOMAIN loop)
  BY <1>1, NextEntry
<1>3. ~ctxDone
  BY <1>1 DEF LifeInv, Cancelled
<1> DEFINE skipped == pc' = pc /\ todo' = Tail(todo)
<1>4. \/ l.role = "udp" /\ BindQUIC(at) /\ pc' = "recording" /\ todo' = todo
      \/ QUICListenFails(at) /\ skipped
      \/ BindFails(at) /\ skipped
      \/ Bind(at) /\ skipped
  BY Zenon DEF StartNext
<1>5. closers \in Seq(DOMAIN loop) /\ taken \in Seq(DOMAIN loop)
  BY Zenon DEF LifeInv, LifeTypes
<1> HIDE DEF l, at
<1>6. CASE l.role = "udp" /\ BindQUIC(at) /\ pc' = "recording" /\ todo' = todo
  <2>1. /\ listeners' = [listeners EXCEPT ![at] = "ok"]
        /\ socket' = [socket EXCEPT ![at] = "open", ![quicOf(at)] = "open"]
        /\ closers' = closers \o <<at, quicOf(at)>>
        /\ loop' = [loop EXCEPT ![quicOf(at)] = "running"]
    BY <1>6, Zenon DEF BindQUIC
  <2>2. <<at, quicOf(at)>> \in Seq(DOMAIN loop) /\ In(at, <<at, quicOf(at)>>) /\ In(quicOf(at), <<at, quicOf(at)>>)
    <3>1. 1 \in 1..Len(<<at, quicOf(at)>>) /\ 2 \in 1..Len(<<at, quicOf(at)>>)
      OBVIOUS
    <3> QED BY <1>2, <1>6, <3>1 DEF In
  <2>3. closers' \in Seq(DOMAIN loop) /\ In(at, closers') /\ In(quicOf(at), closers')
        /\ \A n \in DOMAIN loop : In(n, closers) => In(n, closers')
    BY <1>2, <1>5, <1>6, <2>1, <2>2, ItemsMove, ConcatProperties
  <2>4. LifeTypes'
    BY <1>1, <1>2, <1>5, <1>6, <2>1, <2>3 DEF LifeInv, LifeTypes, Stages, SocketStates, LoopStates, l
  <2>5. Cancelled' /\ Covered' /\ FailsClosed'
    BY <1>1, <1>2, <1>3, <1>6, <2>1, <2>3 DEF LifeInv, LifeTypes, Cancelled, Covered, FailsClosed
  <2>6. ShutAwaits'
    BY <1>1, <1>2, <1>3, <1>6, <2>1 DEF LifeInv, LifeTypes, ShutAwaits
  <2>7. Served'
    BY <1>1, <1>2, <1>3, <1>6, <2>1 DEF LifeInv, LifeTypes, Served, at
  <2> QED BY <2>4, <2>5, <2>6, <2>7 DEF LifeInv
<1>7. CASE QUICListenFails(at) /\ skipped
  <2>1. /\ listeners' = [listeners EXCEPT ![at] = "error"]
        /\ socket' = [socket EXCEPT ![at] = "closed"]
        /\ closers' = Append(closers, at)
        /\ loop' = loop
    BY <1>7, Zenon DEF QUICListenFails
  <2>3. closers' \in Seq(DOMAIN loop)
        /\ \A n \in DOMAIN loop : In(n, closers) => In(n, closers')
    BY <1>2, <1>5, <2>1, ItemsMove, AppendProperties
  <2>4. LifeTypes'
    BY <1>1, <1>2, <1>5, <1>7, <2>1, <2>3 DEF LifeInv, LifeTypes, Stages, SocketStates, LoopStates
  <2>5. Cancelled' /\ Covered' /\ FailsClosed'
    BY <1>1, <1>2, <1>3, <1>7, <2>1, <2>3 DEF LifeInv, LifeTypes, Cancelled, Covered, FailsClosed
  <2>6. ShutAwaits' /\ Served'
    BY <1>1, <1>2, <1>3, <1>7, <2>1 DEF LifeInv, LifeTypes, ShutAwaits, Served
  <2> QED BY <2>4, <2>5, <2>6 DEF LifeInv
<1>8. CASE BindFails(at) /\ skipped
  <2>1. listeners' = [listeners EXCEPT ![at] = "error"] /\ socket' = socket /\ closers' = closers /\ loop' = loop
    BY <1>8, Zenon DEF BindFails
  <2>4. LifeTypes'
    BY <1>1, <1>2, <1>5, <1>8, <2>1 DEF LifeInv, LifeTypes, Stages, SocketStates, LoopStates
  <2>5. Cancelled' /\ Covered' /\ FailsClosed'
    BY <1>1, <1>8, <2>1 DEF LifeInv, LifeTypes, Cancelled, Covered, FailsClosed
  <2>6. ShutAwaits' /\ Served'
    BY <1>1, <1>2, <1>3, <1>8, <2>1 DEF LifeInv, LifeTypes, ShutAwaits, Served
  <2> QED BY <2>4, <2>5, <2>6 DEF LifeInv
<1>9. CASE Bind(at) /\ skipped
  <2>1. /\ listeners' = [listeners EXCEPT ![at] = "ok"]
        /\ socket' = [socket EXCEPT ![at] = "open"]
        /\ closers' = Append(closers, at)
        /\ loop' = [loop EXCEPT ![at] = IF at = control THEN "spawned" ELSE "running"]
    BY <1>9, Zenon DEF Bind
  <2>3. closers' \in Seq(DOMAIN loop) /\ In(at, closers')
        /\ \A n \in DOMAIN loop : In(n, closers) => In(n, closers')
    BY <1>2, <1>5, <2>1, ItemsMove, AppendProperties
  <2>4. LifeTypes'
    BY <1>1, <1>2, <1>5, <1>9, <2>1, <2>3 DEF LifeInv, LifeTypes, Stages, SocketStates, LoopStates
  <2>5. Cancelled' /\ Covered' /\ FailsClosed'
    BY <1>1, <1>2, <1>3, <1>9, <2>1, <2>3 DEF LifeInv, LifeTypes, Cancelled, Covered, FailsClosed
  <2>6. ShutAwaits' /\ Served'
    BY <1>1, <1>2, <1>3, <1>9, <2>1 DEF LifeInv, LifeTypes, ShutAwaits, Served
  <2> QED BY <2>4, <2>5, <2>6 DEF LifeInv
<1> QED BY <1>4, <1>6, <1>7, <1>8, <1>9

\* startUDP records the QUIC endpoint and starts the UDP loop.
LEMMA RecordQUICInv ==
    ASSUME LifeInv, RecordQUIC
    PROVE  LifeInv'
<1> DEFINE l == Head(todo)
           at == Head(todo).at
<1>1. /\ pc = "recording" /\ todo # <<>> /\ l.role = "udp"
      /\ listeners' = [listeners EXCEPT ![quicOf(at)] = "ok"]
      /\ loop' = [loop EXCEPT ![at] = "running"]
      /\ pc' = "starting" /\ todo' = Tail(todo) /\ control' = control
      /\ UNCHANGED <<socket, closers, taken, ctxDone, flow, conns>>
  BY Zenon DEF RecordQUIC, LifeInv, LifeTypes, control
<1>2. /\ at \in DOMAIN loop /\ at[1] \in {"tcp", "udp"}
      /\ quicOf(at)[1] = "quic" /\ quicOf(at) # at /\ quicOf(at) # control /\ quicOf(at) \in DOMAIN loop
      /\ Tail(todo) \in Seq(Entries) /\ Keyed(Tail(todo), DOMAIN loop)
  BY <1>1, NextEntry
<1>3. ~ctxDone
  BY <1>1, Zenon DEF LifeInv, Cancelled
<1>4. LifeTypes'
  BY <1>1, <1>2 DEF LifeInv, LifeTypes, Stages, LoopStates
<1>5. Cancelled' /\ Covered' /\ FailsClosed'
  BY <1>1, <1>2 DEF LifeInv, LifeTypes, Cancelled, Covered, FailsClosed
<1>6. ShutAwaits' /\ Served'
  BY <1>1, <1>2, <1>3 DEF LifeInv, LifeTypes, ShutAwaits, Served
<1> QED BY <1>4, <1>5, <1>6 DEF LifeInv

\* Start returns and the gc loop runs.
LEMMA StartedInv ==
    ASSUME LifeInv, Started
    PROVE  LifeInv'
<1>1. /\ pc = "starting" /\ pc' = "up" /\ loop' = [loop EXCEPT ![gc] = "running"] /\ control' = control
      /\ UNCHANGED <<todo, listeners, socket, closers, taken, ctxDone, flow, conns>>
  BY Zenon DEF Started, startVars, control
<1>2. gc \in DOMAIN loop /\ ~ctxDone
  BY <1>1, Zenon DEF LifeInv, LifeTypes, Cancelled
<1>3. LifeTypes'
  BY <1>1, <1>2, Zenon DEF LifeInv, LifeTypes, Stages, LoopStates
<1>4. Cancelled' /\ Covered' /\ FailsClosed'
  BY <1>1, <1>2, Zenon DEF LifeInv, LifeTypes, Cancelled, Covered, FailsClosed
<1>5. ShutAwaits' /\ Served'
  BY <1>1, <1>2 DEF LifeInv, LifeTypes, ShutAwaits, Served
<1> QED BY <1>3, <1>4, <1>5 DEF LifeInv

\* Close cancels the context.
LEMMA CloseInv ==
    ASSUME LifeInv, Close
    PROVE  LifeInv'
<1>1. /\ pc \in {"starting", "up"} /\ pc' = "cancelled" /\ ctxDone' = TRUE /\ control' = control
      /\ UNCHANGED <<todo, listeners, socket, loop, closers, taken, flow, conns>>
  BY Zenon DEF Close, startVars, control
<1>2. LifeTypes'
  BY <1>1, Zenon DEF LifeInv, LifeTypes, Stages
<1> QED BY <1>1, <1>2 DEF LifeInv, Cancelled, Covered, ShutAwaits, Served, FailsClosed

\* Close takes the registered closers.
LEMMA TakeClosersInv ==
    ASSUME LifeInv, TakeClosers
    PROVE  LifeInv'
<1>1. /\ pc = "cancelled" /\ pc' = "closing" /\ taken' = closers /\ closers' = <<>> /\ control' = control
      /\ UNCHANGED <<todo, listeners, socket, loop, ctxDone, flow, conns>>
  BY Zenon DEF TakeClosers, startVars, control
<1>2. LifeTypes'
  BY <1>1 DEF LifeInv, LifeTypes, Stages
<1>3. Covered'
  <2> SUFFICES ASSUME NEW n \in DOMAIN loop, socket[n] = "open" PROVE In(n, closers)
    BY <1>1 DEF Covered
  <2>1. taken = <<>> => ~In(n, taken)
    BY DEF In
  <2>2. In(n, closers) \/ In(n, taken)
    BY Zenon DEF LifeInv, Covered
  <2> QED BY <1>1, <2>1, <2>2 DEF LifeInv, Covered
<1>4. Cancelled' /\ ShutAwaits' /\ Served' /\ FailsClosed'
  BY <1>1 DEF LifeInv, Cancelled, ShutAwaits, Served, FailsClosed
<1> QED BY <1>2, <1>3, <1>4 DEF LifeInv

\* One closer runs.
LEMMA CloseOneInv ==
    ASSUME LifeInv, CloseOne
    PROVE  LifeInv'
<1> DEFINE at == Head(taken)
<1>1. /\ pc = "closing" /\ taken # <<>> /\ taken' = Tail(taken) /\ control' = control
      /\ socket' = [socket EXCEPT ![at] = IF loop[at] = "spawned" THEN "shut" ELSE "closed"]
      /\ flow' = [f \in Flows |-> IF flow[f] = [at |-> at, ph |-> "backlog"]
                                  THEN [at |-> gc, ph |-> "none"] ELSE flow[f]]
      /\ UNCHANGED <<todo, pc, listeners, loop, closers, ctxDone, conns>>
  BY Zenon DEF CloseOne, startVars, control
<1>2. taken \in Seq(DOMAIN loop) /\ gc \in DOMAIN loop
  BY Zenon DEF LifeInv, LifeTypes
<1>3. /\ at \in DOMAIN loop /\ Tail(taken) \in Seq(DOMAIN loop)
      /\ \A n \in DOMAIN loop : In(n, taken) => n = at \/ In(n, Tail(taken))
  BY <1>1, <1>2, ItemsMove
<1>4. flow' \in [Flows -> [at : DOMAIN loop, ph : FlowPhases]]
  <2>1. [at |-> gc, ph |-> "none"] \in [at : DOMAIN loop, ph : FlowPhases]
    BY <1>2 DEF FlowPhases
  <2>2. \A f \in Flows : flow[f] \in [at : DOMAIN loop, ph : FlowPhases]
    BY Zenon DEF LifeInv, LifeTypes
  <2> QED BY <1>1, <2>1, <2>2
<1> HIDE DEF at
<1>5. LifeTypes'
  BY <1>1, <1>3, <1>4 DEF LifeInv, LifeTypes, SocketStates
<1>6. Cancelled' /\ Covered' /\ FailsClosed'
  BY <1>1, <1>3 DEF LifeInv, LifeTypes, Cancelled, Covered, FailsClosed
<1>7. ShutAwaits' /\ Served'
  BY <1>1, <1>3 DEF LifeInv, LifeTypes, ShutAwaits, Served, Cancelled
<1> QED BY <1>5, <1>6, <1>7 DEF LifeInv

\* Close returns: every socket had its closer, and Wait saw every goroutine end.
LEMMA WaitDoneInv ==
    ASSUME LifeInv, WaitDone
    PROVE  LifeInv'
<1>1. /\ pc = "closing" /\ taken = <<>> /\ pc' \in {"closed", "failed"} /\ control' = control
      /\ \A n \in DOMAIN loop : loop[n] \in {"none", "done"}
      /\ UNCHANGED <<todo, listeners, socket, loop, closers, taken, ctxDone, flow, conns>>
  BY DEF WaitDone, startVars, control
<1>2. closers = <<>>
  BY <1>1 DEF LifeInv, Covered
<1>3. \A n \in DOMAIN loop : ~In(n, closers) /\ ~In(n, taken)
  BY <1>1, <1>2 DEF In
<1>4. \A n \in DOMAIN loop : socket[n] \in {"none", "closed"}
  BY <1>1, <1>3 DEF LifeInv, LifeTypes, SocketStates, Covered, ShutAwaits
<1>5. LifeTypes'
  BY <1>1 DEF LifeInv, LifeTypes, Stages
<1>6. FailsClosed'
  BY <1>1, <1>4 DEF FailsClosed
<1>7. Cancelled' /\ Covered' /\ ShutAwaits' /\ Served'
  BY <1>1, <1>2 DEF LifeInv, Cancelled, Covered, ShutAwaits, Served
<1> QED BY <1>5, <1>6, <1>7 DEF LifeInv

\* The control API begins to serve, or finds its server closed.
LEMMA ServeTLSInv ==
    ASSUME LifeInv, Running, ServeTLS
    PROVE  LifeInv'
<1>1. /\ loop[control] = "spawned" /\ control' = control
      /\ UNCHANGED <<todo, pc, closers, taken, ctxDone, listeners, flow, conns>>
      /\ \/ /\ socket[control] = "shut"
            /\ loop' = [loop EXCEPT ![control] = "done"] /\ socket' = [socket EXCEPT ![control] = "closed"]
         \/ /\ socket[control] # "shut"
            /\ loop' = [loop EXCEPT ![control] = "running"] /\ socket' = socket
  BY DEF ServeTLS, loopVars, startVars, control
<1>2. control \in DOMAIN loop /\ pc \notin {"closed", "failed"}
  BY DEF LifeInv, LifeTypes, Running
<1>3. LifeTypes'
  BY <1>1, <1>2 DEF LifeInv, LifeTypes, SocketStates, LoopStates
<1>4. Cancelled' /\ Covered' /\ FailsClosed'
  BY <1>1, <1>2 DEF LifeInv, LifeTypes, Cancelled, Covered, FailsClosed
<1>5. ShutAwaits' /\ Served'
  BY <1>1, <1>2 DEF LifeInv, LifeTypes, ShutAwaits, Served
<1> QED BY <1>3, <1>4, <1>5 DEF LifeInv

\* The control API or an HTTP/3 endpoint stops serving.
LEMMA ServeEndsInv ==
    ASSUME LifeInv, Running, NEW n \in DOMAIN loop, ServeEnds(n)
    PROVE  LifeInv'
<1> DEFINE told == IF socket[n] = "closed" \/ (n # control /\ ctxDone) THEN listeners[n] ELSE "error"
<1>1. /\ n = control \/ n[1] = "quic"
      /\ loop[n] = "running" /\ control' = control
      /\ loop' = [loop EXCEPT ![n] = "done"] /\ socket' = [socket EXCEPT ![n] = "closed"]
      /\ listeners' = [listeners EXCEPT ![n] = told]
      /\ UNCHANGED <<todo, pc, closers, taken, ctxDone, flow, conns>>
  BY DEF ServeEnds, loopVars, startVars, control
<1>2. pc \notin {"closed", "failed"}
  BY DEF Running
<1>3. LifeTypes'
  BY <1>1 DEF LifeInv, LifeTypes, SocketStates, LoopStates
<1>4. Cancelled' /\ Covered' /\ FailsClosed'
  BY <1>1, <1>2 DEF LifeInv, LifeTypes, Cancelled, Covered, FailsClosed
<1>5. ShutAwaits' /\ Served'
  BY <1>1 DEF LifeInv, LifeTypes, ShutAwaits, Served
<1> QED BY <1>3, <1>4, <1>5 DEF LifeInv

\* A loop that serves goes to sleep, wakes up or, once the context is cancelled, returns.
LEMMA LoopInv ==
    ASSUME LifeInv, Running, NEW n \in DOMAIN loop,
           loop[n] \in {"running", "sleeping"},
           NEW v \in {"running", "sleeping", "done"}, v = "done" => ctxDone,
           loop' = [loop EXCEPT ![n] = v],
           UNCHANGED <<loopVars, listeners, socket, flow, conns>>
    PROVE  LifeInv'
<1>1. control' = control /\ UNCHANGED <<todo, pc, closers, taken, ctxDone, listeners, socket, flow, conns>>
  BY Zenon DEF loopVars, startVars, control
<1>2. pc \notin {"closed", "failed"}
  BY Zenon DEF Running
<1>3. LifeTypes'
  BY <1>1 DEF LifeInv, LifeTypes, LoopStates
<1>4. Cancelled' /\ Covered' /\ FailsClosed'
  BY <1>1, <1>2 DEF LifeInv, LifeTypes, Cancelled, Covered, FailsClosed
<1>5. ShutAwaits' /\ Served'
  BY <1>1 DEF LifeInv, LifeTypes, ShutAwaits, Served
<1> QED BY <1>3, <1>4, <1>5 DEF LifeInv

\* A step of a flow leaves the listeners alone.
LEMMA FlowInv ==
    ASSUME LifeInv, UNCHANGED <<loopVars, listeners, socket, loop>>,
           flow' \in [Flows -> [at : DOMAIN loop, ph : FlowPhases]], conns' \in [IPs -> Nat]
    PROVE  LifeInv'
<1>1. control' = control /\ UNCHANGED <<todo, pc, closers, taken, ctxDone, listeners, socket, loop>>
  BY Zenon DEF loopVars, startVars, control
<1>2. LifeTypes'
  BY <1>1 DEF LifeInv, LifeTypes
<1> QED BY <1>1, <1>2 DEF LifeInv, Cancelled, Covered, ShutAwaits, Served, FailsClosed

----------------------------------------------------------------------------
(* The places of an address. *)

\* The flows of an address that have a handler.
Handled(ip) == {f \in Flows : IpOf[f] = ip /\ flow[f].ph \in {"handled", "cut"}}

\* A set of flows is finite.
LEMMA HandledFinite ==
    ASSUME NEW ip
    PROVE  IsFiniteSet(Handled(ip)) /\ Cardinality(Handled(ip)) \in Nat
<1>1. Handled(ip) \in SUBSET Flows /\ IsFiniteSet(Flows)
  BY LifecycleConstants, Zenon DEF Handled
<1> QED BY <1>1, FS_Subset, FS_CardinalityType

\* The counts stay exact when no flow gets or loses its handler.
LEMMA CountsStay ==
    ASSUME ConnsExact, conns' = conns,
           \A f \in Flows : flow'[f].ph \in {"handled", "cut"} <=> flow[f].ph \in {"handled", "cut"}
    PROVE  ConnsExact'
<1>1. \A ip : Handled(ip)' = Handled(ip)
  BY Zenon DEF Handled
<1> QED BY <1>1 DEF ConnsExact, Handled

\* acquireConn admits one flow below the limit; releaseConn runs once for each.
LEMMA AcceptCounts ==
    ASSUME LifeInv, ConnsExact, NEW f \in Flows, Accept(f)
    PROVE  ConnsExact' /\ flow' \in [Flows -> [at : DOMAIN loop, ph : FlowPhases]] /\ conns' \in [IPs -> Nat]
<1>1. /\ flow \in [Flows -> [at : DOMAIN loop, ph : FlowPhases]] /\ conns \in [IPs -> Nat]
      /\ gc \in DOMAIN loop /\ IpOf[f] \in IPs
  BY Zenon DEF LifeInv, LifeTypes, IPs
<1>2. flow[f].ph = "backlog"
  BY Zenon DEF Accept
<1>3. CASE ~acquireConn(IpOf[f])
  <2>1. flow' = [flow EXCEPT ![f] = [at |-> gc, ph |-> "none"]] /\ conns' = conns
    BY <1>3, Zenon DEF Accept
  <2>2. flow' \in [Flows -> [at : DOMAIN loop, ph : FlowPhases]]
    BY <1>1, <2>1, Zenon DEF FlowPhases
  <2>3. \A g \in Flows : flow'[g].ph \in {"handled", "cut"} <=> flow[g].ph \in {"handled", "cut"}
    BY <1>1, <1>2, <2>1
  <2> QED BY <1>1, <2>1, <2>2, <2>3, CountsStay
<1>4. CASE acquireConn(IpOf[f])
  <2>1. flow' = [flow EXCEPT ![f].ph = "handled"] /\ conns' = [conns EXCEPT ![IpOf[f]] = @ + 1]
    BY <1>4, Zenon DEF Accept
  <2>2. flow' \in [Flows -> [at : DOMAIN loop, ph : FlowPhases]] /\ conns' \in [IPs -> Nat]
    BY <1>1, <2>1 DEF FlowPhases
  <2>3. \A ip \in IPs : Handled(ip)' = IF ip = IpOf[f] THEN Handled(ip) \cup {f} ELSE Handled(ip)
    BY <1>1, <2>1, Zenon DEF Handled
  <2>4. f \notin Handled(IpOf[f])
    BY <1>2, Zenon DEF Handled
  <2>5. Cardinality(Handled(IpOf[f]) \cup {f}) = Cardinality(Handled(IpOf[f])) + 1
    BY <2>4, HandledFinite, FS_AddElement, Zenon
  <2>6. ASSUME NEW ip \in IPs
        PROVE  conns'[ip] = Cardinality(Handled(ip)') /\ conns'[ip] <= maxConnsPerIP
    <3>1. conns[ip] = Cardinality(Handled(ip)) /\ conns[ip] <= maxConnsPerIP
      BY Zenon DEF ConnsExact, Handled
    <3>2. CASE ip = IpOf[f]
      <4>1. conns'[ip] = conns[ip] + 1 /\ conns[ip] < maxConnsPerIP /\ conns[ip] \in Nat
        BY <1>1, <1>4, <2>1, <3>2 DEF acquireConn
      <4>2. Handled(ip)' = Handled(IpOf[f]) \cup {f}
        BY <2>3, <3>2, Zenon
      <4>3. Cardinality(Handled(ip)') = Cardinality(Handled(ip)) + 1
        BY <2>5, <3>2, <4>2
      <4>4. conns[ip] + 1 <= maxConnsPerIP
        BY <4>1, LifecycleConstants
      <4> QED BY <3>1, <4>1, <4>3, <4>4
    <3>3. CASE ip # IpOf[f]
      BY <1>1, <2>1, <2>3, <3>1, <3>3
    <3> QED BY <3>2, <3>3
  <2> QED BY <2>2, <2>6 DEF ConnsExact, Handled
<1> QED BY <1>3, <1>4

\* handleTCP gives the flow's place back once.
LEMMA HandlerCounts ==
    ASSUME LifeInv, ConnsExact, NEW f \in Flows, handleTCP(f)
    PROVE  ConnsExact' /\ flow' \in [Flows -> [at : DOMAIN loop, ph : FlowPhases]] /\ conns' \in [IPs -> Nat]
<1>1. /\ flow \in [Flows -> [at : DOMAIN loop, ph : FlowPhases]] /\ conns \in [IPs -> Nat]
      /\ gc \in DOMAIN loop /\ IpOf[f] \in IPs
  BY Zenon DEF LifeInv, LifeTypes, IPs
<1>2. /\ flow[f].ph \in {"handled", "cut"}
      /\ flow' = [flow EXCEPT ![f] = [at |-> gc, ph |-> "none"]]
      /\ conns' = [conns EXCEPT ![IpOf[f]] = @ - 1]
  BY Zenon DEF handleTCP
<1>3. \A ip \in IPs : Handled(ip)' = IF ip = IpOf[f] THEN Handled(ip) \ {f} ELSE Handled(ip)
  BY <1>1, <1>2, Zenon DEF Handled
<1>4. f \in Handled(IpOf[f])
  BY <1>2, Zenon DEF Handled
<1>5. Cardinality(Handled(IpOf[f]) \ {f}) = Cardinality(Handled(IpOf[f])) - 1
  BY <1>4, HandledFinite, FS_RemoveElement, Zenon
<1>6. Cardinality(Handled(IpOf[f]) \ {f}) \in Nat
  BY HandledFinite, FS_RemoveElement, FS_CardinalityType, Zenon
<1>7. ASSUME NEW ip \in IPs
      PROVE  conns'[ip] = Cardinality(Handled(ip)') /\ conns'[ip] <= maxConnsPerIP /\ conns'[ip] \in Nat
  <2>1. conns[ip] = Cardinality(Handled(ip)) /\ conns[ip] <= maxConnsPerIP /\ conns[ip] \in Nat
    BY <1>1, Zenon DEF ConnsExact, Handled
  <2>2. CASE ip = IpOf[f]
    <3>1. conns'[ip] = conns[ip] - 1
      BY <1>1, <1>2, <2>2, Zenon
    <3>2. Handled(ip)' = Handled(IpOf[f]) \ {f}
      BY <1>3, <2>2, Zenon
    <3>3. Cardinality(Handled(ip)') = Cardinality(Handled(ip)) - 1 /\ Cardinality(Handled(ip)') \in Nat
      BY <1>5, <1>6, <2>2, <3>2
    <3>4. conns[ip] - 1 <= maxConnsPerIP
      BY <2>1, LifecycleConstants
    <3> QED BY <2>1, <3>1, <3>3, <3>4
  <2>3. CASE ip # IpOf[f]
    BY <1>1, <1>2, <1>3, <2>1, <2>3
  <2> QED BY <2>2, <2>3
<1>8. flow' \in [Flows -> [at : DOMAIN loop, ph : FlowPhases]]
  BY <1>1, <1>2, Zenon DEF FlowPhases
<1>9. conns' \in [IPs -> Nat]
  BY <1>1, <1>2, <1>7
<1> QED BY <1>7, <1>8, <1>9 DEF ConnsExact, Handled

\* The counts are exact at the start.
LEMMA InitCounts == Init => ConnsExact
<1> SUFFICES ASSUME Init, NEW ip \in IPs
             PROVE  conns[ip] = Cardinality(Handled(ip)) /\ conns[ip] <= maxConnsPerIP
  BY Zenon DEF ConnsExact, Handled
<1>1. conns[ip] = 0
  BY Zenon DEF Init
<1>2. Handled(ip) = {}
  BY Zenon DEF Init, Handled
<1> QED BY <1>1, <1>2, FS_EmptySet, LifecycleConstants

----------------------------------------------------------------------------
(* Every step. *)
LEMMA NextInv ==
    ASSUME LifeInv, ConnsExact, [Next]_vars
    PROVE  LifeInv' /\ ConnsExact'
<1> DEFINE FlowSet == [Flows -> [at : DOMAIN loop, ph : FlowPhases]]
<1>0. flow \in FlowSet /\ conns \in [IPs -> Nat]
  BY Zenon DEF LifeInv, LifeTypes
<1>1. ASSUME UNCHANGED <<flow, conns>> PROVE ConnsExact'
  BY <1>1, CountsStay, Zenon
<1>2. CASE StartNext
  BY <1>1, <1>2, StartNextInv DEF StartNext
<1>3. CASE RecordQUIC
  BY <1>1, <1>3, RecordQUICInv DEF RecordQUIC
<1>4. CASE Started
  BY <1>1, <1>4, StartedInv DEF Started
<1>5. CASE Close
  BY <1>1, <1>5, CloseInv DEF Close
<1>6. CASE TakeClosers
  BY <1>1, <1>6, TakeClosersInv DEF TakeClosers
<1>7. CASE CloseOne
  <2>1. conns' = conns
    BY <1>7, Zenon DEF CloseOne
  <2>2. \A f \in Flows : flow'[f].ph \in {"handled", "cut"} <=> flow[f].ph \in {"handled", "cut"}
    BY <1>7 DEF CloseOne
  <2> QED BY <1>7, <2>1, <2>2, CountsStay, CloseOneInv
<1>8. CASE WaitDone
  BY <1>1, <1>8, WaitDoneInv DEF WaitDone
<1>9. CASE Running /\ ServeTLS
  BY <1>1, <1>9, ServeTLSInv DEF ServeTLS
<1>10. CASE Running /\ gcStops
  <2>1. gc \in DOMAIN loop
    BY Zenon DEF LifeInv, LifeTypes
  <2> QED BY <1>1, <1>10, <2>1, LoopInv DEF gcStops
<1>11. ASSUME NEW n \in DOMAIN loop, Running /\ (ServeEnds(n) \/ AcceptError(n) \/ Wake(n) \/ ReadError(n))
       PROVE  LifeInv' /\ ConnsExact'
  <2>1. UNCHANGED <<flow, conns>>
    BY <1>11, Zenon DEF ServeEnds, AcceptError, Wake, ReadError
  <2>2. CASE ServeEnds(n)
    BY <1>11, <2>2, ServeEndsInv, <1>1, <2>1
  <2>3. CASE AcceptError(n)
    <3>1. (IF ctxDone THEN "done" ELSE "sleeping") \in {"running", "sleeping", "done"}
      BY Zenon
    <3> QED BY <1>11, <2>3, <3>1, LoopInv, <1>1, <2>1 DEF AcceptError
  <2>4. CASE Wake(n)
    BY <1>11, <2>4, LoopInv, <1>1, <2>1 DEF Wake
  <2>5. CASE ReadError(n)
    BY <1>11, <2>5, LoopInv, <1>1, <2>1 DEF ReadError
  <2> QED BY <1>11, <2>2, <2>3, <2>4, <2>5
<1>12. ASSUME NEW f \in Flows,
              Running /\ (Accept(f) \/ LifeTimer(f) \/ handleTCP(f) \/ \E n \in DOMAIN loop : Connect(f, n))
       PROVE  LifeInv' /\ ConnsExact'
  <2>1. CASE Accept(f)
    BY <2>1, AcceptCounts, FlowInv DEF Accept
  <2>2. CASE LifeTimer(f)
    <3>1. flow[f].ph = "handled" /\ flow' = [flow EXCEPT ![f].ph = "cut"] /\ conns' = conns
      BY <2>2, Zenon DEF LifeTimer
    <3>2. flow' \in FlowSet
      BY <1>0, <3>1 DEF FlowPhases
    <3>3. \A g \in Flows : flow'[g].ph \in {"handled", "cut"} <=> flow[g].ph \in {"handled", "cut"}
      BY <1>0, <3>1
    <3> QED BY <1>0, <2>2, <3>1, <3>2, <3>3, CountsStay, FlowInv DEF LifeTimer
  <2>3. CASE handleTCP(f)
    BY <2>3, HandlerCounts, FlowInv DEF handleTCP
  <2>4. ASSUME NEW n \in DOMAIN loop, Connect(f, n)
        PROVE  LifeInv' /\ ConnsExact'
    <3>1. flow[f].ph = "none" /\ flow' = [flow EXCEPT ![f] = [at |-> n, ph |-> "backlog"]] /\ conns' = conns
      BY <2>4 DEF Connect
    <3>2. flow' \in FlowSet
      BY <1>0, <3>1 DEF FlowPhases
    <3>3. \A g \in Flows : flow'[g].ph \in {"handled", "cut"} <=> flow[g].ph \in {"handled", "cut"}
      BY <1>0, <3>1
    <3> QED BY <1>0, <2>4, <3>1, <3>2, <3>3, CountsStay, FlowInv DEF Connect
  <2> QED BY <1>12, <2>1, <2>2, <2>3, <2>4
<1>13. CASE UNCHANGED vars
  <2>1. UNCHANGED <<loopVars, listeners, socket, loop, flow, conns>>
    BY <1>13, Zenon DEF vars, loopVars, startVars
  <2> QED BY <1>0, <1>1, <2>1, FlowInv
<1> QED BY <1>2, <1>3, <1>4, <1>5, <1>6, <1>7, <1>8, <1>9, <1>10, <1>11, <1>12, <1>13 DEF Next

\* The invariant holds throughout.
LEMMA LifeInvariant == Spec => [](LifeInv /\ ConnsExact)
<1>1. LifeInv /\ ConnsExact /\ [Next]_vars => (LifeInv /\ ConnsExact)'
  BY NextInv, Zenon
<1> QED BY InitInv, InitCounts, <1>1, PTL DEF Spec

(* acquireConn and releaseConn keep Server.conns exact for every address and *)
(* never above the limit, for any number of flows and any limit.             *)
THEOREM ConnsExactHolds == Spec => []ConnsExact
BY LifeInvariant, PTL

(* Close, and a Start that failed, leave no socket and no goroutine behind,  *)
(* for any configuration and any ports held by other programs.               *)
THEOREM FailsClosedHolds == Spec => []FailsClosed
<1>1. LifeInv => FailsClosed
  BY Zenon DEF LifeInv
<1> QED BY LifeInvariant, <1>1, PTL

(* What GET /v1/health reports as ok is bound and served while the server    *)
(* runs, for any configuration.                                              *)
THEOREM HealthHonestHolds == Spec => []HealthHonest
<1>1. LifeInv => HealthHonest
  BY Zenon DEF LifeInv, Served, Cancelled, HealthHonest
<1> QED BY LifeInvariant, <1>1, PTL
=============================================================================
