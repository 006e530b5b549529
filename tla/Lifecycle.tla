----------------------------- MODULE Lifecycle -----------------------------
(***************************************************************************)
(* The life of the server process (internal/server/server.go, with the     *)
(* listeners of tcp.go, udp.go and control.go): the configuration is       *)
(* validated, Start binds every listener in turn and gives each its        *)
(* goroutine, flows are accepted under the limit per address, a signal     *)
(* makes the command close the server, and Close waits for the goroutines  *)
(* of the listeners.                                                       *)
(*                                                                         *)
(* The goroutine that calls Start and Close, the goroutine of each         *)
(* listener, the gc loop, the handler and the life timer of each flow run  *)
(* interleaved.  A name such as <<"tcp", p>> is a key of Server.listeners, *)
(* and stands for the socket and for the goroutine that serves it.         *)
(***************************************************************************)
EXTENDS Integers, Sequences, SequencesExt, FiniteSets

CONSTANTS
    Configs,        \* configurations the command may be given
    Held,           \* sets of sockets other programs may hold
    Flows,          \* connections clients may have open at a time
    IpOf,           \* the address each comes from
    maxConnsPerIP

ASSUME LifecycleConstants ==
    /\ maxConnsPerIP \in Nat \ {0}
    /\ IsFiniteSet(Flows)
    /\ Configs \subseteq [control : Int, tcp : Seq(Int), dns : Seq(Int), dot : Int, udp : Seq(Int), quic : BOOLEAN]

VARIABLES
    cfg, held,
    pc,         \* of the goroutine that calls Start and Close
    todo,       \* listeners Start has yet to bind
    errs,       \* listeners that failed
    listeners,  \* Server.listeners
    socket,     \* the sockets themselves
    loop,       \* the goroutines in the WaitGroup
    closers, taken,
    ctxDone,
    flow,       \* where each connection is
    conns       \* Server.conns; an address that is not a key counts 0

vars == <<cfg, held, pc, todo, errs, listeners, socket, loop, closers, taken, ctxDone, flow, conns>>

startVars == <<cfg, held, todo, errs>>

IPs == {IpOf[f] : f \in Flows}

Roles(c) == {<<"tcp", c.control, "control">>}
    \cup {<<"tcp", p, "tcp">> : p \in ToSet(c.tcp)} \cup {<<t, p, "dns">> : t \in {"tcp", "udp"}, p \in ToSet(c.dns)}
    \cup {<<"tcp", p, "dot">> : p \in {c.dot} \ {0}} \cup {<<"udp", p, "udp">> : p \in ToSet(c.udp)}

Validate(c) ==
    /\ \A r \in Roles(c) : r[2] \in 1..65535
    /\ \A r, q \in Roles(c) : r[1] = q[1] /\ r[2] = q[2] => r[3] = q[3]

(* The order in which Start binds: control, TCP, DNS over both, DoT, UDP. *)
Plan(c) ==
    LET all(r, t, ports) == [i \in DOMAIN ports |-> [role |-> r, at |-> <<t, ports[i]>>]]
    IN <<[role |-> "control", at |-> <<"tcp", c.control>>]>>
       \o all("tcp", "tcp", c.tcp)
       \o [i \in 1..(2 * Len(c.dns)) |->
              [role |-> "dns", at |-> <<IF i % 2 = 1 THEN "tcp" ELSE "udp", c.dns[(i + 1) \div 2]>>]]
       \o (IF c.dot = 0 THEN <<>> ELSE all("dot", "tcp", <<c.dot>>))
       \o all("udp", "udp", c.udp)

gc == <<"gc", 0>>

quicOf(at) == <<"quic", at[2]>>

Names(c) ==
    {r.at : r \in ToSet(Plan(c))} \cup {quicOf(r.at) : r \in {q \in ToSet(Plan(c)) : q.role = "udp"}} \cup {gc}

control == <<"tcp", cfg.control>>

New(c) ==
    /\ Validate(c)
    /\ cfg = c
    /\ todo = Plan(c)
    /\ listeners = [n \in Names(c) |-> "none"]
    /\ socket = [n \in Names(c) |-> "none"]
    /\ loop = [n \in Names(c) |-> "none"]

Init ==
    /\ \E c \in Configs : New(c)
    /\ held \in Held
    /\ pc = "starting"
    /\ errs = {}
    /\ closers = <<>> /\ taken = <<>>
    /\ ctxDone = FALSE
    /\ flow = [f \in Flows |-> [at |-> gc, ph |-> "none"]]
    /\ conns = [ip \in IPs |-> 0]

(***************************************************************************)
(* Start.                                                                  *)
(***************************************************************************)
canBind(at) == at \notin held /\ socket[at] # "open"

(* startControl, startTCP and startUDP without a QUIC endpoint. *)
Bind(at) ==
    /\ canBind(at)
    /\ listeners' = [listeners EXCEPT ![at] = "ok"]
    /\ socket' = [socket EXCEPT ![at] = "open"]
    /\ closers' = Append(closers, at)
    /\ loop' = [loop EXCEPT ![at] = IF at = control THEN "spawned" ELSE "running"]
    /\ errs' = errs

BindFails(at) ==
    /\ ~canBind(at)
    /\ listeners' = [listeners EXCEPT ![at] = "error"]
    /\ errs' = errs \cup {at}
    /\ UNCHANGED <<socket, closers, loop>>

(* startUDP with a QUIC endpoint on the same socket: its goroutine is      *)
(* started before the endpoint is recorded, and the UDP loop comes last.   *)
BindQUIC(at) ==
    /\ canBind(at)
    /\ listeners' = [listeners EXCEPT ![at] = "ok"]
    /\ socket' = [socket EXCEPT ![at] = "open", ![quicOf(at)] = "open"]
    /\ closers' = closers \o <<at, quicOf(at)>>
    /\ loop' = [loop EXCEPT ![quicOf(at)] = "running"]
    /\ errs' = errs

RecordQUIC ==
    /\ pc = "recording"
    /\ LET at == Head(todo).at IN
       /\ listeners' = [listeners EXCEPT ![quicOf(at)] = "ok"]
       /\ loop' = [loop EXCEPT ![at] = "running"]
    /\ pc' = "starting" /\ todo' = Tail(todo)
    /\ UNCHANGED <<cfg, held, errs, socket, closers, taken, ctxDone, flow, conns>>

\* Mutant: the socket is left to a closer that was never registered.
QUICListenFailsOpen(at) ==
    /\ canBind(at)
    /\ listeners' = [listeners EXCEPT ![at] = "error"]
    /\ socket' = [socket EXCEPT ![at] = "open"]
    /\ errs' = errs \cup {at}
    /\ UNCHANGED <<closers, loop>>

(* The socket was bound, and its closer registered, before the endpoint failed. *)
QUICListenFails(at) ==
    /\ canBind(at)
    /\ listeners' = [listeners EXCEPT ![at] = "error"]
    /\ socket' = [socket EXCEPT ![at] = "closed"]
    /\ closers' = Append(closers, at)
    /\ errs' = errs \cup {at}
    /\ loop' = loop

StartNext ==
    /\ pc = "starting" /\ todo # <<>>
    /\ LET l == Head(todo) IN
       \/ /\ l.role = "udp" /\ cfg.quic
          /\ BindQUIC(l.at)
          /\ pc' = "recording" /\ todo' = todo
       \/ /\ IF l.role = "udp" /\ cfg.quic THEN QUICListenFails(l.at) \/ BindFails(l.at)
                                         ELSE Bind(l.at) \/ BindFails(l.at)
          /\ pc' = pc /\ todo' = Tail(todo)
    /\ UNCHANGED <<cfg, held, taken, ctxDone, flow, conns>>

Started ==
    /\ pc = "starting" /\ todo = <<>> /\ errs = {}
    /\ pc' = "up"
    /\ loop' = [loop EXCEPT ![gc] = "running"]
    /\ UNCHANGED <<startVars, listeners, socket, closers, taken, ctxDone, flow, conns>>

(***************************************************************************)
(* Close, from Start when a listener failed or from the command on SIGINT. *)
(***************************************************************************)
Close ==
    /\ \/ pc = "starting" /\ todo = <<>> /\ errs # {}
       \/ pc = "up"
    /\ pc' = "cancelled"
    /\ ctxDone' = TRUE
    /\ UNCHANGED <<startVars, listeners, socket, loop, closers, taken, flow, conns>>

TakeClosers ==
    /\ pc = "cancelled"
    /\ pc' = "closing"
    /\ taken' = closers /\ closers' = <<>>
    /\ UNCHANGED <<startVars, listeners, socket, loop, ctxDone, flow, conns>>

(* http.Server.Close closes the listeners Serve has registered; a Serve    *)
(* that comes later finds the server closed.                               *)
CloseOne ==
    /\ pc = "closing" /\ taken # <<>>
    /\ LET at == Head(taken) IN
       /\ socket' = [socket EXCEPT ![at] = IF loop[at] = "spawned" THEN "shut" ELSE "closed"]
       /\ flow' = [f \in Flows |-> IF flow[f] = [at |-> at, ph |-> "backlog"]
                                   THEN [at |-> gc, ph |-> "none"] ELSE flow[f]]
    /\ taken' = Tail(taken)
    /\ UNCHANGED <<startVars, pc, listeners, loop, closers, ctxDone, conns>>

WaitDone ==
    /\ pc = "closing" /\ taken = <<>>
    /\ \A n \in DOMAIN loop : loop[n] \in {"none", "done"}
    /\ pc' = IF errs = {} THEN "closed" ELSE "failed"
    /\ UNCHANGED <<startVars, listeners, socket, loop, closers, taken, ctxDone, flow, conns>>

(***************************************************************************)
(* The goroutines of the listeners.                                        *)
(***************************************************************************)
loopVars == <<startVars, pc, closers, taken, ctxDone>>

(* ServeTLS: registers its listener unless the server was closed. *)
ServeTLS ==
    /\ loop[control] = "spawned"
    /\ IF socket[control] = "shut"
       THEN /\ loop' = [loop EXCEPT ![control] = "done"]
            /\ socket' = [socket EXCEPT ![control] = "closed"]
       ELSE loop' = [loop EXCEPT ![control] = "running"] /\ socket' = socket
    /\ UNCHANGED <<loopVars, listeners, flow, conns>>

\* Mutant: the control API stops and nobody is told.
ServeEndsQuietly(n) ==
    /\ n \in {control} \cup {m \in DOMAIN loop : m[1] = "quic"}
    /\ loop[n] = "running"
    /\ loop' = [loop EXCEPT ![n] = "done"]
    /\ socket' = [socket EXCEPT ![n] = "closed"]
    /\ UNCHANGED <<loopVars, listeners, flow, conns>>

(* ServeTLS of the control API and ServeListener of an HTTP/3 endpoint     *)
(* return on an accept error; one that Close did not cause is recorded.    *)
ServeEnds(n) ==
    /\ n \in {control} \cup {m \in DOMAIN loop : m[1] = "quic"}
    /\ loop[n] = "running"
    /\ loop' = [loop EXCEPT ![n] = "done"]
    /\ socket' = [socket EXCEPT ![n] = "closed"]
    /\ listeners' = [listeners EXCEPT ![n] =
                        IF socket[n] = "closed" \/ (n # control /\ ctxDone) THEN @ ELSE "error"]
    /\ UNCHANGED <<loopVars, flow, conns>>

accepts(n) == n[1] = "tcp" /\ n # control

Connect(f, n) ==
    /\ flow[f].ph = "none" /\ accepts(n) /\ socket[n] = "open"
    /\ flow' = [flow EXCEPT ![f] = [at |-> n, ph |-> "backlog"]]
    /\ UNCHANGED <<loopVars, listeners, socket, loop, conns>>

acquireConn(ip) == conns[ip] < maxConnsPerIP

Accept(f) ==
    /\ flow[f].ph = "backlog" /\ loop[flow[f].at] = "running"
    /\ IF acquireConn(IpOf[f])
       THEN /\ conns' = [conns EXCEPT ![IpOf[f]] = @ + 1]
            /\ flow' = [flow EXCEPT ![f].ph = "handled"]
       ELSE /\ flow' = [flow EXCEPT ![f] = [at |-> gc, ph |-> "none"]]
            /\ conns' = conns
    /\ UNCHANGED <<loopVars, listeners, socket, loop>>

\* Mutant: an error is retried whether or not the server is closing.
AcceptErrorRetried(n) ==
    /\ accepts(n) /\ loop[n] = "running"
    /\ loop' = [loop EXCEPT ![n] = "sleeping"]
    /\ UNCHANGED <<loopVars, listeners, socket, flow, conns>>

(* Accept fails on a closed socket, or for want of descriptors: the loop    *)
(* returns if the server is closing and otherwise sleeps 50 ms.             *)
AcceptError(n) ==
    /\ accepts(n) /\ loop[n] = "running"
    /\ loop' = [loop EXCEPT ![n] = IF ctxDone THEN "done" ELSE "sleeping"]
    /\ UNCHANGED <<loopVars, listeners, socket, flow, conns>>

Wake(n) ==
    /\ loop[n] = "sleeping"
    /\ loop' = [loop EXCEPT ![n] = "running"]
    /\ UNCHANGED <<loopVars, listeners, socket, flow, conns>>

(* A UDP loop goes on after an error unless the server is closing. *)
ReadError(n) ==
    /\ n[1] = "udp" /\ loop[n] = "running" /\ ctxDone
    /\ loop' = [loop EXCEPT ![n] = "done"]
    /\ UNCHANGED <<loopVars, listeners, socket, flow, conns>>

gcStops ==
    /\ loop[gc] = "running" /\ ctxDone
    /\ loop' = [loop EXCEPT ![gc] = "done"]
    /\ UNCHANGED <<loopVars, listeners, socket, flow, conns>>

(***************************************************************************)
(* A flow: its handler holds one of the address's places until it returns, *)
(* and the life timer closes the connection under it after maxConnLife.    *)
(***************************************************************************)
\* Mutant: the timer fires and closes nothing.
LifeTimerStopped(f) == flow[f].ph = "handled" /\ UNCHANGED vars

LifeTimer(f) ==
    /\ flow[f].ph = "handled"
    /\ flow' = [flow EXCEPT ![f].ph = "cut"]
    /\ UNCHANGED <<loopVars, listeners, socket, loop, conns>>

\* Mutant: the place of a flow the timer closed is not given back.
handleTCPLeaky(f) ==
    /\ flow[f].ph \in {"handled", "cut"}
    /\ flow' = [flow EXCEPT ![f] = [at |-> gc, ph |-> "none"]]
    /\ conns' = [conns EXCEPT ![IpOf[f]] = IF flow[f].ph = "cut" THEN @ ELSE @ - 1]
    /\ UNCHANGED <<loopVars, listeners, socket, loop>>

(* handleTCP returns, by itself or because its connection was closed, and  *)
(* releaseConn runs.                                                       *)
handleTCP(f) ==
    /\ flow[f].ph \in {"handled", "cut"}
    /\ flow' = [flow EXCEPT ![f] = [at |-> gc, ph |-> "none"]]
    /\ conns' = [conns EXCEPT ![IpOf[f]] = @ - 1]
    /\ UNCHANGED <<loopVars, listeners, socket, loop>>

(* The program ends when the command's Close, or the Start that failed, returns. *)
Running == pc \notin {"closed", "failed"}

Next ==
    \/ StartNext \/ RecordQUIC \/ Started \/ Close \/ TakeClosers \/ CloseOne \/ WaitDone
    \/ Running /\ ServeTLS
    \/ Running /\ gcStops
    \/ \E n \in DOMAIN loop : Running /\ (ServeEnds(n) \/ AcceptError(n) \/ Wake(n) \/ ReadError(n))
    \/ \E f \in Flows : Running /\ (Accept(f) \/ LifeTimer(f) \/ handleTCP(f) \/ \E n \in DOMAIN loop : Connect(f, n))

Spec == Init /\ [][Next]_vars

(* A goroutine that can run does: an accept or a read on a closed socket   *)
(* returns, one on an open socket may block.  A timer that is set fires,    *)
(* and a handler whose connection was closed returns.  Nobody has to call   *)
(* Close.                                                                   *)
FairSpec ==
    /\ Spec
    /\ WF_vars(StartNext \/ RecordQUIC \/ Started \/ TakeClosers \/ CloseOne \/ WaitDone \/ (Close /\ pc = "starting"))
    /\ WF_vars(Running /\ ServeTLS) /\ WF_vars(Running /\ gcStops)
    /\ \A n \in UNION {Names(c) : c \in Configs} :
          WF_vars(/\ Running /\ n \in DOMAIN loop
                  /\ \/ Wake(n)
                     \/ socket[n] # "open" /\ (ServeEnds(n) \/ AcceptError(n) \/ ReadError(n)))
    /\ \A f \in Flows :
          /\ WF_vars(Running /\ LifeTimer(f))
          /\ WF_vars(Running /\ flow[f].ph = "cut" /\ handleTCP(f))

(***************************************************************************)
(* Properties.                                                             *)
(***************************************************************************)
(* acquireConn and releaseConn keep Server.conns equal to the number of     *)
(* handlers running for the address, never above the limit, whatever ended  *)
(* each of them: no place is lost, and none is given twice.                 *)
ConnsExact ==
    \A ip \in IPs :
        /\ conns[ip] = Cardinality({f \in Flows : IpOf[f] = ip /\ flow[f].ph \in {"handled", "cut"}})
        /\ conns[ip] <= maxConnsPerIP

(* When Start returns an error, or Close returns, no socket of the server  *)
(* is open and no goroutine of a listener is left, whatever had been bound *)
(* before the failure and however far each goroutine had got.              *)
FailsClosed ==
    pc \in {"closed", "failed"} =>
        \A n \in DOMAIN loop : socket[n] \in {"none", "closed"} /\ loop[n] \in {"none", "done"}

(* While the server runs, a socket that GET /v1/health reports as ok is    *)
(* bound and has a goroutine serving it.  A QUIC endpoint is left out: one *)
(* that ends before startUDP records it is recorded as ok all the same.    *)
HealthHonest ==
    pc = "up" => \A n \in DOMAIN loop :
        listeners[n] = "ok" /\ n[1] # "quic" => socket[n] = "open" /\ loop[n] \in {"spawned", "running", "sleeping"}

(* A Close that has begun returns: every goroutine it waits for finds the   *)
(* context cancelled and its socket closed, also one that was asleep after  *)
(* an accept error and one that had not begun to serve.                     *)
CloseReturns == pc \in {"cancelled", "closing"} ~> ~Running

(* An address that has used up its places gets one back while the server    *)
(* runs, even from peers that never hang up: the life timer ends any flow.  *)
RoomAgain == \A ip \in IPs : conns[ip] = maxConnsPerIP ~> (conns[ip] < maxConnsPerIP \/ ~Running)
=============================================================================
