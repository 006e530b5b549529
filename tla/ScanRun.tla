------------------------------ MODULE ScanRun ------------------------------
(***************************************************************************)
(* The client's scan (internal/client/run.go) and the progress it shows    *)
(* (engine/engine.go).  A scan is a series of phases: the first rounds,    *)
(* the retry rounds of port groups that failed, the serial tail, its own   *)
(* retries, and the fetch of the server's observations.  In a phase the    *)
(* producer hands jobs to workers over an unbuffered channel; Stop or the  *)
(* scan deadline may end the context at any time.                          *)
(*                                                                         *)
(* A plan is its index in the catalog.  An attempt's work is its outcome:  *)
(* "ok", "skipped" or "fail", a panic being a failure.                     *)
(***************************************************************************)
EXTENDS Integers, FiniteSets

CONSTANTS
    Plans,       \* indices into the catalog
    Last,        \* the plans of the serial tail
    Provoking,   \* tls.burst that is no control: tailRank 2
    BurstControl,\* tls.burst controls: tailRank 1
    Group,       \* port group of a plan
    serial,      \* reservation pool of a plan, or NoPool
    TestID,
    NoPool,
    Repeat, Retry, Parallel,
    standalone,  \* the real-destinations family alone: no server to ask
    CanFetch     \* the control point answers whenever it is asked in time

ASSUME ScanConstants ==
    /\ Plans \subseteq Nat /\ IsFiniteSet(Plans)
    /\ Last \subseteq Plans
    /\ Provoking \cup BurstControl \subseteq Last
    /\ Provoking \cap BurstControl = {}
    /\ \A p \in Last, q \in Plans \ Last : TestID[p] # TestID[q]
    /\ {Repeat, Parallel} \subseteq Nat \ {0}
    /\ Retry \in Nat
    /\ {standalone, CanFetch} \subseteq BOOLEAN

VARIABLES
    phase,     \* where Run is
    todo,      \* jobs of the phase not handed over yet
    open,      \* the channel is not closed
    worker,
    held,      \* the pools whose mutex is locked
    attempts,
    done, total,
    foreseen,  \* <<last, group>> whose retries are in total already
    foretold,  \* retries added to total so far
    stop,      \* ctx.Err()
    grace,     \* the fetch runs in a window of its own
    merged,
    bar        \* the embedder's progress bar: [done, total]

scanVars == <<phase, todo, open, worker, held, attempts, done, total,
              foreseen, foretold, stop, grace, merged, bar>>

Workers == 1..Parallel

Phases == {"jobs", "retries", "tail", "tailRetries"}

Groups == {Group[p] : p \in Plans}

Job == [p : Plans, r : 1..(Repeat + Retry)]

Outcomes == {"ok", "skipped", "fail"}

Attempt == [job : Job, out : Outcomes, cut : BOOLEAN]

InLoop == [pc |-> "range"]

Gone == [pc |-> "gone"]

WorkerState ==
    {InLoop, Gone}
        \cup [pc : {"ready", "running"}, job : Job]
        \cup [pc : {"ran", "judged"}, job : Job, out : Outcomes, cut : BOOLEAN]
        \cup [pc : {"report"}, d : Nat, t : Int]

TypeOK ==
    /\ phase \in Phases \cup {"collect", "fetch", "returned"}
    /\ todo \subseteq Job
    /\ open \in BOOLEAN
    /\ worker \in [Workers -> WorkerState]
    /\ held \subseteq {serial[p] : p \in Plans} \ {NoPool}
    /\ attempts \subseteq Attempt
    /\ done \in Nat
    /\ total \in Int
    /\ foreseen \subseteq BOOLEAN \X Groups
    /\ foretold \in [BOOLEAN -> Nat]
    /\ stop \in {"no", "stopped", "deadline"}
    /\ grace \in BOOLEAN
    /\ merged \in BOOLEAN
    /\ bar \in [done : Nat, total : Nat]

----------------------------------------------------------------------------
(* The jobs of a phase and their order. *)

PlansOf(last, g) == {p \in Plans : (p \in Last) = last /\ Group[p] = g}

FirstRounds(last) == {j \in Job : j.r <= Repeat /\ (j.p \in Last) = last}

Failed(a) == a.out = "fail"

lastTests == {TestID[p] : p \in Last}

\* Everything that ran counts for the first retries, the tail's tests for its own.
failedGroups(last) ==
    {Group[a.job.p] : a \in {b \in attempts : /\ Failed(b)
                                              /\ last => TestID[b.job.p] \in lastTests}}

retryRounds(last) ==
    {j \in Job : /\ j.r > Repeat
                 /\ (j.p \in Last) = last
                 /\ Group[j.p] \in failedGroups(last)}

\* Mutant: the tail keeps the order of the catalog.
tailRankFlat(p) == 0

tailRank(p) == IF p \in BurstControl THEN 1 ELSE IF p \in Provoking THEN 2 ELSE 0

\* Rounds are shuffled one by one; the tail is sorted by rank over all its rounds, its
\* retries by rank within each.
Before(j, k) ==
    CASE phase = "tail" ->
            \/ tailRank(j.p) < tailRank(k.p)
            \/ tailRank(j.p) = tailRank(k.p) /\ j.r < k.r
            \/ tailRank(j.p) = tailRank(k.p) /\ j.r = k.r /\ j.p < k.p
      [] phase = "tailRetries" ->
            \/ j.r < k.r
            \/ j.r = k.r /\ tailRank(j.p) < tailRank(k.p)
            \/ j.r = k.r /\ tailRank(j.p) = tailRank(k.p) /\ j.p < k.p
      [] OTHER -> j.r < k.r

\* What the producer may offer next.
Offered == {j \in todo : ~\E k \in todo : Before(k, j)}

----------------------------------------------------------------------------
(* runPhase. *)

\* Mutant: every phase gets all workers.
StartPhaseWide(ph, js, parallel) ==
    /\ phase' = ph
    /\ todo' = js
    /\ open' = (js # {})
    /\ worker' = [w \in Workers |-> InLoop]

\* The part of it before the hand-over: fresh workers and a fresh channel.
StartPhase(ph, js, parallel) ==
    /\ phase' = ph
    /\ todo' = js
    /\ open' = (js # {})
    /\ worker' = [w \in Workers |-> IF w <= parallel THEN InLoop ELSE Gone]

AllGone == \A w \in Workers : worker[w] = Gone

Init ==
    /\ phase = "jobs"
    /\ todo = FirstRounds(FALSE)
    /\ open = (todo # {})
    /\ worker = [w \in Workers |-> InLoop]
    /\ held = {}
    /\ attempts = {}
    /\ done = 0
    /\ total = Cardinality(FirstRounds(FALSE)) + Cardinality(FirstRounds(TRUE))
    /\ foreseen = {}
    /\ foretold = [last \in BOOLEAN |-> 0]
    /\ stop = "no"
    /\ grace = FALSE
    /\ merged = FALSE
    /\ bar = [done |-> 0, total |-> 0]

\* select takes either ready case, so a job can still be handed over after the context
\* ended; the worker then drops it and leaves, and the producer breaks.
HandOver(w, j) ==
    /\ phase \in Phases /\ open
    /\ worker[w] = InLoop
    /\ j \in Offered
    /\ todo' = IF stop = "no" THEN todo \ {j} ELSE {}
    /\ open' = (todo' # {})
    /\ worker' = [worker EXCEPT ![w] =
                    IF stop = "no" THEN [pc |-> "ready", job |-> j] ELSE Gone]
    /\ UNCHANGED <<phase, held, attempts, done, total, foreseen, foretold,
                   stop, grace, merged, bar>>

\* Mutant: the producer gives up while the context is alive.
GiveUpEarly ==
    /\ phase \in Phases /\ open
    /\ todo' = {}
    /\ open' = FALSE
    /\ UNCHANGED <<phase, worker, held, attempts, done, total, foreseen, foretold,
                   stop, grace, merged, bar>>

\* <-ctx.Done()
GiveUp ==
    /\ phase \in Phases /\ open
    /\ stop # "no"
    /\ todo' = {}
    /\ open' = FALSE
    /\ UNCHANGED <<phase, worker, held, attempts, done, total, foreseen, foretold,
                   stop, grace, merged, bar>>

----------------------------------------------------------------------------
(* worker. *)

\* The channel is closed and drained.
Leave(w) ==
    /\ worker[w] = InLoop
    /\ ~open
    /\ worker' = [worker EXCEPT ![w] = Gone]
    /\ UNCHANGED <<phase, todo, open, held, attempts, done, total, foreseen, foretold,
                   stop, grace, merged, bar>>

\* Mutant: the pool's mutex is not waited for.
StartUnlocked(w) ==
    LET m == serial[worker[w].job.p] IN
    /\ worker[w].pc = "ready"
    /\ held' = IF m = NoPool THEN held ELSE held \cup {m}
    /\ worker' = [worker EXCEPT ![w].pc = "running"]
    /\ UNCHANGED <<phase, todo, open, attempts, done, total, foreseen, foretold,
                   stop, grace, merged, bar>>

\* After the jitter: lock the plan's pool and run.
Start(w) ==
    LET m == serial[worker[w].job.p] IN
    /\ worker[w].pc = "ready"
    /\ m \notin held
    /\ held' = IF m = NoPool THEN held ELSE held \cup {m}
    /\ worker' = [worker EXCEPT ![w].pc = "running"]
    /\ UNCHANGED <<phase, todo, open, attempts, done, total, foreseen, foretold,
                   stop, grace, merged, bar>>

\* Mutant: an attempt that fails leaves its pool locked.
FinishLocked(w, out) ==
    LET j == worker[w].job IN
    /\ worker[w].pc = "running"
    /\ held' = IF out = "fail" THEN held ELSE held \ {serial[j.p]}
    /\ worker' = [worker EXCEPT ![w] =
                    [pc |-> "ran", job |-> j, out |-> out, cut |-> stop # "no"]]
    /\ UNCHANGED <<phase, todo, open, attempts, done, total, foreseen, foretold,
                   stop, grace, merged, bar>>

\* run returns or panics; either way the pool is unlocked.  cut records whether the
\* context had ended while it was in flight.
Finish(w, out) ==
    LET j == worker[w].job IN
    /\ worker[w].pc = "running"
    /\ held' = held \ {serial[j.p]}
    /\ worker' = [worker EXCEPT ![w] =
                    [pc |-> "ran", job |-> j, out |-> out, cut |-> stop # "no"]]
    /\ UNCHANGED <<phase, todo, open, attempts, done, total, foreseen, foretold,
                   stop, grace, merged, bar>>

\* Mutant: an attempt that failed after the scan stopped keeps its outcome.
JudgeNothing(w) ==
    /\ worker[w].pc = "ran"
    /\ worker' = [worker EXCEPT ![w].pc = "judged"]
    /\ UNCHANGED <<phase, todo, open, held, attempts, done, total, foreseen, foretold,
                   stop, grace, merged, bar>>

Judge(w) ==
    LET x == worker[w] IN
    /\ x.pc = "ran"
    /\ worker' = [worker EXCEPT ![w] =
                    [pc |-> "judged", job |-> x.job, cut |-> x.cut,
                     out |-> IF stop # "no" /\ x.out # "ok" THEN "skipped" ELSE x.out]]
    /\ UNCHANGED <<phase, todo, open, held, attempts, done, total, foreseen, foretold,
                   stop, grace, merged, bar>>

\* The failure is the first of its group and kind in the rounds that count.
Foretells(a, k) ==
    /\ Retry > 0
    /\ a.job.r <= Repeat
    /\ Failed(a)
    /\ k \notin foreseen

\* The critical section of mu.
Count(w) ==
    LET a == [job |-> worker[w].job, out |-> worker[w].out, cut |-> worker[w].cut]
        k == <<a.job.p \in Last, Group[a.job.p]>>
        n == IF Foretells(a, k) THEN Retry * Cardinality(PlansOf(k[1], k[2])) ELSE 0
    IN
    /\ worker[w].pc = "judged"
    /\ attempts' = attempts \cup {a}
    /\ done' = done + 1
    /\ foreseen' = IF Foretells(a, k) THEN foreseen \cup {k} ELSE foreseen
    /\ foretold' = [foretold EXCEPT ![k[1]] = @ + n]
    /\ total' = total + n
    /\ worker' = [worker EXCEPT ![w] = [pc |-> "report", d |-> done', t |-> total']]
    /\ UNCHANGED <<phase, todo, open, held, stop, grace, merged, bar>>

\* progress, outside mu: engine.Run's closure under a mutex of its own, which counts the
\* deliveries itself.
Deliver(w) ==
    LET delivered == bar.done + 1
        most == IF worker[w].t > bar.total THEN worker[w].t ELSE bar.total
    IN
    /\ worker[w].pc = "report"
    /\ bar' = [done |-> delivered, total |-> IF delivered > most THEN delivered ELSE most]
    /\ worker' = [worker EXCEPT ![w] = InLoop]
    /\ UNCHANGED <<phase, todo, open, held, attempts, done, total, foreseen, foretold,
                   stop, grace, merged>>

----------------------------------------------------------------------------
(* Run's own thread, and the context. *)

\* retryRounds puts the real number in place of the one foretold.
Reconciled(last) == total + Cardinality(retryRounds(last)) - foretold[last]

RetryDue == Retry > 0 /\ stop = "no"

EndJobs ==
    /\ phase = "jobs" /\ AllGone
    /\ total' = IF RetryDue THEN Reconciled(FALSE) ELSE total
    /\ IF RetryDue /\ retryRounds(FALSE) # {}
       THEN StartPhase("retries", retryRounds(FALSE), Parallel)
       ELSE StartPhase("tail", FirstRounds(TRUE), 1)
    /\ UNCHANGED <<held, attempts, done, foreseen, foretold, stop, grace, merged, bar>>

EndRetries ==
    /\ phase = "retries" /\ AllGone
    /\ StartPhase("tail", FirstRounds(TRUE), 1)
    /\ UNCHANGED <<held, attempts, done, total, foreseen, foretold, stop, grace, merged, bar>>

EndTail ==
    LET again == RetryDue /\ FirstRounds(TRUE) # {} IN
    /\ phase = "tail" /\ AllGone
    /\ total' = IF again THEN Reconciled(TRUE) ELSE total
    /\ IF again /\ retryRounds(TRUE) # {}
       THEN StartPhase("tailRetries", retryRounds(TRUE), 1)
       ELSE phase' = "collect" /\ UNCHANGED <<todo, open, worker>>
    /\ UNCHANGED <<held, attempts, done, foreseen, foretold, stop, grace, merged, bar>>

EndTailRetries ==
    /\ phase = "tailRetries" /\ AllGone
    /\ phase' = "collect"
    /\ UNCHANGED <<todo, open, worker, held, attempts, done, total, foreseen, foretold,
                   stop, grace, merged, bar>>

\* A standalone scan is merged with nothing; otherwise the fetch gets its context, which
\* is a new one if the deadline has already passed.
Collect ==
    /\ phase = "collect"
    /\ phase' = IF standalone THEN "returned" ELSE "fetch"
    /\ merged' = standalone
    /\ grace' = (~standalone /\ stop = "deadline")
    /\ UNCHANGED <<todo, open, worker, held, attempts, done, total, foreseen, foretold,
                   stop, bar>>

\* Observations after the pause for lingering flows, and the merge if they came.
Fetch(ok) ==
    /\ phase = "fetch"
    /\ ok => grace \/ stop = "no"
    /\ ~ok => ~CanFetch \/ (~grace /\ stop # "no")
    /\ phase' = "returned"
    /\ merged' = ok
    /\ UNCHANGED <<todo, open, worker, held, attempts, done, total, foreseen, foretold,
                   stop, grace, bar>>

\* The caller's Stop, or the scan deadline.
EndContext(why) ==
    /\ phase # "returned"
    /\ stop = "no"
    /\ stop' = why
    /\ UNCHANGED <<phase, todo, open, worker, held, attempts, done, total, foreseen,
                   foretold, grace, merged, bar>>

Step(w) ==
    \/ \E j \in Job : HandOver(w, j)
    \/ Leave(w)
    \/ Start(w)
    \/ \E out \in Outcomes : Finish(w, out)
    \/ Judge(w)
    \/ Count(w)
    \/ Deliver(w)

Main ==
    \/ GiveUp
    \/ EndJobs
    \/ EndRetries
    \/ EndTail
    \/ EndTailRetries
    \/ Collect
    \/ \E ok \in BOOLEAN : Fetch(ok)

Next ==
    \/ \E w \in Workers : Step(w)
    \/ Main
    \/ \E why \in {"stopped", "deadline"} : EndContext(why)

Spec == Init /\ [][Next]_scanVars

\* The scheduler runs every goroutine that can run; run and the fetch return, their
\* contexts being bounded in time.  Nothing is assumed of the embedder's Stop.
FairSpec ==
    /\ Spec
    /\ WF_scanVars(Main)
    /\ \A w \in Workers : WF_scanVars(Step(w))

----------------------------------------------------------------------------
(* Properties. *)

\* worker: attempts that draw from one reservation pool never run at the same time,
\* through every phase, panic and cancellation.
PoolExclusive ==
    \A v, w \in Workers :
        (v # w /\ worker[v].pc = "running" /\ worker[w].pc = "running")
            => \/ serial[worker[v].job.p] # serial[worker[w].job.p]
               \/ serial[worker[v].job.p] = NoPool

\* "The tail runs alone and serially: nothing else must be in flight while a rate rule is
\* being provoked".
TailAlone ==
    \A v, w \in Workers :
        (worker[w].pc = "running" /\ worker[w].job.p \in Last)
            => v = w \/ worker[v] = Gone

\* The stable sort of the tail: no burst control of the first rounds runs once a provoking
\* burst has.
ControlsBeforeBursts ==
    \A w \in Workers :
        (phase = "tail" /\ worker[w].pc = "running" /\ worker[w].job.p \in BurstControl)
            => \A a \in attempts : a.job.p \notin Provoking

\* "An attempt in flight when the scan stopped failed because of that, not because of the
\* path": it never counts as a failure, so it foretells no retry and reaches no cell.
CancelledNotBlamed == \A a \in attempts : a.cut => ~Failed(a)

\* No job runs twice, whatever workers and phases make of it, and done counts them.
JobsOnce ==
    /\ \A a, b \in attempts : a.job = b.job => a = b
    /\ done = Cardinality(attempts)

\* The jobs of a scan that nobody stopped: the first rounds, and all retry rounds of a
\* group for the plans of the kind (tail or not) that failed in it, controls included.
Expected(results) ==
    LET failed == {<<a.job.p \in Last, Group[a.job.p]>> : a \in {b \in results : Failed(b)}} IN
    {j \in Job : j.r <= Repeat \/ <<j.p \in Last, Group[j.p]>> \in failed}

\* engine.Run: "a progress bar only moves forward", although workers deliver their
\* counters out of order.
BarForward ==
    [][/\ bar'.done >= bar.done
       /\ bar'.total >= bar.total
       /\ bar'.done <= bar'.total]_scanVars

\* Run returns, whenever and however the context ends and whichever attempts panic.
ScanReturns == <>(phase = "returned")


Promise == INSTANCE Progress WITH
    Jobs <- Job, Owed <- Expected,
    results <- attempts, stopped <- stop # "no", over <- phase = "returned"

\* Run keeps what the embedder is promised: one result per job, a bar that moves forward
\* and reaches the last result, every round a scan that nobody stopped owes, and nothing
\* cancelled reported as failed.
ScanPromise == Promise!Spec
=============================================================================
