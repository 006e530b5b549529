--------------------------- MODULE ScanRunProofs ---------------------------
(***************************************************************************)
(* Theorems about ScanRun, for any catalog and any number of workers: its  *)
(* invariants, and at the end that it implements Progress.                 *)
(***************************************************************************)
EXTENDS ScanRun, FiniteSetTheorems, TLAPS

----------------------------------------------------------------------------
(* The inductive invariant. *)

\* The phase a job belongs to, and the phases whose jobs may have been counted.
Stage(j) ==
    IF j.p \in Last THEN IF j.r <= Repeat THEN "tail" ELSE "tailRetries"
    ELSE IF j.r <= Repeat THEN "jobs" ELSE "retries"

UpTo(ph) ==
    IF ph = "jobs" THEN {"jobs"}
    ELSE IF ph = "retries" THEN {"jobs", "retries"}
    ELSE IF ph = "tail" THEN {"jobs", "retries", "tail"}
    ELSE Phases

Busy(w) == worker[w].pc \in {"ready", "running", "ran", "judged"}

\* A job is in the list, with one worker, or counted: never in two places.
Placed ==
    /\ \A j \in todo : Stage(j) = phase
    /\ \A w \in Workers : Busy(w) => worker[w].job \notin todo /\ Stage(worker[w].job) = phase
    /\ \A v, w \in Workers : (v # w /\ Busy(v) /\ Busy(w)) => worker[v].job # worker[w].job
    /\ \A a \in attempts : a.job \notin todo /\ Stage(a.job) \in UpTo(phase)
    /\ \A a \in attempts, w \in Workers : Busy(w) => a.job # worker[w].job
    /\ \A a, b \in attempts : a.job = b.job => a = b

\* The channel is closed with its last job, and somebody is there to take one until then.
Draining == (open <=> todo # {}) /\ (open => worker[1] # Gone)

Counted == IsFiniteSet(attempts) /\ done = Cardinality(attempts)

\* From the tail on at most the first worker is there; after it, none.
Serial ==
    /\ phase \notin {"jobs", "retries"} => \A w \in Workers : w # 1 => worker[w] = Gone
    /\ phase \notin Phases => AllGone

\* A running attempt of a pool holds the pool's mutex.
Locked ==
    \A w \in Workers : worker[w].pc = "running" =>
        serial[worker[w].job.p] = NoPool \/ serial[worker[w].job.p] \in held

Judged ==
    \A w \in Workers :
        /\ (worker[w].pc = "ran" /\ worker[w].cut) => stop # "no"
        /\ (worker[w].pc = "judged" /\ worker[w].cut) => worker[w].out # "fail"

BarSound == bar.done <= bar.total

ScanInv ==
    /\ TypeOK /\ Placed /\ Draining /\ Counted /\ Serial /\ Locked /\ PoolExclusive
    /\ Judged /\ CancelledNotBlamed /\ BarSound

----------------------------------------------------------------------------
(* Constants and worker states. *)

\* Membership of pairs, for components the provers treat differently.
LEMMA PairIn ==
    ASSUME NEW A, NEW B, NEW x \in A, NEW y \in B
    PROVE  <<x, y>> \in A \X B /\ <<x, y>>[1] = x /\ <<x, y>>[2] = y
OBVIOUS

\* What the types of the constants give.
LEMMA ConstantTypes ==
    /\ Plans \subseteq Nat /\ IsFiniteSet(Plans)
    /\ Last \subseteq Plans
    /\ Repeat \in Nat /\ Retry \in Nat /\ Parallel \in Nat /\ Parallel # 0
    /\ standalone \in BOOLEAN
    /\ Workers \subseteq Nat
BY ScanConstants DEF Workers

\* The catalog is finite, so is every set of jobs.
LEMMA JobsFinite ==
    ASSUME NEW S \in SUBSET Job
    PROVE  IsFiniteSet(S) /\ Cardinality(S) \in Nat
<1> DEFINE R == 1..(Repeat + Retry)
           f == [x \in Plans \X R |-> [p |-> x[1], r |-> x[2]]]
<1>1. IsFiniteSet(R)
  BY ConstantTypes, FS_Interval
<1>2. IsFiniteSet(Plans \X R)
  BY <1>1, ConstantTypes, FS_Product, Zenon
<1>3. f \in Surjection(Plans \X R, Job)
  <2>1. f \in [Plans \X R -> Job]
    BY Zenon DEF Job
  <2>2. ASSUME NEW j \in Job
        PROVE  \E x \in Plans \X R : f[x] = j
    <3>1. <<j.p, j.r>> \in Plans \X R
      BY Zenon DEF Job
    <3>2. f[<<j.p, j.r>>] = j
      BY <3>1, Zenon DEF Job
    <3> QED
      BY <3>1, <3>2, Zenon
  <2> QED
    BY <2>1, <2>2, Zenon DEF Surjection
<1>4. IsFiniteSet(Job)
  BY <1>2, <1>3, FS_Surjection, Zenon
<1> QED
  BY <1>4, FS_Subset, FS_CardinalityType, Zenon

\* A set of plans is finite.
LEMMA PlansFinite ==
    ASSUME NEW last, NEW g
    PROVE  IsFiniteSet(PlansOf(last, g)) /\ Cardinality(PlansOf(last, g)) \in Nat
<1>1. PlansOf(last, g) \in SUBSET Plans
  BY Zenon DEF PlansOf
<1> QED
  BY <1>1, ConstantTypes, FS_Subset, FS_CardinalityType, Zenon

\* What a worker's program counter says about the rest of its state.
LEMMA WorkerShape ==
    ASSUME NEW x \in WorkerState
    PROVE  /\ x.pc \in {"range", "gone", "ready", "running", "ran", "judged", "report"}
           /\ x.pc = "range" => x = InLoop
           /\ x.pc = "gone" => x = Gone
           /\ x.pc \in {"ready", "running"} => x = [pc |-> x.pc, job |-> x.job] /\ x.job \in Job
           /\ x.pc \in {"ran", "judged"} =>
                /\ x = [pc |-> x.pc, job |-> x.job, out |-> x.out, cut |-> x.cut]
                /\ x.job \in Job /\ x.out \in Outcomes /\ x.cut \in BOOLEAN
           /\ x.pc = "report" => x.d \in Nat /\ x.t \in Int
BY DEF WorkerState, InLoop, Gone

\* The states a worker can be put into.
LEMMA WorkerMake ==
    /\ InLoop \in WorkerState /\ Gone \in WorkerState
    /\ \A pc \in {"ready", "running"}, j \in Job : [pc |-> pc, job |-> j] \in WorkerState
    /\ \A pc \in {"ran", "judged"}, j \in Job, out \in Outcomes, cut \in BOOLEAN :
          [pc |-> pc, job |-> j, out |-> out, cut |-> cut] \in WorkerState
    /\ \A d \in Nat, t \in Int : [pc |-> "report", d |-> d, t |-> t] \in WorkerState
BY DEF WorkerState

----------------------------------------------------------------------------
(* The new worker states, in full. *)

\* A worker that locked its pool is running the same job.
LEMMA StartForm ==
    ASSUME TypeOK, NEW w \in Workers, Start(w)
    PROVE  /\ worker[w].job \in Job
           /\ worker' = [worker EXCEPT ![w] = [pc |-> "running", job |-> worker[w].job]]
<1>1. worker[w] \in WorkerState /\ worker[w].pc = "ready"
  BY Zenon DEF TypeOK, Start
<1>2. worker[w] = [pc |-> worker[w].pc, job |-> worker[w].job] /\ worker[w].job \in Job
  BY <1>1, WorkerShape, Zenon
<1>3. [worker[w] EXCEPT !.pc = "running"] = [pc |-> "running", job |-> worker[w].job]
  BY <1>2
<1>4. worker' = [worker EXCEPT ![w] = [worker[w] EXCEPT !.pc = "running"]]
  BY Zenon DEF Start
<1> QED
  BY <1>2, <1>3, <1>4, Zenon

\* A judged worker keeps its job and whether the context had ended.
LEMMA JudgeForm ==
    ASSUME TypeOK, NEW w \in Workers, Judge(w)
    PROVE  \E out \in Outcomes :
              /\ out \in {worker[w].out, "skipped"}
              /\ stop # "no" => out # "fail"
              /\ worker[w].job \in Job /\ worker[w].cut \in BOOLEAN
              /\ worker' = [worker EXCEPT ![w] = [pc |-> "judged", job |-> worker[w].job,
                                                  out |-> out, cut |-> worker[w].cut]]
<1> DEFINE out == IF stop # "no" /\ worker[w].out # "ok" THEN "skipped" ELSE worker[w].out
           x == worker[w]
<1>1. x \in WorkerState /\ x.pc = "ran"
  BY Zenon DEF TypeOK, Judge
<1>2. /\ x = [pc |-> x.pc, job |-> x.job, out |-> x.out, cut |-> x.cut]
      /\ x.job \in Job /\ x.out \in Outcomes /\ x.cut \in BOOLEAN
  BY <1>1, WorkerShape, Zenon
<1>3. out \in Outcomes /\ out \in {x.out, "skipped"} /\ (stop # "no" => out # "fail")
  BY <1>2, Zenon DEF Outcomes
<1>4. worker' = [worker EXCEPT ![w] = [pc |-> "judged", job |-> worker[w].job,
                                       out |-> out, cut |-> worker[w].cut]]
  BY Zenon DEF Judge
<1> HIDE DEF out
<1> QED
  BY <1>2, <1>3, <1>4, Zenon

----------------------------------------------------------------------------
(* Type correctness. *)

\* A scan starts well typed.
LEMMA InitType == Init => TypeOK
<1> SUFFICES ASSUME Init PROVE TypeOK
  BY Zenon
<1>1. FirstRounds(FALSE) \in SUBSET Job /\ FirstRounds(TRUE) \in SUBSET Job
  BY Zenon DEF FirstRounds
<1>2. total \in Int
  <2>1. Cardinality(FirstRounds(FALSE)) \in Nat /\ Cardinality(FirstRounds(TRUE)) \in Nat
    BY <1>1, JobsFinite, Zenon
  <2>2. total = Cardinality(FirstRounds(FALSE)) + Cardinality(FirstRounds(TRUE))
    BY Zenon DEF Init
  <2>3. \A m, n \in Nat : m + n \in Int
    OBVIOUS
  <2> QED
    BY <2>1, <2>2, <2>3, Zenon
<1> QED
  BY <1>1, <1>2, WorkerMake, Zenon DEF Init, TypeOK, Phases

\* The jobs of a phase are jobs.
LEMMA RetryJobs ==
    ASSUME NEW last \in BOOLEAN
    PROVE  /\ retryRounds(last) \in SUBSET Job
           /\ FirstRounds(last) \in SUBSET Job
           /\ Cardinality(retryRounds(last)) \in Nat
<1>1. retryRounds(last) \in SUBSET Job /\ FirstRounds(last) \in SUBSET Job
  BY Zenon DEF retryRounds, FirstRounds
<1> QED
  BY <1>1, JobsFinite, Zenon

\* A phase starts well typed if its jobs are jobs.
LEMMA StartPhaseType ==
    ASSUME NEW ph \in Phases, NEW js \in SUBSET Job, NEW n, StartPhase(ph, js, n)
    PROVE  /\ phase' \in Phases
           /\ todo' \subseteq Job
           /\ open' \in BOOLEAN
           /\ worker' \in [Workers -> WorkerState]
BY WorkerMake DEF StartPhase

\* Every step of a worker keeps the types.
LEMMA StepType ==
    ASSUME TypeOK, NEW w \in Workers, Step(w)
    PROVE  TypeOK'
<1> USE DEF TypeOK
<1>0. worker[w] \in WorkerState
  BY Zenon
<1>1. CASE \E j \in Job : HandOver(w, j)
  <2>1. PICK j \in Job : HandOver(w, j)
    BY <1>1, Zenon
  <2>2. worker' \in [Workers -> WorkerState]
    BY <2>1, WorkerMake, Zenon DEF HandOver
  <2> QED
    BY <2>1, <2>2, Zenon DEF HandOver
<1>2. CASE Leave(w)
  BY <1>2, WorkerMake, Zenon DEF Leave
<1>3. CASE Start(w)
  <2>1. worker[w].job \in Job
    BY <1>3, StartForm, Zenon
  <2>2. worker' \in [Workers -> WorkerState]
    BY <1>3, StartForm, WorkerMake
  <2>3. held' \subseteq {serial[p] : p \in Plans} \ {NoPool}
    BY <1>3, <2>1, Zenon DEF Start, Job
  <2> QED
    BY <1>3, <2>2, <2>3, Zenon DEF Start
<1>4. CASE \E out \in Outcomes : Finish(w, out)
  <2>1. PICK out \in Outcomes : Finish(w, out)
    BY <1>4, Zenon
  <2>2. worker[w].job \in Job
    BY <2>1, <1>0, WorkerShape, Zenon DEF Finish
  <2>3. worker' \in [Workers -> WorkerState]
    BY <2>1, <2>2, WorkerMake, Zenon DEF Finish
  <2> QED
    BY <2>1, <2>3, Zenon DEF Finish
<1>5. CASE Judge(w)
  <2>1. worker' \in [Workers -> WorkerState]
    BY <1>5, JudgeForm, WorkerMake
  <2> QED
    BY <1>5, <2>1, Zenon DEF Judge
<1>6. CASE Count(w)
  <2> DEFINE a == [job |-> worker[w].job, out |-> worker[w].out, cut |-> worker[w].cut]
             k == <<a.job.p \in Last, Group[a.job.p]>>
             n == IF Foretells(a, k) THEN Retry * Cardinality(PlansOf(k[1], k[2])) ELSE 0
  <2>1. worker[w].job \in Job /\ worker[w].out \in Outcomes /\ worker[w].cut \in BOOLEAN
    BY <1>6, <1>0, WorkerShape, Zenon DEF Count
  <2>2. a \in Attempt /\ a.job.p \in Plans
    BY <2>1, Zenon DEF Attempt, Job
  <2>3. k \in BOOLEAN \X Groups /\ k[1] \in BOOLEAN
    <3>1. (a.job.p \in Last) \in BOOLEAN
      OBVIOUS
    <3>2. Group[a.job.p] \in Groups
      BY <2>2, Zenon DEF Groups
    <3> HIDE DEF a
    <3> QED
      BY <3>1, <3>2, PairIn, Zenon
  <2>4. n \in Nat
    <3>1. Cardinality(PlansOf(k[1], k[2])) \in Nat
      BY PlansFinite, Zenon
    <3> HIDE DEF k, a
    <3> QED
      BY <3>1, ConstantTypes
  <2>5. /\ attempts' = attempts \cup {a}
        /\ done' = done + 1
        /\ foreseen' = IF Foretells(a, k) THEN foreseen \cup {k} ELSE foreseen
        /\ foretold' = [foretold EXCEPT ![k[1]] = @ + n]
        /\ total' = total + n
        /\ worker' = [worker EXCEPT ![w] = [pc |-> "report", d |-> done', t |-> total']]
        /\ UNCHANGED <<phase, todo, open, held, stop, grace, merged, bar>>
    BY <1>6, Zenon DEF Count
  <2> HIDE DEF a, k, n
  <2>6. done' \in Nat /\ total' \in Int
    BY <2>4, <2>5
  <2>7. worker' \in [Workers -> WorkerState]
    BY <2>5, <2>6, WorkerMake, Zenon
  <2>8. foretold' \in [BOOLEAN -> Nat]
    BY <2>3, <2>4, <2>5
  <2> QED
    BY <2>2, <2>3, <2>5, <2>6, <2>7, <2>8, Zenon
<1>7. CASE Deliver(w)
  <2>1. worker[w].t \in Int
    BY <1>7, <1>0, WorkerShape, Zenon DEF Deliver
  <2>2. bar' \in [done : Nat, total : Nat]
    BY <1>7, <2>1 DEF Deliver
  <2>3. worker' \in [Workers -> WorkerState]
    BY <1>7, WorkerMake, Zenon DEF Deliver
  <2> QED
    BY <1>7, <2>2, <2>3, Zenon DEF Deliver
<1> QED
  BY <1>1, <1>2, <1>3, <1>4, <1>5, <1>6, <1>7, Zenon DEF Step

\* Every step of Run's own thread keeps the types.
LEMMA MainType ==
    ASSUME TypeOK, Main
    PROVE  TypeOK'
<1> USE DEF TypeOK
<1>0. \A last \in BOOLEAN : Reconciled(last) \in Int
  BY RetryJobs DEF Reconciled
<1>1. CASE GiveUp
  BY <1>1, Zenon DEF GiveUp
<1>2. CASE EndJobs
  <2>1. total' \in Int
    BY <1>2, <1>0, Zenon DEF EndJobs
  <2>2. \/ StartPhase("retries", retryRounds(FALSE), Parallel)
        \/ StartPhase("tail", FirstRounds(TRUE), 1)
    BY <1>2, Zenon DEF EndJobs
  <2>3. /\ phase' \in Phases /\ todo' \subseteq Job /\ open' \in BOOLEAN
        /\ worker' \in [Workers -> WorkerState]
    BY <2>2, StartPhaseType, RetryJobs, Zenon DEF Phases
  <2> QED
    BY <1>2, <2>1, <2>3, Zenon DEF EndJobs
<1>3. CASE EndRetries
  <2>1. /\ phase' \in Phases /\ todo' \subseteq Job /\ open' \in BOOLEAN
        /\ worker' \in [Workers -> WorkerState]
    BY <1>3, StartPhaseType, RetryJobs, Zenon DEF Phases, EndRetries
  <2> QED
    BY <1>3, <2>1, Zenon DEF EndRetries
<1>4. CASE EndTail
  <2>1. total' \in Int
    BY <1>4, <1>0, Zenon DEF EndTail
  <2>2. \/ StartPhase("tailRetries", retryRounds(TRUE), 1)
        \/ phase' = "collect" /\ UNCHANGED <<todo, open, worker>>
    BY <1>4, Zenon DEF EndTail
  <2>3. /\ phase' \in Phases \cup {"collect"} /\ todo' \subseteq Job /\ open' \in BOOLEAN
        /\ worker' \in [Workers -> WorkerState]
    BY <2>2, StartPhaseType, RetryJobs, Zenon DEF Phases
  <2> QED
    BY <1>4, <2>1, <2>3, Zenon DEF EndTail
<1>5. CASE EndTailRetries
  BY <1>5, Zenon DEF EndTailRetries
<1>6. CASE Collect
  BY <1>6, ConstantTypes, Zenon DEF Collect
<1>7. CASE \E ok \in BOOLEAN : Fetch(ok)
  BY <1>7, Zenon DEF Fetch
<1> QED
  BY <1>1, <1>2, <1>3, <1>4, <1>5, <1>6, <1>7, Zenon DEF Main

\* Every step keeps the types.
LEMMA NextType == TypeOK /\ [Next]_scanVars => TypeOK'
<1> SUFFICES ASSUME TypeOK, [Next]_scanVars PROVE TypeOK'
  BY Zenon
<1>1. CASE \E why \in {"stopped", "deadline"} : EndContext(why)
  BY <1>1, Zenon DEF EndContext, TypeOK
<1>2. CASE UNCHANGED scanVars
  BY <1>2, Zenon DEF scanVars, TypeOK
<1> QED
  BY <1>1, <1>2, StepType, MainType, Zenon DEF Next

\* Every variable of the scan keeps its type, for every catalog and number of workers.
THEOREM TypeCorrect == Spec => []TypeOK
BY InitType, NextType, PTL DEF Spec

----------------------------------------------------------------------------
(* Jobs are in one place. *)

\* A worker that stays busy with its job disturbs nothing.
LEMMA KeepsJob ==
    ASSUME Placed, NEW w \in Workers,
           Busy(w), Busy(w)', worker'[w].job = worker[w].job,
           \A v \in Workers : v # w => worker'[v] = worker[v],
           UNCHANGED <<phase, todo, attempts>>
    PROVE  Placed'
<1>1. \A v \in Workers : Busy(v)' => Busy(v) /\ worker'[v].job = worker[v].job
  BY Zenon DEF Busy
<1> QED
  BY <1>1 DEF Placed

\* Nor does one that stays idle.
LEMMA StaysIdle ==
    ASSUME Placed, NEW w \in Workers, ~Busy(w)',
           \A v \in Workers : v # w => worker'[v] = worker[v],
           UNCHANGED <<phase, attempts>>, todo' \subseteq todo
    PROVE  Placed'
<1>1. \A v \in Workers : Busy(v)' => Busy(v) /\ worker'[v].job = worker[v].job
  BY Zenon DEF Busy
<1> QED
  BY <1>1 DEF Placed

\* A worker moves its job from the list to itself to the attempts, and leaves no copy.
LEMMA StepPlaced ==
    ASSUME TypeOK, Placed, NEW w \in Workers, Step(w)
    PROVE  Placed'
<1>0. worker[w] \in WorkerState /\ worker \in [Workers -> WorkerState]
  BY Zenon DEF TypeOK
<1>1. CASE \E j \in Job : HandOver(w, j)
  <2>1. PICK j \in Job : HandOver(w, j)
    BY <1>1, Zenon
  <2>2. \A v \in Workers : v # w => worker'[v] = worker[v]
    BY <2>1, <1>0, Zenon DEF HandOver
  <2>3. CASE stop = "no"
    <3>1. worker'[w] = [pc |-> "ready", job |-> j] /\ todo' = todo \ {j} /\ j \in todo
      BY <2>1, <2>3, <1>0, Zenon DEF HandOver, Offered
    <3>2. phase' = phase /\ attempts' = attempts
      BY <2>1, Zenon DEF HandOver
    <3>3. \A v \in Workers : v # w /\ Busy(v)' => Busy(v) /\ worker'[v].job = worker[v].job
      BY <2>2, Zenon DEF Busy
    <3>4. worker'[w].job = j
      BY <3>1
    <3> QED
      <4>1. \A v \in Workers : Busy(v)' => worker'[v].job \notin todo'
                                                /\ Stage(worker'[v].job) = phase'
        BY <3>1, <3>2, <3>3, <3>4 DEF Placed
      <4>2. \A v \in Workers : v # w /\ Busy(v)' => worker'[v].job # j
        BY <3>1, <3>3 DEF Placed
      <4>3. \A v, u \in Workers : (v # u /\ Busy(v)' /\ Busy(u)')
                                    => worker'[v].job # worker'[u].job
        BY <3>3, <3>4, <4>2, Zenon DEF Placed
      <4>4. \A a \in attempts, v \in Workers : Busy(v)' => a.job # worker'[v].job
        BY <3>1, <3>3, <3>4 DEF Placed
      <4>5. \A i \in todo' : i \in todo
        BY <3>1, Zenon
      <4> QED
        BY <3>2, <4>1, <4>3, <4>4, <4>5, Zenon DEF Placed
  <2>4. CASE stop # "no"
    <3>1. worker'[w] = Gone /\ todo' = {}
      BY <2>1, <2>4, <1>0, Zenon DEF HandOver
    <3>2. ~Busy(w)'
      BY <3>1 DEF Busy, Gone
    <3> QED
      BY <2>1, <2>2, <3>1, <3>2, StaysIdle, Zenon DEF HandOver
  <2> QED
    BY <2>3, <2>4, Zenon
<1>2. CASE Leave(w)
  <2>1. ~Busy(w)' /\ \A v \in Workers : v # w => worker'[v] = worker[v]
    BY <1>2, <1>0, Zenon DEF Leave, Busy, Gone
  <2> QED
    BY <1>2, <2>1, StaysIdle, Zenon DEF Leave
<1>3. CASE Start(w)
  <2>1. /\ Busy(w) /\ Busy(w)' /\ worker'[w].job = worker[w].job
        /\ \A v \in Workers : v # w => worker'[v] = worker[v]
    BY <1>3, <1>0, StartForm DEF Start, Busy
  <2> QED
    BY <1>3, <2>1, KeepsJob, Zenon DEF Start
<1>4. CASE \E out \in Outcomes : Finish(w, out)
  <2>1. PICK out \in Outcomes : Finish(w, out)
    BY <1>4, Zenon
  <2>2. /\ Busy(w) /\ Busy(w)' /\ worker'[w].job = worker[w].job
        /\ \A v \in Workers : v # w => worker'[v] = worker[v]
    BY <2>1, <1>0, Zenon DEF Finish, Busy
  <2> QED
    BY <2>1, <2>2, KeepsJob, Zenon DEF Finish
<1>5. CASE Judge(w)
  <2>1. /\ Busy(w) /\ Busy(w)' /\ worker'[w].job = worker[w].job
        /\ \A v \in Workers : v # w => worker'[v] = worker[v]
    BY <1>5, <1>0, Zenon DEF Judge, Busy
  <2> QED
    BY <1>5, <2>1, KeepsJob, Zenon DEF Judge
<1>6. CASE Count(w)
  <2> DEFINE a == [job |-> worker[w].job, out |-> worker[w].out, cut |-> worker[w].cut]
  <2>1. /\ worker[w].pc = "judged" /\ attempts' = attempts \cup {a}
        /\ worker'[w].pc = "report" /\ phase' = phase /\ todo' = todo
        /\ \A v \in Workers : v # w => worker'[v] = worker[v]
    BY <1>6, <1>0, Zenon DEF Count
  <2>2. Busy(w) /\ ~Busy(w)'
    BY <2>1, Zenon DEF Busy
  <2>3. \A v \in Workers : Busy(v)' => v # w /\ Busy(v) /\ worker'[v].job = worker[v].job
    BY <2>1, <2>2, Zenon DEF Busy
  <2>4. a.job = worker[w].job
    BY Zenon
  <2>5. phase \in UpTo(phase)
    <3>1. worker[w].job \in Job
      BY <2>1, <1>0, WorkerShape, Zenon
    <3>2. phase \in Phases
      BY <2>2, <3>1, Zenon DEF Placed, Stage, Phases
    <3> QED
      BY <3>2, Zenon DEF UpTo, Phases
  <2> HIDE DEF a
  <2> QED
    <3>1. \A v \in Workers : Busy(v)' => worker'[v].job \notin todo'
                                              /\ Stage(worker'[v].job) = phase'
      BY <2>1, <2>3 DEF Placed
    <3>2. \A u, v \in Workers : (u # v /\ Busy(u)' /\ Busy(v)')
                                  => worker'[u].job # worker'[v].job
      BY <2>3, Zenon DEF Placed
    <3>3. \A b \in attempts' : b.job \notin todo' /\ Stage(b.job) \in UpTo(phase')
      BY <2>1, <2>2, <2>4, <2>5 DEF Placed
    <3>4. \A b \in attempts', v \in Workers : Busy(v)' => b.job # worker'[v].job
      BY <2>1, <2>2, <2>3, <2>4 DEF Placed
    <3>5. \A b, c \in attempts' : b.job = c.job => b = c
      BY <2>1, <2>2, <2>4 DEF Placed
    <3>6. \A i \in todo' : Stage(i) = phase'
      BY <2>1, Zenon DEF Placed
    <3> QED
      BY <3>1, <3>2, <3>3, <3>4, <3>5, <3>6, Zenon DEF Placed
<1>7. CASE Deliver(w)
  <2>1. ~Busy(w)' /\ \A v \in Workers : v # w => worker'[v] = worker[v]
    BY <1>7, <1>0, Zenon DEF Deliver, Busy, InLoop
  <2> QED
    BY <1>7, <2>1, StaysIdle, Zenon DEF Deliver
<1> QED
  BY <1>1, <1>2, <1>3, <1>4, <1>5, <1>6, <1>7, Zenon DEF Step

\* The jobs of a phase are of its stage.
LEMMA PhaseJobs ==
    /\ \A j \in FirstRounds(FALSE) : Stage(j) = "jobs"
    /\ \A j \in FirstRounds(TRUE) : Stage(j) = "tail"
    /\ \A j \in retryRounds(FALSE) : Stage(j) = "retries"
    /\ \A j \in retryRounds(TRUE) : Stage(j) = "tailRetries"
<1>1. /\ \A j \in FirstRounds(FALSE) : j \in Job /\ j.r <= Repeat /\ j.p \notin Last
      /\ \A j \in FirstRounds(TRUE) : j \in Job /\ j.r <= Repeat /\ j.p \in Last
      /\ \A j \in retryRounds(FALSE) : j \in Job /\ j.r > Repeat /\ j.p \notin Last
      /\ \A j \in retryRounds(TRUE) : j \in Job /\ j.r > Repeat /\ j.p \in Last
  BY Zenon DEF FirstRounds, retryRounds
<1>2. \A j \in Job : j.r > Repeat => ~(j.r <= Repeat)
  BY ConstantTypes DEF Job
<1> QED
  BY <1>1, <1>2, Zenon DEF Stage

\* A phase that starts with jobs of a later stage.
LEMMA StartPlaced ==
    ASSUME Placed, NEW ph \in Phases, NEW js, NEW n, StartPhase(ph, js, n),
           \A j \in js : Stage(j) = ph,
           ph \notin UpTo(phase), UpTo(phase) \subseteq UpTo(ph),
           UNCHANGED attempts
    PROVE  Placed'
<1>1. \A v \in Workers : ~Busy(v)'
  BY Zenon DEF StartPhase, Busy, InLoop, Gone
<1>2. phase' = ph /\ todo' = js
  BY Zenon DEF StartPhase
<1> QED
  BY <1>1, <1>2, Zenon DEF Placed

\* A phase that begins brings jobs of a later stage than any before.
LEMMA MainPlaced ==
    ASSUME TypeOK, Placed, Draining, Serial, Main
    PROVE  Placed'
<1>0. AllGone => todo = {}
  BY ConstantTypes DEF AllGone, Draining, Workers
<1>1. CASE GiveUp
  <2>1. \A v \in Workers : Busy(v)' => Busy(v) /\ worker'[v].job = worker[v].job
    BY <1>1, Zenon DEF GiveUp, Busy
  <2> QED
    BY <1>1, <2>1, Zenon DEF GiveUp, Placed
<1>2. CASE EndJobs
  <2>1. \/ StartPhase("retries", retryRounds(FALSE), Parallel)
        \/ StartPhase("tail", FirstRounds(TRUE), 1)
    BY <1>2, Zenon DEF EndJobs
  <2>2. phase = "jobs" /\ UNCHANGED attempts
    BY <1>2, Zenon DEF EndJobs
  <2> QED
    BY <2>1, <2>2, StartPlaced, PhaseJobs, Zenon DEF UpTo, Phases
<1>3. CASE EndRetries
  BY <1>3, StartPlaced, PhaseJobs, Zenon DEF UpTo, Phases, EndRetries
<1>4. CASE EndTail
  <2>1. phase = "tail" /\ UNCHANGED attempts /\ AllGone
    BY <1>4, Zenon DEF EndTail
  <2>2. CASE StartPhase("tailRetries", retryRounds(TRUE), 1)
    BY <2>1, <2>2, StartPlaced, PhaseJobs, Zenon DEF UpTo, Phases
  <2>3. CASE phase' = "collect" /\ UNCHANGED <<todo, worker>>
    <3>1. \A v \in Workers : ~Busy(v)'
      BY <2>1, <2>3 DEF AllGone, Busy, Gone
    <3> QED
      BY <1>0, <2>1, <2>3, <3>1, Zenon DEF Placed, UpTo, Phases
  <2> QED
    BY <1>4, <2>2, <2>3, Zenon DEF EndTail
<1>5. CASE EndTailRetries \/ Collect \/ \E ok \in BOOLEAN : Fetch(ok)
  <2>1. /\ phase \notin {"jobs", "retries", "tail"} /\ phase' \notin Phases
        /\ UNCHANGED <<todo, worker, attempts>> /\ AllGone
    BY <1>5, Zenon DEF EndTailRetries, Collect, Fetch, Phases, Serial
  <2>2. \A v \in Workers : ~Busy(v)'
    BY <2>1 DEF AllGone, Busy, Gone
  <2>3. UpTo(phase) = Phases /\ UpTo(phase') = Phases
    BY <2>1, Zenon DEF UpTo, Phases
  <2> QED
    BY <1>0, <2>1, <2>2, <2>3, Zenon DEF Placed
<1> QED
  BY <1>1, <1>2, <1>3, <1>4, <1>5, Zenon DEF Main

----------------------------------------------------------------------------
(* The other conjuncts. *)

\* There is a first worker.
LEMMA OneWorker == 1 \in Workers
  BY ConstantTypes DEF Workers

\* Where each step of a worker takes it from and to.
LEMMA StepMoves ==
    ASSUME NEW w \in Workers, worker \in [Workers -> WorkerState]
    PROVE  /\ \A j \in Job : HandOver(w, j) =>
                     /\ worker[w].pc = "range" /\ worker'[w].pc \in {"ready", "gone"}
                     /\ UNCHANGED <<held, attempts>>
           /\ Leave(w) => /\ worker[w].pc = "range" /\ worker'[w].pc = "gone"
                          /\ UNCHANGED <<held, attempts>>
           /\ Start(w) => worker[w].pc = "ready"
           /\ \A out \in Outcomes : Finish(w, out) =>
                     /\ worker[w].pc = "running" /\ worker'[w].pc = "ran"
                     /\ UNCHANGED <<todo, open>>
           /\ Judge(w) => /\ worker[w].pc = "ran" /\ worker'[w].pc = "judged"
                          /\ UNCHANGED <<todo, open, held>>
           /\ Count(w) => /\ worker[w].pc = "judged" /\ worker'[w].pc = "report"
                          /\ UNCHANGED <<todo, open, held>>
           /\ Deliver(w) => /\ worker[w].pc = "report" /\ worker'[w].pc = "range"
                            /\ UNCHANGED <<todo, open, held, attempts>>
<1>1. ASSUME NEW j \in Job, HandOver(w, j)
      PROVE  /\ worker[w].pc = "range" /\ worker'[w].pc \in {"ready", "gone"}
             /\ UNCHANGED <<held, attempts>>
  <2>1. worker[w] = InLoop /\ UNCHANGED <<held, attempts>>
    BY <1>1, Zenon DEF HandOver
  <2>2. worker'[w] = [pc |-> "ready", job |-> j] \/ worker'[w] = Gone
    BY <1>1, Zenon DEF HandOver
  <2>3. worker[w].pc = "range"
    BY <2>1 DEF InLoop
  <2>4. worker'[w].pc \in {"ready", "gone"}
    <3>1. CASE worker'[w] = [pc |-> "ready", job |-> j]
      BY <3>1
    <3>2. CASE worker'[w] = Gone
      BY <3>2 DEF Gone
    <3> QED
      BY <2>2, <3>1, <3>2, Zenon
  <2> QED
    BY <2>1, <2>3, <2>4, Zenon
<1>2. ASSUME Leave(w)
      PROVE  /\ worker[w].pc = "range" /\ worker'[w].pc = "gone"
             /\ UNCHANGED <<held, attempts>>
  BY <1>2 DEF Leave, InLoop, Gone
<1>3. Start(w) => worker[w].pc = "ready"
  BY Zenon DEF Start
<1>4. ASSUME NEW out \in Outcomes, Finish(w, out)
      PROVE  /\ worker[w].pc = "running" /\ worker'[w].pc = "ran"
             /\ UNCHANGED <<todo, open>>
  BY <1>4, Zenon DEF Finish
<1>5. ASSUME Judge(w)
      PROVE  /\ worker[w].pc = "ran" /\ worker'[w].pc = "judged"
             /\ UNCHANGED <<todo, open, held>>
  BY <1>5, Zenon DEF Judge
<1>6. ASSUME Count(w)
      PROVE  /\ worker[w].pc = "judged" /\ worker'[w].pc = "report"
             /\ UNCHANGED <<todo, open, held>>
  BY <1>6, Zenon DEF Count
<1>7. ASSUME Deliver(w)
      PROVE  /\ worker[w].pc = "report" /\ worker'[w].pc = "range"
             /\ UNCHANGED <<todo, open, held, attempts>>
  BY <1>7, Zenon DEF Deliver, InLoop
<1> QED
  BY <1>1, <1>2, <1>3, <1>4, <1>5, <1>6, <1>7, Zenon

\* How a step of worker w changes the workers, seen by the other conjuncts.
LEMMA StepOthers ==
    ASSUME TypeOK, NEW w \in Workers, Step(w)
    PROVE  /\ \A v \in Workers : v # w => worker'[v] = worker[v]
           /\ worker[w] # Gone
           /\ UNCHANGED <<phase, stop>>
<1>0. worker \in [Workers -> WorkerState]
  BY Zenon DEF TypeOK
<1>1. \A v \in Workers : v # w => worker'[v] = worker[v]
  BY <1>0, Zenon DEF Step, HandOver, Leave, Start, Finish, Judge, Count, Deliver
<1>2. worker[w] # Gone
  <2>1. worker[w].pc # "gone"
    BY <1>0, StepMoves, Zenon DEF Step
  <2> QED
    BY <2>1 DEF Gone
<1>3. UNCHANGED <<phase, stop>>
  BY Zenon DEF Step, HandOver, Leave, Start, Finish, Judge, Count, Deliver
<1> QED
  BY <1>1, <1>2, <1>3, Zenon

\* The channel is open exactly as long as jobs are left, under steps of the workers.
LEMMA StepDraining ==
    ASSUME TypeOK, Draining, NEW w \in Workers, Step(w)
    PROVE  Draining'
<1>0. worker \in [Workers -> WorkerState] /\ worker[w] \in WorkerState /\ 1 \in Workers
  BY ConstantTypes DEF TypeOK, Workers
<1>1. CASE \E j \in Job : HandOver(w, j)
  <2>1. PICK j \in Job : HandOver(w, j)
    BY <1>1, Zenon
  <2>2. open' <=> todo' # {}
    BY <2>1, Zenon DEF HandOver
  <2>3. open /\ worker[1] # Gone
    BY <2>1, Zenon DEF HandOver, Draining
  <2>4. stop # "no" => todo' = {}
    BY <2>1, Zenon DEF HandOver
  <2>5. stop = "no" => worker'[w].pc = "ready"
    BY <2>1, <1>0, Zenon DEF HandOver
  <2>6. stop = "no" => worker'[1] # Gone
    <3>1. stop = "no" => worker'[w] # Gone
      BY <2>5 DEF Gone
    <3> QED
      BY <2>3, <3>1, StepOthers, OneWorker, Zenon
  <2> QED
    BY <2>2, <2>4, <2>6, Zenon DEF Draining
<1>2. CASE Leave(w)
  BY <1>0, <1>2, Zenon DEF Leave, Draining
<1>3. CASE Start(w)
  <2>1. worker'[w].pc = "running"
    BY <1>0, <1>3, StartForm
  <2> QED
    BY <1>3, <2>1, <1>0, StepOthers DEF Start, Draining, Gone
<1>4. CASE (\E out \in Outcomes : Finish(w, out)) \/ Judge(w) \/ Count(w) \/ Deliver(w)
  <2>1. worker'[w].pc # "gone" /\ UNCHANGED <<todo, open>>
    BY <1>0, <1>4, StepMoves, Zenon
  <2> QED
    BY <2>1, <1>0, StepOthers DEF Draining, Gone
<1> QED
  BY <1>1, <1>2, <1>3, <1>4, Zenon DEF Step

\* The same under steps of Run's own thread.
LEMMA MainDraining ==
    ASSUME TypeOK, Draining, Main
    PROVE  Draining'
<1>0. 1 \in Workers
  BY ConstantTypes DEF Workers
<1>1. ASSUME NEW ph, NEW js, NEW n, StartPhase(ph, js, n), 1 <= n
      PROVE  Draining'
  <2>1. open' <=> todo' # {}
    BY <1>1, Zenon DEF StartPhase
  <2>2. worker'[1].pc = "range"
    BY <1>0, <1>1, Zenon DEF StartPhase, InLoop
  <2> QED
    BY <2>1, <2>2 DEF Draining, Gone
<1>2. 1 <= Parallel /\ 1 <= 1
  BY ConstantTypes
<1>3. CASE EndJobs
  BY <1>1, <1>2, <1>3, Zenon DEF EndJobs
<1>4. CASE EndRetries
  BY <1>1, <1>2, <1>4, Zenon DEF EndRetries
<1>5. CASE EndTail
  <2>1. StartPhase("tailRetries", retryRounds(TRUE), 1) \/ UNCHANGED <<todo, open, worker>>
    BY <1>5, Zenon DEF EndTail
  <2>2. CASE StartPhase("tailRetries", retryRounds(TRUE), 1)
    BY <1>1, <1>2, <2>2, Zenon
  <2>3. CASE UNCHANGED <<todo, open, worker>>
    BY <2>3, Zenon DEF Draining
  <2> QED
    BY <2>1, <2>2, <2>3, Zenon
<1>6. CASE GiveUp
  BY <1>6, Zenon DEF GiveUp, Draining
<1>7. CASE EndTailRetries \/ Collect \/ \E ok \in BOOLEAN : Fetch(ok)
  BY <1>7 DEF EndTailRetries, Collect, Fetch, Draining
<1> QED
  BY <1>3, <1>4, <1>5, <1>6, <1>7, Zenon DEF Main

\* Workers never bring back one that is gone.
LEMMA StepSerial ==
    ASSUME TypeOK, Serial, NEW w \in Workers, Step(w)
    PROVE  Serial'
<1>1. phase \in Phases
  BY StepOthers, Zenon DEF Serial, AllGone
<1>2. phase \notin {"jobs", "retries"} => w = 1
  BY StepOthers, Zenon DEF Serial
<1> QED
  BY <1>1, <1>2, StepOthers, Zenon DEF Serial

\* The tail and its retries start with one worker.
LEMMA MainSerial ==
    ASSUME TypeOK, Serial, Main
    PROVE  Serial'
<1>0. \A w \in Workers : w <= 1 => w = 1
  BY ConstantTypes DEF Workers
<1>1. \A ph, js, n : StartPhase(ph, js, n) /\ ph \in Phases
                        /\ (n = 1 \/ ph \in {"jobs", "retries"}) => Serial'
  BY <1>0, Zenon DEF StartPhase, Serial
<1>2. CASE GiveUp
  BY <1>2, Zenon DEF GiveUp, Serial, AllGone
<1>3. CASE EndJobs \/ EndRetries
  BY <1>1, <1>3, Zenon DEF EndJobs, EndRetries, Phases
<1>4. CASE EndTail
  BY <1>1, <1>4, Zenon DEF EndTail, Phases, Serial, AllGone
<1>5. CASE EndTailRetries \/ Collect \/ \E ok \in BOOLEAN : Fetch(ok)
  <2>1. AllGone /\ worker' = worker
    BY <1>5, Zenon DEF EndTailRetries, Collect, Fetch, Phases, Serial
  <2> QED
    BY <2>1, Zenon DEF AllGone, Serial
<1> QED
  BY <1>2, <1>3, <1>4, <1>5, Zenon DEF Main

\* Nobody runs when a phase begins or after the last one.
LEMMA MainNotRunning ==
    ASSUME TypeOK, Serial, Main, ~GiveUp
    PROVE  /\ \A w \in Workers : worker'[w].pc \in {"range", "gone"}
           /\ UNCHANGED <<held, attempts, done, bar, stop>>
<1>1. \A ph, js, n : StartPhase(ph, js, n) => \A w \in Workers : worker'[w].pc \in {"range", "gone"}
  BY DEF StartPhase, InLoop, Gone
<1>2. AllGone => \A w \in Workers : worker[w].pc = "gone"
  BY DEF AllGone, Gone
<1>3. CASE EndJobs \/ EndRetries
  BY <1>1, <1>3, Zenon DEF EndJobs, EndRetries
<1>4. CASE EndTail
  BY <1>1, <1>2, <1>4, Zenon DEF EndTail
<1>5. CASE EndTailRetries \/ Collect \/ \E ok \in BOOLEAN : Fetch(ok)
  <2>1. AllGone /\ worker' = worker
    BY <1>5, Zenon DEF EndTailRetries, Collect, Fetch, Phases, Serial
  <2> QED
    BY <1>2, <1>5, <2>1, Zenon DEF EndTailRetries, Collect, Fetch
<1> QED
  BY <1>3, <1>4, <1>5, Zenon DEF Main

\* A running worker holds its pool, and nobody else runs with it.
LEMMA StepPools ==
    ASSUME TypeOK, Locked, PoolExclusive, NEW w \in Workers, Step(w)
    PROVE  Locked' /\ PoolExclusive'
<1>0. worker \in [Workers -> WorkerState] /\ NoPool \notin held
  BY Zenon DEF TypeOK
<1>1. CASE Start(w)
  <2> DEFINE m == serial[worker[w].job.p]
  <2>1. worker'[w].job = worker[w].job
    BY <1>0, <1>1, StartForm
  <2>2. m \notin held /\ held' = IF m = NoPool THEN held ELSE held \cup {m}
    BY <1>1, Zenon DEF Start
  <2>3. \A v \in Workers : v # w /\ worker[v].pc = "running"
                            => m = NoPool \/ serial[worker[v].job.p] # m
    BY <2>2, Zenon DEF Locked
  <2> HIDE DEF m
  <2>4. serial[worker'[w].job.p] = m
    BY <2>1, Zenon DEF m
  <2>5. Locked'
    BY <2>2, <2>4, StepOthers, Zenon DEF Locked
  <2> QED
    BY <2>3, <2>4, <2>5, StepOthers DEF PoolExclusive
<1>2. CASE \E out \in Outcomes : Finish(w, out)
  <2> DEFINE m == serial[worker[w].job.p]
  <2>1. worker[w].pc = "running" /\ worker'[w].pc = "ran" /\ held' = held \ {m}
    BY <1>0, <1>2 DEF Finish
  <2>2. \A v \in Workers : v # w /\ worker[v].pc = "running"
                            => serial[worker[v].job.p] # m \/ serial[worker[v].job.p] = NoPool
    BY <2>1, Zenon DEF PoolExclusive
  <2> HIDE DEF m
  <2>3. Locked'
    BY <2>1, <2>2, StepOthers DEF Locked
  <2> QED
    <3>1. \A v \in Workers : worker'[v].pc = "running" => worker'[v] = worker[v]
      BY <2>1, StepOthers, Zenon
    <3> QED
      BY <2>3, <3>1 DEF PoolExclusive
<1>3. CASE ~Start(w) /\ ~\E out \in Outcomes : Finish(w, out)
  <2>1. worker'[w].pc # "running" /\ held' = held
    BY <1>0, <1>3, StepMoves, Zenon DEF Step
  <2> QED
    <3>0. \A v \in Workers : worker'[v].pc = "running" => worker'[v] = worker[v]
      BY <2>1, StepOthers, Zenon
    <3>1. Locked'
      BY <2>1, <3>0, Zenon DEF Locked
    <3>2. PoolExclusive'
      BY <3>0 DEF PoolExclusive
    <3> QED
      BY <3>1, <3>2, Zenon
<1> QED
  BY <1>1, <1>2, <1>3, Zenon

\* What was cut by the end of the context is judged skipped or ok, never failed.
LEMMA StepJudged ==
    ASSUME TypeOK, Judged, CancelledNotBlamed, NEW w \in Workers, Step(w)
    PROVE  Judged' /\ CancelledNotBlamed'
<1>0. worker \in [Workers -> WorkerState] /\ worker[w] \in WorkerState
  BY Zenon DEF TypeOK
<1>1. CASE \E out \in Outcomes : Finish(w, out)
  <2>0. PICK out \in Outcomes : Finish(w, out)
    BY <1>1, Zenon
  <2>1. worker'[w].pc = "ran" /\ (worker'[w].cut => stop # "no") /\ attempts' = attempts
    <3> DEFINE c == stop # "no"
    <3>1. worker'[w] = [pc |-> "ran", job |-> worker[w].job, out |-> out, cut |-> c]
      BY <1>0, <2>0, Zenon DEF Finish
    <3>2. c => stop # "no"
      BY Zenon
    <3> HIDE DEF c
    <3>3. worker'[w].pc = "ran" /\ worker'[w].cut = c
      BY <3>1
    <3> QED
      BY <2>0, <3>2, <3>3, Zenon DEF Finish
  <2> QED
    BY <2>1, StepOthers, Zenon DEF Judged, CancelledNotBlamed, Failed
<1>2. CASE Judge(w)
  <2>1. PICK out \in Outcomes :
              /\ out \in {worker[w].out, "skipped"}
              /\ stop # "no" => out # "fail"
              /\ worker' = [worker EXCEPT ![w] = [pc |-> "judged", job |-> worker[w].job,
                                                  out |-> out, cut |-> worker[w].cut]]
    BY <1>2, JudgeForm, Zenon
  <2>2. worker'[w].pc = "judged" /\ worker'[w].out = out /\ worker'[w].cut = worker[w].cut
    BY <2>1, <1>0, Zenon
  <2>3. worker[w].cut => out # "fail"
    BY <1>2, <2>1, Zenon DEF Judge, Judged
  <2>4. attempts' = attempts
    BY <1>2, Zenon DEF Judge
  <2> QED
    BY <2>2, <2>3, <2>4, StepOthers, Zenon DEF Judged, CancelledNotBlamed, Failed
<1>3. CASE Count(w)
  <2>1. worker[w].pc = "judged" /\ worker'[w].pc = "report"
    BY <1>0, <1>3, Zenon DEF Count
  <2>2. attempts' = attempts \cup {[job |-> worker[w].job, out |-> worker[w].out,
                                    cut |-> worker[w].cut]}
    BY <1>3, Zenon DEF Count
  <2>3. CancelledNotBlamed'
    <3> DEFINE a == [job |-> worker[w].job, out |-> worker[w].out, cut |-> worker[w].cut]
    <3>1. a.out = worker[w].out /\ a.cut = worker[w].cut
      BY Zenon
    <3>2. a.cut => a.out # "fail"
      BY <2>1, <3>1, Zenon DEF Judged
    <3>3. attempts' = attempts \cup {a}
      BY <2>2, Zenon
    <3> HIDE DEF a
    <3> QED
      BY <3>2, <3>3, Zenon DEF CancelledNotBlamed, Failed
  <2> QED
    BY <2>1, <2>3, StepOthers, Zenon DEF Judged
<1>4. CASE Start(w)
  <2>1. worker'[w].pc = "running" /\ attempts' = attempts
    BY <1>0, <1>4, StartForm DEF Start
  <2> QED
    BY <2>1, StepOthers, Zenon DEF Judged, CancelledNotBlamed, Failed
<1>5. CASE (\E j \in Job : HandOver(w, j)) \/ Leave(w) \/ Deliver(w)
  <2>1. worker'[w].pc \notin {"ran", "judged"} /\ attempts' = attempts
    BY <1>0, <1>5, StepMoves, Zenon
  <2> QED
    BY <2>1, StepOthers, Zenon DEF Judged, CancelledNotBlamed, Failed
<1> QED
  BY <1>1, <1>2, <1>3, <1>4, <1>5, Zenon DEF Step

\* done counts the attempts.
LEMMA StepCounted ==
    ASSUME TypeOK, Placed, Counted, NEW w \in Workers, Step(w)
    PROVE  Counted'
<1>1. CASE Count(w)
  <2> DEFINE a == [job |-> worker[w].job, out |-> worker[w].out, cut |-> worker[w].cut]
  <2>1. attempts' = attempts \cup {a} /\ done' = done + 1 /\ Busy(w)
    BY <1>1, Zenon DEF Count, Busy
  <2>2. a \notin attempts
    <3>1. a.job = worker[w].job
      BY Zenon
    <3> HIDE DEF a
    <3> QED
      BY <2>1, <3>1, Zenon DEF Placed
  <2> HIDE DEF a
  <2> QED
    BY <2>1, <2>2, FS_AddElement, Zenon DEF Counted
<1>2. CASE ~Count(w)
  BY <1>2, Zenon DEF Step, HandOver, Leave, Start, Finish, Judge, Deliver, Counted
<1> QED
  BY <1>1, <1>2, Zenon

\* The counters of the bar only grow.
LEMMA DeliverForward ==
    ASSUME TypeOK, BarSound, NEW w \in Workers, Deliver(w)
    PROVE  /\ bar'.done >= bar.done /\ bar'.total >= bar.total /\ bar'.done <= bar'.total
<1>1. worker[w].t \in Int
  <2>1. worker[w] \in WorkerState /\ worker[w].pc = "report"
    BY Zenon DEF TypeOK, Deliver
  <2> QED
    BY <2>1, WorkerShape, Zenon
<1>2. bar.done \in Nat /\ bar.total \in Nat
  BY Zenon DEF TypeOK
<1> QED
  BY <1>1, <1>2 DEF Deliver, BarSound

\* The bar stays within its total.
LEMMA StepBar ==
    ASSUME TypeOK, BarSound, NEW w \in Workers, Step(w)
    PROVE  /\ bar'.done >= bar.done /\ bar'.total >= bar.total /\ bar'.done <= bar'.total
<1>1. bar.done \in Nat /\ bar.total \in Nat
  BY Zenon DEF TypeOK
<1>2. ~Deliver(w) => bar' = bar
  BY Zenon DEF Step, HandOver, Leave, Start, Finish, Judge, Count
<1> QED
  BY <1>1, <1>2, DeliverForward DEF BarSound

----------------------------------------------------------------------------
(* The theorems. *)

\* The inductive invariant holds at the start.
LEMMA InitInv == Init => ScanInv
<1> SUFFICES ASSUME Init PROVE ScanInv
  BY Zenon
<1>1. \A w \in Workers : worker[w].pc = "range" /\ worker[w] = InLoop
  BY Zenon DEF Init, InLoop
<1>2. Placed
  BY <1>1, PhaseJobs, Zenon DEF Init, Placed, Busy
<1>3. Draining
  <2>1. open <=> todo # {}
    BY Zenon DEF Init
  <2>2. worker[1].pc = "range"
    BY <1>1, ConstantTypes DEF Workers
  <2> QED
    BY <2>1, <2>2 DEF Draining, Gone
<1>4. Counted
  BY FS_EmptySet, Zenon DEF Init, Counted
<1>5. Serial /\ Locked /\ PoolExclusive /\ Judged /\ CancelledNotBlamed /\ BarSound
  <2>1. Serial
    BY Zenon DEF Init, Serial, Phases
  <2>2. Locked /\ PoolExclusive /\ Judged
    BY <1>1, Zenon DEF Locked, PoolExclusive, Judged
  <2>3. CancelledNotBlamed
    BY Zenon DEF Init, CancelledNotBlamed
  <2>4. BarSound
    BY DEF Init, BarSound
  <2> QED
    BY <2>1, <2>2, <2>3, <2>4, Zenon
<1> QED
  BY <1>2, <1>3, <1>4, <1>5, InitType, Zenon DEF ScanInv

\* Every step keeps the inductive invariant.
LEMMA NextInv == ScanInv /\ [Next]_scanVars => ScanInv'
<1> SUFFICES ASSUME ScanInv, [Next]_scanVars PROVE ScanInv'
  BY Zenon
<1>0. TypeOK'
  BY NextType, Zenon DEF ScanInv
<1>1. ASSUME NEW w \in Workers, Step(w)
      PROVE  ScanInv'
  BY <1>0, <1>1, StepPlaced, StepDraining, StepCounted, StepSerial, StepPools, StepJudged, StepBar, Zenon
     DEF ScanInv, BarSound
<1>2. CASE Main
  <2>1. Placed' /\ Draining' /\ Serial'
    BY <1>2, MainPlaced, MainDraining, MainSerial, Zenon DEF ScanInv
  <2>2. Counted' /\ CancelledNotBlamed' /\ BarSound'
    BY <1>2, Zenon DEF ScanInv, Main, GiveUp, EndJobs, EndRetries, EndTail, EndTailRetries, Collect,
                Fetch, Counted, CancelledNotBlamed, Failed, BarSound
  <2>3. Locked' /\ PoolExclusive' /\ Judged'
    <3>1. CASE GiveUp
      BY <3>1, Zenon DEF GiveUp, ScanInv, Locked, PoolExclusive, Judged
    <3>2. CASE ~GiveUp
      BY <1>2, <3>2, MainNotRunning, Zenon DEF ScanInv, Locked, PoolExclusive, Judged
    <3> QED
      BY <3>1, <3>2, Zenon
  <2> QED
    BY <1>0, <2>1, <2>2, <2>3, Zenon DEF ScanInv
<1>3. CASE \E why \in {"stopped", "deadline"} : EndContext(why)
  <2>1. stop' # "no" /\ UNCHANGED <<phase, todo, open, worker, held, attempts, done, bar>>
    BY <1>3, Zenon DEF EndContext
  <2>2. Placed' /\ Draining' /\ Counted' /\ Serial'
    <3>1. Placed'
      BY <2>1, Zenon DEF ScanInv, Placed, Busy
    <3>2. Draining' /\ Counted'
      BY <2>1, Zenon DEF ScanInv, Draining, Counted
    <3>3. Serial'
      BY <2>1, Zenon DEF ScanInv, Serial, AllGone
    <3> QED
      BY <3>1, <3>2, <3>3, Zenon
  <2>3. Locked' /\ PoolExclusive' /\ Judged' /\ CancelledNotBlamed' /\ BarSound'
    BY <2>1, Zenon DEF ScanInv, Locked, PoolExclusive, Judged, CancelledNotBlamed, Failed, BarSound
  <2> QED
    BY <1>0, <2>2, <2>3, Zenon DEF ScanInv
<1>4. CASE UNCHANGED scanVars
  <2>1. UNCHANGED <<phase, todo, open, worker, held, attempts, done, bar, stop>>
    BY <1>4, Zenon DEF scanVars
  <2>2. Placed' /\ Draining' /\ Counted' /\ Serial'
    <3>1. Placed'
      BY <2>1, Zenon DEF ScanInv, Placed, Busy
    <3>2. Draining' /\ Counted'
      BY <2>1, Zenon DEF ScanInv, Draining, Counted
    <3>3. Serial'
      BY <2>1, Zenon DEF ScanInv, Serial, AllGone
    <3> QED
      BY <3>1, <3>2, <3>3, Zenon
  <2>3. Locked' /\ PoolExclusive' /\ Judged' /\ CancelledNotBlamed' /\ BarSound'
    BY <2>1, Zenon DEF ScanInv, Locked, PoolExclusive, Judged, CancelledNotBlamed, Failed, BarSound
  <2> QED
    BY <1>0, <2>2, <2>3, Zenon DEF ScanInv
<1> QED
  BY <1>1, <1>2, <1>3, <1>4, Zenon DEF Next

\* The inductive invariant holds throughout.
LEMMA InvHolds == Spec => []ScanInv
BY InitInv, NextInv, PTL DEF Spec

\* worker: no two attempts of one reservation pool run at the same time.
THEOREM PoolExclusiveHolds == Spec => []PoolExclusive
<1>1. ScanInv => PoolExclusive
  BY Zenon DEF ScanInv
<1> QED
  BY <1>1, InvHolds, PTL

\* runPhase(tail, 1): while an attempt of the tail runs, no other worker is left.
THEOREM TailAloneHolds == Spec => []TailAlone
<1>1. ScanInv => TailAlone
  <2> SUFFICES ASSUME ScanInv, NEW v \in Workers, NEW w \in Workers, v # w,
                      worker[w].pc = "running", worker[w].job.p \in Last
               PROVE  worker[v] = Gone
    BY Zenon DEF TailAlone
  <2>1. Stage(worker[w].job) = phase
    BY Zenon DEF ScanInv, Placed, Busy
  <2>2. phase \notin {"jobs", "retries"}
    BY <2>1, Zenon DEF Stage
  <2>3. worker[w] # Gone
    BY DEF Gone
  <2> QED
    BY <2>2, <2>3, Zenon DEF ScanInv, Serial
<1> QED
  BY <1>1, InvHolds, PTL

\* worker: what the end of the context cut short never counts as a failure.
THEOREM CancelledNotBlamedHolds == Spec => []CancelledNotBlamed
<1>1. ScanInv => CancelledNotBlamed
  BY Zenon DEF ScanInv
<1> QED
  BY <1>1, InvHolds, PTL

\* No job is attempted twice over all phases, and done is the number of attempts.
THEOREM JobsOnceHolds == Spec => []JobsOnce
<1>1. ScanInv => JobsOnce
  BY Zenon DEF ScanInv, JobsOnce, Placed, Counted
<1> QED
  BY <1>1, InvHolds, PTL

\* engine.Run's closure: the bar never goes back, in whichever order workers deliver.
THEOREM BarForwardHolds == Spec => BarForward
<1>1. ScanInv /\ [Next]_scanVars =>
        [/\ bar'.done >= bar.done
         /\ bar'.total >= bar.total
         /\ bar'.done <= bar'.total]_scanVars
  <2> SUFFICES ASSUME ScanInv, Next
               PROVE  bar'.done >= bar.done /\ bar'.total >= bar.total /\ bar'.done <= bar'.total
    BY Zenon
  <2>1. bar.done \in Nat /\ bar.total \in Nat /\ bar.done <= bar.total
    BY Zenon DEF ScanInv, TypeOK, BarSound
  <2>2. (~\E w \in Workers : Step(w)) => bar' = bar
    BY Zenon DEF Next, Main, GiveUp, EndJobs, EndRetries, EndTail, EndTailRetries, Collect, Fetch, EndContext
  <2> QED
    BY <2>1, <2>2, StepBar DEF ScanInv
<1> QED
  BY <1>1, InvHolds, PTL DEF Spec, BarForward

----------------------------------------------------------------------------
(* The order of the tail. *)

\* Once a provoking burst of the first rounds is with a worker or counted, no control is
\* left to hand over; a control is with a worker only if none is counted.
TailOrder ==
    phase = "tail" =>
        /\ \A a \in attempts, j \in todo : ~(a.job.p \in Provoking /\ j.p \in BurstControl)
        /\ \A w \in Workers, j \in todo :
              Busy(w) => ~(worker[w].job.p \in Provoking /\ j.p \in BurstControl)
        /\ \A a \in attempts, w \in Workers :
              Busy(w) => ~(a.job.p \in Provoking /\ worker[w].job.p \in BurstControl)

\* What runs before the tail is no part of it.
LEMMA BeforeTail ==
    ASSUME TypeOK, Placed, phase \in {"jobs", "retries"}
    PROVE  \A a \in attempts : a.job.p \notin Provoking
<1>1. \A a \in attempts : Stage(a.job) \in {"jobs", "retries"}
  BY Zenon DEF Placed, UpTo
<1>2. \A a \in attempts : a.job.p \notin Last
  BY <1>1, Zenon DEF Stage
<1> QED
  BY <1>2, ScanConstants, Zenon

\* What the producer offers in the tail is of the lowest rank there is.
LEMMA OfferedLow ==
    ASSUME phase = "tail", NEW j \in Offered, NEW k \in todo, j.p \in Provoking
    PROVE  k.p \notin BurstControl
<1>1. ~Before(k, j)
  BY Zenon DEF Offered
<1>2. k.p \in BurstControl => tailRank(k.p) = 1 /\ tailRank(j.p) = 2
  BY ScanConstants, Zenon DEF tailRank
<1>3. tailRank(k.p) < tailRank(j.p) => Before(k, j)
  BY Zenon DEF Before
<1> QED
  BY <1>1, <1>2, <1>3

\* A step of a worker keeps the order: the one worker of the tail takes the jobs as sorted.
LEMMA StepTailOrder ==
    ASSUME ScanInv, TailOrder, NEW w \in Workers, Step(w)
    PROVE  TailOrder'
<1>0. SUFFICES ASSUME phase = "tail"
               PROVE  TailOrder'
  BY StepOthers, Zenon DEF ScanInv, TailOrder
<1>1. /\ \A v \in Workers : v # w => worker'[v] = worker[v] /\ ~Busy(v) /\ ~Busy(v)'
      /\ worker[w] \in WorkerState /\ worker \in [Workers -> WorkerState] /\ TypeOK
  <2>1. worker[w] # Gone /\ \A v \in Workers : v # w => worker'[v] = worker[v]
    BY StepOthers, Zenon DEF ScanInv
  <2>2. w = 1
    BY <1>0, <2>1, Zenon DEF ScanInv, Serial
  <2>3. \A v \in Workers : v # w => worker[v] = Gone
    BY <1>0, <2>2, Zenon DEF ScanInv, Serial
  <2> QED
    BY <2>1, <2>3 DEF Busy, Gone, ScanInv, TypeOK
<1>2. CASE \E j \in Job : HandOver(w, j)
  <2>1. PICK j \in Job : HandOver(w, j)
    BY <1>2, Zenon
  <2>2. j \in todo /\ j \in Offered /\ todo' \subseteq todo /\ UNCHANGED <<attempts, phase>>
    BY <2>1, Zenon DEF HandOver, Offered
  <2>3. Busy(w)' => worker'[w].job = j
    <3>1. worker'[w] = [pc |-> "ready", job |-> j] \/ worker'[w] = Gone
      BY <1>1, <2>1, Zenon DEF HandOver
    <3> QED
      BY <3>1 DEF Busy, Gone
  <2> QED
    BY <1>0, <1>1, <2>2, <2>3, OfferedLow, Zenon DEF TailOrder
<1>3. CASE Count(w)
  <2> DEFINE a == [job |-> worker[w].job, out |-> worker[w].out, cut |-> worker[w].cut]
  <2>1. attempts' = attempts \cup {a} /\ UNCHANGED <<phase, todo>> /\ Busy(w)
    BY <1>3, Zenon DEF Count, Busy
  <2>2. ~Busy(w)'
    BY <1>1, <1>3, StepMoves, Zenon DEF Busy
  <2>3. a.job = worker[w].job
    BY Zenon
  <2> HIDE DEF a
  <2> QED
    BY <1>0, <1>1, <2>1, <2>2, <2>3, Zenon DEF TailOrder
<1>4. CASE Leave(w) \/ Deliver(w)
  <2>1. ~Busy(w)'
    BY <1>1, <1>4, StepMoves, Zenon DEF Busy
  <2>2. UNCHANGED <<phase, todo, attempts>>
    BY <1>4, Zenon DEF Leave, Deliver
  <2> QED
    BY <1>1, <2>1, <2>2, Zenon DEF TailOrder
<1>5. CASE Start(w) \/ (\E out \in Outcomes : Finish(w, out)) \/ Judge(w)
  <2>1. UNCHANGED <<phase, todo, attempts>> /\ Busy(w)
    BY <1>5, Zenon DEF Start, Finish, Judge, Busy
  <2>2. worker'[w].job = worker[w].job
    <3>1. CASE Start(w)
      BY <1>1, <3>1, StartForm
    <3>2. CASE \E out \in Outcomes : Finish(w, out)
      BY <1>1, <3>2 DEF Finish
    <3>3. CASE Judge(w)
      BY <1>1, <3>3, JudgeForm
    <3> QED
      BY <1>5, <3>1, <3>2, <3>3, Zenon
  <2> QED
    BY <1>1, <2>1, <2>2, Zenon DEF TailOrder
<1> QED
  BY <1>2, <1>3, <1>4, <1>5, Zenon DEF Step

\* The tail starts with nothing of it done.
LEMMA MainTailOrder ==
    ASSUME ScanInv, TailOrder, Main
    PROVE  TailOrder'
<1>1. CASE GiveUp
  BY <1>1, Zenon DEF GiveUp, TailOrder, Busy
<1>2. CASE ~GiveUp
  <2>1. (\A w \in Workers : ~Busy(w)') /\ UNCHANGED attempts
    BY <1>2, MainNotRunning, Zenon DEF ScanInv, Busy
  <2>2. phase' = "tail" => phase \in {"jobs", "retries"}
    BY <1>2, Zenon DEF Main, EndJobs, EndRetries, EndTail, EndTailRetries, Collect, Fetch, StartPhase
  <2> QED
    BY <2>1, <2>2, BeforeTail, Zenon DEF ScanInv, TailOrder
<1> QED
  BY <1>1, <1>2, Zenon

\* Run's stable sort by tailRank and runPhase(tail, 1): no burst control of the first rounds
\* runs after a provoking burst has.
THEOREM ControlsBeforeBurstsHolds == Spec => []ControlsBeforeBursts
<1>1. Init => TailOrder
  BY Zenon DEF Init, TailOrder
<1>2. ScanInv /\ TailOrder /\ [Next]_scanVars => TailOrder'
  <2> SUFFICES ASSUME ScanInv, TailOrder, [Next]_scanVars PROVE TailOrder'
    BY Zenon
  <2>1. CASE (\E why \in {"stopped", "deadline"} : EndContext(why)) \/ UNCHANGED scanVars
    <3>1. UNCHANGED <<phase, todo, worker, attempts>>
      BY <2>1, Zenon DEF EndContext, scanVars
    <3> QED
      BY <3>1, Zenon DEF TailOrder, Busy
  <2> QED
    BY <2>1, StepTailOrder, MainTailOrder, Zenon DEF Next
<1>3. TailOrder => ControlsBeforeBursts
  BY Zenon DEF TailOrder, ControlsBeforeBursts, Busy
<1> QED
  BY <1>1, <1>2, <1>3, InvHolds, PTL DEF Spec

----------------------------------------------------------------------------
(* What the scan promises: the rest of the invariant the refinement needs. *)

\* Jobs of one kind (tail or not) and one port group are retried together.
Kind(p) == <<p \in Last, Group[p]>>

\* A failure that counts for the job's retry is in.
Due(j) == \E a \in attempts : Failed(a) /\ Kind(a.job.p) = Kind(j.p)

Assigned(j) ==
    \/ j \in todo
    \/ \E w \in Workers : Busy(w) /\ worker[w].job = j
    \/ \E a \in attempts : a.job = j

\* Unless somebody stopped it, the scan has set out to do exactly what it owes so far.
Complete ==
    stop = "no" =>
        \A j \in Job :
            Assigned(j) <=> Stage(j) \in UpTo(phase) /\ (j.r <= Repeat \/ Due(j))

Reporting == {w \in Workers : worker[w].pc = "report"}

\* The bar lacks the results whose workers have still to deliver them.
Shown == bar.done + Cardinality(Reporting) = Cardinality(attempts)

OfStage(s) == {j \in Job : Stage(j) = s}

Foreseen(s) == {j \in OfStage(s) : Kind(j.p) \in foreseen}

FirstTold == foretold[FALSE]

TailTold == foretold[TRUE]

\* foretold counts the retries of the kinds foreseen, once each.
Foretold ==
    /\ FirstTold = Cardinality(Foreseen("retries"))
    /\ TailTold = Cardinality(Foreseen("tailRetries"))

Size(s) == Cardinality(OfStage(s))

\* total is what has been foretold or reconciled so far.
Totalled ==
    /\ phase = "jobs" => total = Size("jobs") + Size("tail") + FirstTold + TailTold
    /\ phase \in {"retries", "tail"} =>
            total <= Size("jobs") + Size("tail") + Size("retries") + TailTold
    /\ total <= Cardinality(Job)

\* No total that was reported exceeds the jobs there can be.
Reported ==
    /\ \A w \in Reporting : worker[w].t <= Cardinality(Job)
    /\ bar.total <= Cardinality(Job)

PromiseInv == ScanInv /\ Complete /\ Shown /\ Foretold /\ Totalled /\ Reported

----------------------------------------------------------------------------
(* What the scan owes. *)

\* The kinds of two jobs, apart.
LEMMA SameKind ==
    ASSUME NEW p, NEW q
    PROVE  Kind(p) = Kind(q) <=> (p \in Last <=> q \in Last) /\ Group[p] = Group[q]
<1> DEFINE b == p \in Last
           c == q \in Last
<1>1. b \in BOOLEAN /\ c \in BOOLEAN
  OBVIOUS
<1>2. Kind(p) = <<b, Group[p]>> /\ Kind(q) = <<c, Group[q]>>
  BY Zenon DEF Kind
<1> HIDE DEF b, c
<1>3. Kind(p) = Kind(q) <=> b = c /\ Group[p] = Group[q]
  BY <1>2
<1>4. b = c <=> (b <=> c)
  BY <1>1, Zenon
<1> QED
  BY <1>3, <1>4, Zenon DEF b, c

\* Every job has a stage.
LEMMA Stages ==
    ASSUME NEW j \in Job
    PROVE  /\ Stage(j) \in Phases
           /\ Stage(j) = "jobs" <=> j.p \notin Last /\ j.r <= Repeat
           /\ Stage(j) = "retries" <=> j.p \notin Last /\ ~(j.r <= Repeat)
           /\ Stage(j) = "tail" <=> j.p \in Last /\ j.r <= Repeat
           /\ Stage(j) = "tailRetries" <=> j.p \in Last /\ ~(j.r <= Repeat)
BY DEF Stage, Phases

\* Whether a plan is of the tail, as the value the phases are told apart by.
LEMMA NotLast ==
    ASSUME NEW p
    PROVE  ((p \in Last) = FALSE <=> p \notin Last) /\ ((p \in Last) = TRUE <=> p \in Last)
<1> DEFINE b == p \in Last
<1>1. b \in BOOLEAN
  OBVIOUS
<1> HIDE DEF b
<1>2. (b = FALSE <=> ~b) /\ (b = TRUE <=> b)
  BY <1>1, Zenon
<1> QED
  BY <1>2, Zenon DEF b

\* The first rounds are whole stages.
LEMMA FirstStages ==
    ASSUME NEW j \in Job
    PROVE  /\ j \in FirstRounds(FALSE) <=> Stage(j) = "jobs"
           /\ j \in FirstRounds(TRUE) <=> Stage(j) = "tail"
<1>1. /\ j \in FirstRounds(FALSE) <=> j.r <= Repeat /\ j.p \notin Last
      /\ j \in FirstRounds(TRUE) <=> j.r <= Repeat /\ j.p \in Last
  BY NotLast, Zenon DEF FirstRounds
<1> QED
  BY <1>1, Stages, Zenon

\* lastTests tells the tail's plans from the others.
LEMMA LastTest ==
    ASSUME NEW p \in Plans
    PROVE  TestID[p] \in lastTests <=> p \in Last
BY ScanConstants DEF lastTests

\* What retryRounds returns when it is called is what is due, of its stage.
LEMMA RetryStages ==
    ASSUME TypeOK, Placed, NEW j \in Job
    PROVE  /\ phase = "jobs" => (j \in retryRounds(FALSE) <=> Stage(j) = "retries" /\ Due(j))
           /\ phase = "tail" => (j \in retryRounds(TRUE) <=> Stage(j) = "tailRetries" /\ Due(j))
<1>1. \A a \in attempts : a.job \in Job /\ a.job.p \in Plans
  BY Zenon DEF TypeOK, Attempt, Job
<1>2. j.r > Repeat <=> ~(j.r <= Repeat)
  BY ConstantTypes DEF Job
<1>3. ASSUME phase = "jobs"
      PROVE  j \in retryRounds(FALSE) <=> Stage(j) = "retries" /\ Due(j)
  <2>1. \A a \in attempts : a.job.p \notin Last
    BY <1>1, <1>3, Stages, Zenon DEF Placed, UpTo
  <2>2. j \in retryRounds(FALSE) <=>
            /\ ~(j.r <= Repeat) /\ j.p \notin Last
            /\ \E a \in attempts : Failed(a) /\ Group[a.job.p] = Group[j.p]
    BY <1>2, NotLast, Zenon DEF retryRounds, failedGroups
  <2>3. j.p \notin Last =>
            (Due(j) <=> \E a \in attempts : Failed(a) /\ Group[a.job.p] = Group[j.p])
    BY <2>1, SameKind DEF Due
  <2> QED
    BY <2>2, <2>3, Stages, Zenon
<1>4. ASSUME phase = "tail"
      PROVE  j \in retryRounds(TRUE) <=> Stage(j) = "tailRetries" /\ Due(j)
  <2>1. j \in retryRounds(TRUE) <=>
            /\ ~(j.r <= Repeat) /\ j.p \in Last
            /\ \E a \in attempts : /\ Failed(a) /\ TestID[a.job.p] \in lastTests
                                   /\ Group[a.job.p] = Group[j.p]
    BY <1>2, NotLast, Zenon DEF retryRounds, failedGroups
  <2>2. j.p \in Last =>
            (Due(j) <=> \E a \in attempts : /\ Failed(a) /\ TestID[a.job.p] \in lastTests
                                            /\ Group[a.job.p] = Group[j.p])
    BY <1>1, LastTest, SameKind, Zenon DEF Due
  <2> QED
    BY <2>1, <2>2, Stages, Zenon
<1> QED
  BY <1>3, <1>4, Zenon

\* Expected, over the attempts, is what the scan owes at the end.
LEMMA OwedJobs ==
    ASSUME NEW j \in Job
    PROVE  j \in Expected(attempts) <=> j.r <= Repeat \/ Due(j)
<1>1. j \in Expected(attempts) <=>
        \/ j.r <= Repeat
        \/ Kind(j.p) \in {Kind(a.job.p) : a \in {b \in attempts : Failed(b)}}
  BY Zenon DEF Expected, Kind
<1>2. Kind(j.p) \in {Kind(a.job.p) : a \in {b \in attempts : Failed(b)}} <=> Due(j)
  BY Zenon DEF Due
<1> QED
  BY <1>1, <1>2, Zenon

\* With no retry configured there are first rounds only.
LEMMA NoRetries ==
    ASSUME NEW j \in Job, ~(Retry > 0)
    PROVE  j.r <= Repeat
BY ConstantTypes DEF Job

\* A worker's step keeps the account: its job goes on, and a failure in a retry round makes
\* nothing due that was not.
LEMMA StepComplete ==
    ASSUME ScanInv, Complete, NEW w \in Workers, Step(w)
    PROVE  Complete'
<1>0. SUFFICES ASSUME stop = "no", NEW j \in Job
               PROVE  /\ (\A i \in Job : Assigned(i) <=> Assigned(i)')
                      /\ Due(j) => Due(j)'
                      /\ (Stage(j) \in UpTo(phase) /\ ~(j.r <= Repeat) /\ Due(j)') => Due(j)
  BY StepOthers, Zenon DEF ScanInv, Complete
<1>1. /\ \A v \in Workers : v # w => worker'[v] = worker[v] /\ (Busy(v) <=> Busy(v)')
      /\ worker[w] \in WorkerState /\ worker \in [Workers -> WorkerState] /\ TypeOK
  BY StepOthers, Zenon DEF ScanInv, TypeOK, Busy
<1>2. CASE \E i \in Job : HandOver(w, i)
  <2>1. PICK i \in Job : HandOver(w, i)
    BY <1>2, Zenon
  <2>2. i \in todo /\ todo' = todo \ {i} /\ UNCHANGED attempts
    BY <1>0, <2>1, Zenon DEF HandOver, Offered
  <2>3. worker'[w] = [pc |-> "ready", job |-> i] /\ worker[w] = InLoop
    BY <1>0, <1>1, <2>1, Zenon DEF HandOver
  <2>4. Busy(w)' /\ worker'[w].job = i /\ ~Busy(w)
    BY <2>3 DEF Busy, InLoop
  <2>5. \A k \in Job : Assigned(k) <=> Assigned(k)'
    BY <1>1, <2>2, <2>4, Zenon DEF Assigned
  <2> QED
    BY <2>2, <2>5, Zenon DEF Due, Failed
<1>3. CASE Count(w)
  <2> DEFINE a == [job |-> worker[w].job, out |-> worker[w].out, cut |-> worker[w].cut]
  <2>1. attempts' = attempts \cup {a} /\ UNCHANGED <<phase, todo>> /\ Busy(w)
    BY <1>3, Zenon DEF Count, Busy
  <2>2. ~Busy(w)'
    BY <1>1, <1>3, StepMoves, Zenon DEF Busy
  <2>3. a.job = worker[w].job
    BY Zenon
  <2>4. a.job \in Job
    BY <1>1, <2>1, <2>3, WorkerShape, Zenon DEF Busy
  <2> HIDE DEF a
  <2>5. \A i \in Job : Assigned(i) <=> Assigned(i)'
    BY <1>1, <2>1, <2>2, <2>3, Zenon DEF Assigned
  <2>6. Due(j) => Due(j)'
    BY <2>1, Zenon DEF Due, Failed
  <2>7. ASSUME Stage(j) \in UpTo(phase), ~(j.r <= Repeat), Due(j)', ~Due(j)
        PROVE  FALSE
    <3>1. Failed(a) /\ Kind(a.job.p) = Kind(j.p)
      BY <2>1, <2>7, Zenon DEF Due, Failed
    <3>2. Stage(a.job) = phase
      BY <2>1, <2>3, Zenon DEF ScanInv, Placed
    <3>3. a.job.p \in Last <=> j.p \in Last
      BY <3>1, SameKind, Zenon
    <3>4. ~(a.job.r <= Repeat)
      BY <2>4, <2>7, <3>2, <3>3, Stages, Zenon DEF UpTo, Phases
    <3>5. Assigned(a.job)
      BY <2>1, <2>3, Zenon DEF Assigned
    <3>6. Due(a.job)
      BY <1>0, <2>4, <3>4, <3>5, Zenon DEF Complete
    <3> QED
      BY <2>7, <3>1, <3>6, Zenon DEF Due
  <2> QED
    BY <2>5, <2>6, <2>7, Zenon
<1>4. CASE Leave(w) \/ Deliver(w)
  <2>1. ~Busy(w)' /\ ~Busy(w)
    BY <1>1, <1>4, StepMoves, Zenon DEF Busy
  <2>2. UNCHANGED <<phase, todo, attempts>>
    BY <1>4, Zenon DEF Leave, Deliver
  <2>3. \A i \in Job : Assigned(i) <=> Assigned(i)'
    BY <1>1, <2>1, <2>2, Zenon DEF Assigned
  <2> QED
    BY <2>2, <2>3, Zenon DEF Due, Failed
<1>5. CASE Start(w) \/ (\E out \in Outcomes : Finish(w, out)) \/ Judge(w)
  <2>1. UNCHANGED <<phase, todo, attempts>> /\ Busy(w)
    BY <1>5, Zenon DEF Start, Finish, Judge, Busy
  <2>2. worker'[w].job = worker[w].job /\ Busy(w)'
    <3>1. CASE Start(w)
      BY <1>1, <3>1, StartForm DEF Busy
    <3>2. CASE \E out \in Outcomes : Finish(w, out)
      BY <1>1, <3>2 DEF Finish, Busy
    <3>3. CASE Judge(w)
      BY <1>1, <3>3, JudgeForm DEF Busy
    <3> QED
      BY <1>5, <3>1, <3>2, <3>3, Zenon
  <2>3. \A i \in Job : Assigned(i) <=> Assigned(i)'
    BY <1>1, <2>1, <2>2, Zenon DEF Assigned
  <2> QED
    BY <2>1, <2>3, Zenon DEF Due, Failed
<1> QED
  BY <1>2, <1>3, <1>4, <1>5, Zenon DEF Step

\* A phase begins when the one before is done, with what is owed next.
LEMMA MainComplete ==
    ASSUME ScanInv, Complete, Main
    PROVE  Complete'
<1>0. SUFFICES ASSUME stop = "no", ~GiveUp, NEW j \in Job
               PROVE  Assigned(j)' <=> Stage(j) \in UpTo(phase') /\ (j.r <= Repeat \/ Due(j)')
  <2>1. stop' = stop
    BY Zenon DEF Main, GiveUp, EndJobs, EndRetries, EndTail, EndTailRetries, Collect, Fetch
  <2>2. GiveUp => stop # "no"
    BY Zenon DEF GiveUp
  <2> QED
    BY <2>1, <2>2, Zenon DEF Complete
<1>1. AllGone /\ todo = {}
  <2>1. AllGone
    BY <1>0, Zenon DEF Main, EndJobs, EndRetries, EndTail, EndTailRetries, Collect, Fetch, ScanInv,
                Serial, Phases
  <2> QED
    BY <2>1, OneWorker, Zenon DEF AllGone, ScanInv, Draining
<1>2. (\A w \in Workers : ~Busy(w) /\ ~Busy(w)') /\ UNCHANGED attempts
  <2>1. \A w \in Workers : ~Busy(w)
    BY <1>1 DEF AllGone, Busy, Gone
  <2> QED
    BY <1>0, <2>1, MainNotRunning, Zenon DEF ScanInv, Busy
<1>3. /\ Assigned(j) <=> \E a \in attempts : a.job = j
      /\ Assigned(j)' <=> j \in todo' \/ Assigned(j)
  BY <1>1, <1>2, Zenon DEF Assigned
<1>4. Due(j)' <=> Due(j)
  BY <1>2, Zenon DEF Due, Failed
<1>5. Assigned(j) <=> Stage(j) \in UpTo(phase) /\ (j.r <= Repeat \/ Due(j))
  BY <1>0, Zenon DEF Complete
<1>6. TypeOK /\ Placed
  BY Zenon DEF ScanInv
<1>7. CASE EndJobs
  <2>1. phase = "jobs"
    BY <1>7, Zenon DEF EndJobs
  <2>2. CASE RetryDue /\ retryRounds(FALSE) # {}
    <3>1. phase' = "retries" /\ todo' = retryRounds(FALSE)
      BY <1>7, <2>2, Zenon DEF EndJobs, StartPhase
    <3> QED
      BY <1>3, <1>4, <1>5, <1>6, <2>1, <3>1, RetryStages, Stages, Zenon DEF UpTo
  <2>3. CASE ~(RetryDue /\ retryRounds(FALSE) # {})
    <3>1. phase' = "tail" /\ todo' = FirstRounds(TRUE)
      BY <1>7, <2>3, Zenon DEF EndJobs, StartPhase
    <3>2. Stage(j) = "retries" => ~Due(j)
      BY <1>0, <1>6, <2>1, <2>3, NoRetries, RetryStages, Stages, Zenon DEF RetryDue
    <3> QED
      BY <1>3, <1>4, <1>5, <2>1, <3>1, <3>2, FirstStages, Stages, Zenon DEF UpTo
  <2> QED
    BY <2>2, <2>3, Zenon
<1>8. CASE EndRetries
  <2>1. phase = "retries" /\ phase' = "tail" /\ todo' = FirstRounds(TRUE)
    BY <1>8, Zenon DEF EndRetries, StartPhase
  <2> QED
    BY <1>3, <1>4, <1>5, <2>1, FirstStages, Stages, Zenon DEF UpTo
<1>9. CASE EndTail
  <2> DEFINE again == RetryDue /\ FirstRounds(TRUE) # {}
  <2>1. phase = "tail"
    BY <1>9, Zenon DEF EndTail
  <2>2. CASE again /\ retryRounds(TRUE) # {}
    <3>1. phase' = "tailRetries" /\ todo' = retryRounds(TRUE)
      BY <1>9, <2>2, Zenon DEF EndTail, StartPhase
    <3> QED
      BY <1>3, <1>4, <1>5, <1>6, <2>1, <3>1, RetryStages, Stages, Zenon DEF UpTo, Phases
  <2>3. CASE ~(again /\ retryRounds(TRUE) # {})
    <3>1. phase' = "collect" /\ todo' = {}
      BY <1>1, <1>9, <2>3, Zenon DEF EndTail
    <3>2. ASSUME Stage(j) = "tailRetries", Due(j)
          PROVE  FALSE
      <4>1. Retry > 0
        BY <3>2, NoRetries, Stages, Zenon
      <4>2. retryRounds(TRUE) # {}
        BY <1>6, <2>1, <3>2, RetryStages, Zenon
      <4>3. FirstRounds(TRUE) # {}
        <5> DEFINE i == [p |-> j.p, r |-> 1]
        <5>1. i \in Job /\ i.p \in Last /\ i.r <= Repeat
          BY <3>2, Stages, ScanConstants DEF Job
        <5> QED
          BY <5>1, FirstStages, Stages, Zenon
      <4> QED
        BY <1>0, <2>3, <4>1, <4>2, <4>3, Zenon DEF RetryDue
    <3> QED
      BY <1>3, <1>4, <1>5, <2>1, <3>1, <3>2, Stages, Zenon DEF UpTo, Phases
  <2> QED
    BY <2>2, <2>3, Zenon
<1>10. CASE EndTailRetries \/ Collect \/ \E ok \in BOOLEAN : Fetch(ok)
  <2>1. /\ UpTo(phase) = Phases /\ UpTo(phase') = Phases /\ todo' = todo
    BY <1>10, Zenon DEF EndTailRetries, Collect, Fetch, UpTo
  <2> QED
    BY <1>1, <1>3, <1>4, <1>5, <2>1, Zenon
<1> QED
  BY <1>0, <1>7, <1>8, <1>9, <1>10, Zenon DEF Main

----------------------------------------------------------------------------
(* The bar and the results it lacks. *)

\* Reporting workers are finitely many.
LEMMA ReportingFinite ==
    /\ IsFiniteSet(Reporting) /\ Cardinality(Reporting) \in Nat
<1>1. IsFiniteSet(Workers)
  BY ConstantTypes, FS_Interval DEF Workers
<1>2. Reporting \in SUBSET Workers
  BY Zenon DEF Reporting
<1> QED
  BY <1>1, <1>2, FS_Subset, FS_CardinalityType, Zenon

\* A worker that counts starts to lack, one that delivers stops.
LEMMA StepShown ==
    ASSUME ScanInv, Shown, NEW w \in Workers, Step(w)
    PROVE  Shown'
<1>0. /\ \A v \in Workers : v # w => worker'[v] = worker[v]
      /\ worker[w] \in WorkerState /\ worker \in [Workers -> WorkerState] /\ TypeOK
  BY StepOthers, Zenon DEF ScanInv, TypeOK
<1>1. bar.done \in Nat
  BY Zenon DEF ScanInv, TypeOK
<1>2. CASE Count(w)
  <2>1. Reporting' = Reporting \cup {w} /\ w \notin Reporting /\ bar' = bar
    BY <1>0, <1>2, StepMoves DEF Reporting, Count
  <2>2. Cardinality(Reporting') = Cardinality(Reporting) + 1
    BY <2>1, ReportingFinite, FS_AddElement, Zenon
  <2>3. Cardinality(attempts') = Cardinality(attempts) + 1
    BY <1>2, StepCounted, Zenon DEF ScanInv, Counted, Count
  <2> QED
    BY <1>1, <2>1, <2>2, <2>3, ReportingFinite DEF Shown
<1>3. CASE Deliver(w)
  <2>1. Reporting' = Reporting \ {w} /\ w \in Reporting /\ UNCHANGED attempts
    BY <1>0, <1>3, StepMoves DEF Reporting
  <2>2. Cardinality(Reporting') = Cardinality(Reporting) - 1
    BY <2>1, ReportingFinite, FS_RemoveElement, Zenon
  <2>3. bar'.done = bar.done + 1
    BY <1>3, Zenon DEF Deliver
  <2> QED
    BY <1>1, <2>1, <2>2, <2>3, ReportingFinite DEF Shown
<1>4. CASE ~Count(w) /\ ~Deliver(w)
  <2>1. worker[w].pc # "report" /\ worker'[w].pc # "report"
    <3>1. Start(w) => worker'[w].pc = "running"
      BY <1>0, StartForm
    <3> QED
      BY <1>0, <1>4, <3>1, StepMoves, Zenon DEF Step
  <2>2. Reporting' = Reporting
    BY <1>0, <2>1, Zenon DEF Reporting
  <2>3. UNCHANGED <<attempts, bar>>
    BY <1>4, Zenon DEF Step, HandOver, Leave, Start, Finish, Judge
  <2> QED
    BY <2>2, <2>3, Zenon DEF Shown
<1> QED
  BY <1>2, <1>3, <1>4, Zenon

\* Run's own thread waits for every delivery.
LEMMA MainReporting ==
    ASSUME ScanInv, Main
    PROVE  /\ Reporting' = Reporting /\ UNCHANGED <<attempts, bar>>
           /\ ~GiveUp => Reporting = {}
           /\ GiveUp => UNCHANGED <<worker, total, phase, foretold, foreseen>>
<1>1. CASE GiveUp
  BY <1>1, Zenon DEF GiveUp, Reporting
<1>2. CASE ~GiveUp
  <2>1. AllGone
    BY <1>2, Zenon DEF Main, EndJobs, EndRetries, EndTail, EndTailRetries, Collect, Fetch, ScanInv,
                Serial, Phases
  <2>2. Reporting = {}
    BY <2>1 DEF AllGone, Reporting, Gone
  <2>3. Reporting' = {} /\ UNCHANGED <<attempts, bar>>
    BY <1>2, MainNotRunning, Zenon DEF ScanInv, Reporting
  <2> QED
    BY <1>2, <2>2, <2>3, Zenon
<1> QED
  BY <1>1, <1>2, Zenon

----------------------------------------------------------------------------
(* The total. *)

\* Each stage is finite, and together they are the jobs.
LEMMA StageSizes ==
    /\ \A s : IsFiniteSet(OfStage(s)) /\ Size(s) \in Nat
    /\ Cardinality(Job) = Size("jobs") + Size("tail") + Size("retries") + Size("tailRetries")
<1> DEFINE A == OfStage("jobs")
           B == OfStage("tail")
           C == OfStage("retries")
           D == OfStage("tailRetries")
<1>1. \A s : IsFiniteSet(OfStage(s)) /\ Size(s) \in Nat
  <2>1. \A s : OfStage(s) \in SUBSET Job
    BY Zenon DEF OfStage
  <2> QED
    BY <2>1, JobsFinite, Zenon DEF Size
<1>2. Job = ((A \cup B) \cup C) \cup D
  BY Stages, Zenon DEF OfStage, Phases
<1>3. A \cap B = {} /\ (A \cup B) \cap C = {} /\ ((A \cup B) \cup C) \cap D = {}
  BY Zenon DEF OfStage
<1>4. IsFiniteSet(A) /\ IsFiniteSet(B) /\ IsFiniteSet(C) /\ IsFiniteSet(D)
  BY <1>1, Zenon
<1>5. /\ Cardinality(A) = Size("jobs") /\ Cardinality(B) = Size("tail")
      /\ Cardinality(C) = Size("retries") /\ Cardinality(D) = Size("tailRetries")
  BY Zenon DEF Size
<1> HIDE DEF A, B, C, D
<1>6. IsFiniteSet(A \cup B) /\ Cardinality(A \cup B) = Cardinality(A) + Cardinality(B) - 0
  BY <1>3, <1>4, FS_Union, FS_EmptySet
<1>7. /\ IsFiniteSet((A \cup B) \cup C)
      /\ Cardinality((A \cup B) \cup C) = Cardinality(A \cup B) + Cardinality(C) - 0
  BY <1>3, <1>4, <1>6, FS_Union, FS_EmptySet
<1>8. Cardinality(((A \cup B) \cup C) \cup D) = Cardinality((A \cup B) \cup C) + Cardinality(D) - 0
  BY <1>3, <1>4, <1>7, FS_Union, FS_EmptySet
<1> QED
  BY <1>1, <1>2, <1>5, <1>6, <1>7, <1>8

\* foretold never exceeds the retry rounds there can be.
LEMMA ForetoldBound ==
    ASSUME Foretold
    PROVE  /\ FirstTold \in Nat /\ FirstTold <= Size("retries")
           /\ TailTold \in Nat /\ TailTold <= Size("tailRetries")
<1>1. \A s : Foreseen(s) \in SUBSET OfStage(s)
  BY Zenon DEF Foreseen
<1>2. \A s : Cardinality(Foreseen(s)) \in Nat /\ Cardinality(Foreseen(s)) <= Size(s)
  BY <1>1, StageSizes, FS_Subset, FS_CardinalityType, Zenon DEF Size
<1> QED
  BY <1>2, Zenon DEF Foretold

\* The retries of a kind: every round of every plan of it.
LEMMA RetriesOfKind ==
    ASSUME NEW q \in Plans, NEW s,
           s = IF q \in Last THEN "tailRetries" ELSE "retries"
    PROVE  Cardinality({j \in OfStage(s) : Kind(j.p) = Kind(q)})
             = Retry * Cardinality(PlansOf(q \in Last, Group[q]))
<1> DEFINE N == {j \in OfStage(s) : Kind(j.p) = Kind(q)}
           P == PlansOf(q \in Last, Group[q])
           R == (Repeat + 1)..(Repeat + Retry)
           f == [x \in P \X R |-> [p |-> x[1], r |-> x[2]]]
<1>1. \A p : p \in P <=> p \in Plans /\ Kind(p) = Kind(q)
  <2>1. \A p : p \in P <=> p \in Plans /\ (p \in Last) = (q \in Last) /\ Group[p] = Group[q]
    BY Zenon DEF PlansOf
  <2>2. ASSUME NEW p
        PROVE  (p \in Last) = (q \in Last) <=> (p \in Last <=> q \in Last)
    <3> DEFINE b == p \in Last
               c == q \in Last
    <3>1. b \in BOOLEAN /\ c \in BOOLEAN
      OBVIOUS
    <3> HIDE DEF b, c
    <3>2. b = c <=> (b <=> c)
      BY <3>1, Zenon
    <3> QED
      BY <3>2, Zenon DEF b, c
  <2> QED
    BY <2>1, <2>2, SameKind, Zenon
<1>2. IsFiniteSet(P) /\ Cardinality(P) \in Nat
  BY PlansFinite, Zenon
<1>3. IsFiniteSet(R) /\ Cardinality(R) = Retry
  <2>1. Repeat + 1 \in Int /\ Repeat + Retry \in Int /\ Retry \in Nat /\ Repeat \in Nat
    BY ConstantTypes
  <2> QED
    BY <2>1, FS_Interval
<1> HIDE DEF P
<1>4. \A j : j \in N <=> j \in Job /\ j.p \in P /\ j.r \in R
  <2>1. \A j \in Job : Kind(j.p) = Kind(q) => (Stage(j) = s <=> ~(j.r <= Repeat))
    BY SameKind, Stages, Zenon
  <2>2. \A j \in Job : ~(j.r <= Repeat) <=> j.r \in R
    BY ConstantTypes DEF Job
  <2>3. \A j \in Job : j.p \in Plans
    BY Zenon DEF Job
  <2> QED
    BY <1>1, <2>1, <2>2, <2>3, Zenon DEF OfStage
<1>5. \A p \in P : p \in Plans
  BY <1>1, Zenon
<1>6. \A r \in R : r \in 1..(Repeat + Retry)
  BY ConstantTypes
<1> HIDE DEF N, R
<1>7. f \in [P \X R -> N]
  BY <1>4, <1>5, <1>6, Zenon DEF Job
<1>8. f \in Injection(P \X R, N)
  <2>1. ASSUME NEW x \in P \X R, NEW y \in P \X R, f[x] = f[y]
        PROVE  x = y
    <3>1. f[x].p = x[1] /\ f[x].r = x[2] /\ f[y].p = y[1] /\ f[y].r = y[2]
      BY Zenon
    <3> QED
      BY <2>1, <3>1
  <2> HIDE DEF f
  <2> QED
    BY <1>7, <2>1, Zenon DEF Injection, IsInjective
<1>9. f \in Surjection(P \X R, N)
  <2>1. ASSUME NEW j \in N
        PROVE  \E x \in P \X R : f[x] = j
    <3>1. <<j.p, j.r>> \in P \X R /\ j \in Job
      BY <1>4, Zenon
    <3>2. f[<<j.p, j.r>>] = j
      BY <3>1, Zenon DEF Job
    <3> QED
      BY <3>1, <3>2, Zenon
  <2> QED
    BY <1>7, <2>1, Zenon DEF Surjection
<1>10. IsFiniteSet(P \X R) /\ Cardinality(P \X R) = Cardinality(P) * Cardinality(R)
  BY <1>2, <1>3, FS_Product, Zenon
<1>11. Cardinality(N) = Cardinality(P \X R)
  BY <1>8, <1>9, <1>10, FS_Surjection, Zenon
<1>12. Cardinality(N) = Retry * Cardinality(P)
  BY <1>2, <1>3, <1>10, <1>11, ConstantTypes
<1> QED
  BY <1>12, Zenon DEF N, P

\* What a counted attempt adds to the total: nothing, or the retries of its kind, once.
LEMMA CountForm ==
    ASSUME TypeOK, NEW w \in Workers, Count(w)
    PROVE  /\ worker[w].job \in Job /\ worker[w].job.p \in Plans
           /\ \E n \in Nat :
                /\ total' = total + n
                /\ worker'[w].t = total'
                /\ IF worker[w].job.p \in Last
                   THEN TailTold' = TailTold + n /\ FirstTold' = FirstTold
                   ELSE FirstTold' = FirstTold + n /\ TailTold' = TailTold
                /\ \/ n = 0 /\ foreseen' = foreseen
                   \/ /\ n = Retry * Cardinality(PlansOf(worker[w].job.p \in Last,
                                                         Group[worker[w].job.p]))
                      /\ worker[w].job.r <= Repeat
                      /\ Kind(worker[w].job.p) \notin foreseen
                      /\ foreseen' = foreseen \cup {Kind(worker[w].job.p)}
<1> DEFINE a == [job |-> worker[w].job, out |-> worker[w].out, cut |-> worker[w].cut]
           q == worker[w].job.p
           b == q \in Last
           k == <<b, Group[q]>>
           n == IF Foretells(a, k) THEN Retry * Cardinality(PlansOf(b, Group[q])) ELSE 0
<1>1. worker[w].job \in Job
  BY WorkerShape, Zenon DEF TypeOK, Count
<1>2. q \in Plans
  BY <1>1, Zenon DEF Job
<1>3. a.job = worker[w].job /\ a.job.p = q
  BY Zenon
<1>4. b \in BOOLEAN
  OBVIOUS
<1>5. k = Kind(q)
  BY Zenon DEF Kind
<1>6. k[1] = b /\ k[2] = Group[q]
  <2> HIDE DEF b, q
  <2> QED
    BY Zenon
<1>7. n \in Nat
  <2>1. Cardinality(PlansOf(b, Group[q])) \in Nat
    BY PlansFinite, Zenon
  <2> HIDE DEF a, b, k, q
  <2> QED
    BY <2>1, ConstantTypes
<1>8. /\ foreseen' = IF Foretells(a, k) THEN foreseen \cup {k} ELSE foreseen
      /\ foretold' = [foretold EXCEPT ![b] = @ + n]
      /\ total' = total + n
      /\ worker' = [worker EXCEPT ![w] = [pc |-> "report", d |-> done', t |-> total']]
  <2> DEFINE kk == <<a.job.p \in Last, Group[a.job.p]>>
             nn == IF Foretells(a, kk) THEN Retry * Cardinality(PlansOf(kk[1], kk[2])) ELSE 0
  <2>1. /\ foreseen' = IF Foretells(a, kk) THEN foreseen \cup {kk} ELSE foreseen
        /\ foretold' = [foretold EXCEPT ![kk[1]] = @ + nn]
        /\ total' = total + nn
        /\ worker' = [worker EXCEPT ![w] = [pc |-> "report", d |-> done', t |-> total']]
    BY Zenon DEF Count
  <2>2. kk = k
    BY <1>3, Zenon
  <2>3. kk[1] = b /\ kk[2] = Group[q]
    BY <1>6, <2>2, Zenon
  <2> HIDE DEF a, b, k, q, kk
  <2>4. nn = n
    BY <2>2, <2>3, Zenon
  <2> QED
    BY <2>1, <2>2, <2>3, <2>4, Zenon
<1>9. worker'[w].t = total'
  BY <1>8, Zenon DEF TypeOK
<1>10. foretold \in [BOOLEAN -> Nat]
  BY Zenon DEF TypeOK
<1>11. \/ n = 0 /\ foreseen' = foreseen
       \/ /\ n = Retry * Cardinality(PlansOf(b, Group[q]))
          /\ worker[w].job.r <= Repeat
          /\ k \notin foreseen
          /\ foreseen' = foreseen \cup {k}
  <2>1. CASE Foretells(a, k)
    <3>1. a.job.r <= Repeat /\ k \notin foreseen
      BY <2>1, Zenon DEF Foretells
    <3> QED
      BY <1>3, <1>8, <2>1, <3>1, Zenon
  <2>2. CASE ~Foretells(a, k)
    BY <1>8, <2>2, Zenon
  <2> QED
    BY <2>1, <2>2, Zenon
<1>12. IF b THEN TailTold' = TailTold + n /\ FirstTold' = FirstTold
       ELSE FirstTold' = FirstTold + n /\ TailTold' = TailTold
  <2> HIDE DEF a, b, k, q, n
  <2>1. CASE b
    <3>1. b = TRUE
      BY <1>4, <2>1, Zenon
    <3>2. foretold' = [foretold EXCEPT ![TRUE] = @ + n]
      BY <1>8, <3>1, Zenon
    <3> QED
      BY <1>10, <2>1, <3>2, Zenon DEF FirstTold, TailTold
  <2>2. CASE ~b
    <3>1. b = FALSE
      BY <1>4, <2>2, Zenon
    <3>2. foretold' = [foretold EXCEPT ![FALSE] = @ + n]
      BY <1>8, <3>1, Zenon
    <3> QED
      BY <1>10, <2>2, <3>2, Zenon DEF FirstTold, TailTold
  <2> QED
    BY <2>1, <2>2, Zenon
<1> HIDE DEF n
<1> QED
  BY <1>1, <1>2, <1>5, <1>7, <1>8, <1>9, <1>11, <1>12, Zenon

\* A kind that is foreseen brings all its retries into the count, and none twice.
LEMMA ForeseenGrows ==
    ASSUME NEW q \in Plans, Kind(q) \notin foreseen, foreseen' = foreseen \cup {Kind(q)},
           NEW n, n = Retry * Cardinality(PlansOf(q \in Last, Group[q]))
    PROVE  /\ q \in Last =>
                /\ Cardinality(Foreseen("tailRetries")') = Cardinality(Foreseen("tailRetries")) + n
                /\ Foreseen("retries")' = Foreseen("retries")
           /\ q \notin Last =>
                /\ Cardinality(Foreseen("retries")') = Cardinality(Foreseen("retries")) + n
                /\ Foreseen("tailRetries")' = Foreseen("tailRetries")
<1> DEFINE N(s) == {j \in OfStage(s) : Kind(j.p) = Kind(q)}
<1>1. ASSUME NEW s
      PROVE  /\ Foreseen(s)' = Foreseen(s) \cup N(s) /\ Foreseen(s) \cap N(s) = {}
             /\ IsFiniteSet(Foreseen(s)) /\ IsFiniteSet(N(s))
             /\ Cardinality(Foreseen(s)) \in Nat /\ Cardinality(N(s)) \in Nat
  <2>1. Foreseen(s)' = Foreseen(s) \cup N(s) /\ Foreseen(s) \cap N(s) = {}
    BY Zenon DEF Foreseen
  <2>2. Foreseen(s) \in SUBSET OfStage(s) /\ N(s) \in SUBSET OfStage(s)
    BY Zenon DEF Foreseen
  <2> QED
    BY <2>1, <2>2, StageSizes, FS_Subset, FS_CardinalityType, Zenon
<1>2. \A s : Cardinality(Foreseen(s)') = Cardinality(Foreseen(s)) + Cardinality(N(s))
  <2> SUFFICES ASSUME NEW s
               PROVE  Cardinality(Foreseen(s)') = Cardinality(Foreseen(s)) + Cardinality(N(s))
    BY Zenon
  <2> DEFINE F == Foreseen(s)
             M == N(s)
  <2>1. F \cap M = {} /\ IsFiniteSet(F) /\ IsFiniteSet(M) /\ Cardinality(F) \in Nat
        /\ Cardinality(M) \in Nat /\ Foreseen(s)' = F \cup M
    BY <1>1, Zenon
  <2> HIDE DEF F, M
  <2>2. Cardinality(F \cup M) = Cardinality(F) + Cardinality(M) - 0
    BY <2>1, FS_Union, FS_EmptySet
  <2>3. Cardinality(F \cup M) = Cardinality(F) + Cardinality(M)
    BY <2>1, <2>2
  <2> QED
    BY <2>1, <2>3, Zenon DEF F, M
<1>3. ASSUME q \in Last
      PROVE  Cardinality(N("tailRetries")) = n /\ N("retries") = {}
  <2>1. Cardinality(N("tailRetries")) = n
    BY <1>3, RetriesOfKind, Zenon
  <2>2. N("retries") = {}
    BY <1>3, SameKind, Stages, Zenon DEF OfStage
  <2> QED
    BY <2>1, <2>2, Zenon
<1>4. ASSUME q \notin Last
      PROVE  Cardinality(N("retries")) = n /\ N("tailRetries") = {}
  <2>1. Cardinality(N("retries")) = n
    BY <1>4, RetriesOfKind, Zenon
  <2>2. N("tailRetries") = {}
    BY <1>4, SameKind, Stages, Zenon DEF OfStage
  <2> QED
    BY <2>1, <2>2, Zenon
<1> HIDE DEF N
<1> QED
  BY <1>1, <1>2, <1>3, <1>4, Zenon

\* Part of a stage is no larger than it.
LEMMA PartOfStage ==
    ASSUME NEW s, NEW S \in SUBSET OfStage(s)
    PROVE  Cardinality(S) \in Nat /\ Cardinality(S) <= Size(s)
BY StageSizes, FS_Subset, FS_CardinalityType DEF Size

\* What is foretold or reconciled fits the jobs there can be.
LEMMA TotalFits ==
    ASSUME NEW t \in Int, NEW x \in Nat, NEW y \in Nat,
           x <= Size("retries"), y <= Size("tailRetries"),
           t <= Size("jobs") + Size("tail") + x + y
    PROVE  t <= Cardinality(Job)
<1>1. /\ Size("jobs") \in Nat /\ Size("tail") \in Nat
      /\ Size("retries") \in Nat /\ Size("tailRetries") \in Nat
  BY StageSizes, Zenon
<1>2. t <= Size("jobs") + Size("tail") + Size("retries") + Size("tailRetries")
  BY <1>1
<1> QED
  BY <1>2, StageSizes, Zenon

\* A counted attempt keeps the account of the total.
LEMMA StepForetold ==
    ASSUME ScanInv, Foretold, Totalled, NEW w \in Workers, Step(w)
    PROVE  Foretold' /\ Totalled'
<1>0. TypeOK /\ TypeOK' /\ UNCHANGED phase
  BY StepType, StepOthers, Zenon DEF ScanInv
<1>1. CASE ~Count(w)
  <2>1. UNCHANGED <<foreseen, foretold, total>>
    BY <1>1, Zenon DEF Step, HandOver, Leave, Start, Finish, Judge, Deliver
  <2>2. UNCHANGED <<FirstTold, TailTold>>
    BY <2>1, Zenon DEF FirstTold, TailTold
  <2>3. Foretold'
    BY <2>1, <2>2, Zenon DEF Foretold, Foreseen
  <2> QED
    BY <1>0, <2>1, <2>2, <2>3, Zenon DEF Totalled
<1>2. CASE Count(w)
  <2> DEFINE q == worker[w].job.p
  <2>1. /\ worker[w].job \in Job /\ q \in Plans
        /\ Stage(worker[w].job) = phase /\ phase \in Phases
    <3>1. Stage(worker[w].job) = phase
      BY <1>2, Zenon DEF Count, ScanInv, Placed, Busy
    <3> QED
      BY <1>0, <1>2, <3>1, CountForm, Stages, Zenon
  <2>2. PICK n \in Nat :
                /\ total' = total + n
                /\ IF q \in Last
                   THEN TailTold' = TailTold + n /\ FirstTold' = FirstTold
                   ELSE FirstTold' = FirstTold + n /\ TailTold' = TailTold
                /\ \/ n = 0 /\ foreseen' = foreseen
                   \/ /\ n = Retry * Cardinality(PlansOf(q \in Last, Group[q]))
                      /\ worker[w].job.r <= Repeat
                      /\ Kind(q) \notin foreseen
                      /\ foreseen' = foreseen \cup {Kind(q)}
    BY <1>0, <1>2, CountForm, Zenon
  <2>3. TailTold \in Nat /\ FirstTold \in Nat
    BY ForetoldBound, Zenon
  <2>4. Foretold'
    <3>1. CASE n = 0 /\ foreseen' = foreseen
      <4>1. TailTold' = TailTold /\ FirstTold' = FirstTold
        BY <2>2, <2>3, <3>1
      <4> QED
        BY <3>1, <4>1, Zenon DEF Foretold, Foreseen
    <3>2. CASE /\ n = Retry * Cardinality(PlansOf(q \in Last, Group[q]))
               /\ Kind(q) \notin foreseen
               /\ foreseen' = foreseen \cup {Kind(q)}
      <4>1. /\ q \in Last =>
                 /\ Cardinality(Foreseen("tailRetries")') = Cardinality(Foreseen("tailRetries")) + n
                 /\ Foreseen("retries")' = Foreseen("retries")
            /\ q \notin Last =>
                 /\ Cardinality(Foreseen("retries")') = Cardinality(Foreseen("retries")) + n
                 /\ Foreseen("tailRetries")' = Foreseen("tailRetries")
        BY <2>1, <3>2, ForeseenGrows, Zenon
      <4> HIDE DEF q
      <4> QED
        BY <2>2, <4>1, Zenon DEF Foretold
    <3> QED
      BY <2>2, <3>1, <3>2, Zenon
  <2>5. phase \in {"retries", "tailRetries"} => n = 0
    BY <2>1, <2>2, Stages, Zenon
  <2>6. phase = "tail" => q \in Last
    BY <2>1, Stages, Zenon
  <2>7. phase = "jobs" => q \notin Last
    BY <2>1, Stages, Zenon
  <2>8. /\ Size("jobs") \in Nat /\ Size("tail") \in Nat /\ Size("retries") \in Nat
        /\ total \in Int
    BY <1>0, StageSizes, Zenon DEF TypeOK
  <2> HIDE DEF q
  <2>9. /\ TailTold' >= TailTold /\ total' \in Int
        /\ FirstTold' \in Nat /\ FirstTold' <= Size("retries")
        /\ TailTold' \in Nat /\ TailTold' <= Size("tailRetries")
    <3>1. \A s : Foreseen(s)' \in SUBSET OfStage(s)
      BY Zenon DEF Foreseen
    <3> QED
      BY <2>2, <2>3, <2>4, <2>8, <3>1, PartOfStage DEF Foretold
  <2>10. CASE phase = "jobs"
    <3>1. total' = Size("jobs") + Size("tail") + FirstTold' + TailTold'
      BY <2>2, <2>3, <2>7, <2>8, <2>10 DEF Totalled
    <3>2. total' <= Cardinality(Job)
      BY <2>8, <2>9, <3>1, TotalFits
    <3> QED
      BY <1>0, <2>4, <2>10, <3>1, <3>2, Zenon DEF Totalled
  <2>11. CASE phase \in {"retries", "tail"}
    <3>1. total' <= Size("jobs") + Size("tail") + Size("retries") + TailTold'
      <4>1. total <= Size("jobs") + Size("tail") + Size("retries") + TailTold
        BY <2>11, Zenon DEF Totalled
      <4>2. CASE n = 0
        BY <2>2, <2>3, <2>8, <2>9, <4>1, <4>2
      <4>3. CASE q \in Last
        BY <2>2, <2>3, <2>8, <4>1, <4>3
      <4> QED
        BY <2>5, <2>6, <2>11, <4>2, <4>3, Zenon
    <3>2. total' <= Cardinality(Job)
      BY <2>8, <2>9, <3>1, TotalFits
    <3> QED
      BY <1>0, <2>4, <2>11, <3>1, <3>2, Zenon DEF Totalled
  <2>12. CASE phase = "tailRetries"
    <3>1. total' = total
      BY <2>2, <2>5, <2>8, <2>12
    <3> QED
      BY <1>0, <2>4, <2>12, <3>1, Zenon DEF Totalled
  <2> QED
    BY <2>1, <2>10, <2>11, <2>12, Zenon DEF Phases
<1> QED
  BY <1>1, <1>2, Zenon

\* retryRounds puts in place of what was foretold no more than the rounds there are.
LEMMA MainForetold ==
    ASSUME ScanInv, Foretold, Totalled, Main
    PROVE  Foretold' /\ Totalled'
<1>0. TypeOK /\ TypeOK'
  BY MainType, Zenon DEF ScanInv
<1>1. UNCHANGED <<foreseen, FirstTold, TailTold>>
  <2>1. UNCHANGED <<foreseen, foretold>>
    BY Zenon DEF Main, GiveUp, EndJobs, EndRetries, EndTail, EndTailRetries, Collect, Fetch
  <2> QED
    BY <2>1, Zenon DEF FirstTold, TailTold
<1>2. Foretold'
  BY <1>1, Zenon DEF Foretold, Foreseen
<1>3. /\ Size("jobs") \in Nat /\ Size("tail") \in Nat /\ Size("retries") \in Nat
      /\ Size("tailRetries") \in Nat /\ total \in Int
      /\ FirstTold \in Nat /\ TailTold \in Nat
      /\ FirstTold <= Size("retries") /\ TailTold <= Size("tailRetries")
  BY <1>0, StageSizes, ForetoldBound, Zenon DEF TypeOK
<1> DEFINE m == Cardinality(retryRounds(FALSE))
           n == Cardinality(retryRounds(TRUE))
<1>4. m \in Nat /\ m <= Size("retries") /\ n \in Nat /\ n <= Size("tailRetries")
  <2>1. retryRounds(FALSE) \in SUBSET OfStage("retries")
    BY PhaseJobs, RetryJobs, Zenon DEF OfStage
  <2>2. retryRounds(TRUE) \in SUBSET OfStage("tailRetries")
    BY PhaseJobs, RetryJobs, Zenon DEF OfStage
  <2> QED
    BY <2>1, <2>2, PartOfStage, Zenon
<1>5. CASE EndJobs
  <2>1. phase = "jobs" /\ phase' \in {"retries", "tail"}
    BY <1>5, Zenon DEF EndJobs, StartPhase
  <2>2. \/ total' = total
        \/ total' = total + m - FirstTold
    BY <1>5, Zenon DEF EndJobs, Reconciled, FirstTold
  <2>3. total = Size("jobs") + Size("tail") + FirstTold + TailTold
    BY <2>1, Zenon DEF Totalled
  <2> HIDE DEF m, n
  <2>4. total' <= Size("jobs") + Size("tail") + Size("retries") + TailTold
    BY <1>3, <1>4, <2>2, <2>3
  <2>5. total' <= Cardinality(Job)
    BY <1>0, <1>3, <2>4, TotalFits DEF TypeOK
  <2> QED
    BY <1>1, <1>2, <2>1, <2>4, <2>5, Zenon DEF Totalled
<1>6. CASE EndRetries
  <2>1. phase = "retries" /\ phase' = "tail" /\ total' = total
    BY <1>6, Zenon DEF EndRetries, StartPhase
  <2> QED
    BY <1>1, <1>2, <2>1, Zenon DEF Totalled
<1>7. CASE EndTail
  <2>1. phase = "tail" /\ phase' \in {"tailRetries", "collect"}
    BY <1>7, Zenon DEF EndTail, StartPhase
  <2>2. \/ total' = total
        \/ total' = total + n - TailTold
    BY <1>7, Zenon DEF EndTail, Reconciled, TailTold
  <2>3. total <= Size("jobs") + Size("tail") + Size("retries") + TailTold
    BY <2>1, Zenon DEF Totalled
  <2> HIDE DEF m, n
  <2>4. total' <= Size("jobs") + Size("tail") + Size("retries") + Size("tailRetries")
    BY <1>3, <1>4, <2>2, <2>3
  <2>5. total' <= Cardinality(Job)
    BY <2>4, StageSizes, Zenon
  <2> QED
    BY <1>2, <2>1, <2>5, Zenon DEF Totalled
<1>8. CASE GiveUp
  BY <1>1, <1>2, <1>8, Zenon DEF GiveUp, Totalled
<1>9. CASE EndTailRetries \/ Collect \/ \E ok \in BOOLEAN : Fetch(ok)
  <2>1. total' = total /\ phase' \notin {"jobs", "retries", "tail"}
    BY <1>9, Zenon DEF EndTailRetries, Collect, Fetch
  <2> QED
    BY <1>2, <2>1, Zenon DEF Totalled
<1> QED
  BY <1>5, <1>6, <1>7, <1>8, <1>9, Zenon DEF Main

\* There are no more results than jobs.
LEMMA ResultsFit ==
    ASSUME ScanInv
    PROVE  Cardinality(attempts) \in Nat /\ Cardinality(attempts) <= Cardinality(Job)
<1> DEFINE f == [a \in attempts |-> a.job]
<1>1. f \in [attempts -> Job]
  BY Zenon DEF ScanInv, TypeOK, Attempt
<1>2. f \in Injection(attempts, Job)
  <2>1. ASSUME NEW a \in attempts, NEW b \in attempts, f[a] = f[b]
        PROVE  a = b
    <3>1. a.job = b.job
      BY <2>1, Zenon
    <3> QED
      BY <3>1, Zenon DEF ScanInv, Placed
  <2> HIDE DEF f
  <2> QED
    BY <1>1, <2>1, Zenon DEF Injection, IsInjective
<1>3. IsFiniteSet(Job)
  BY JobsFinite, Zenon
<1> QED
  BY <1>2, <1>3, FS_Injection, FS_CardinalityType, Zenon

\* One delivery shows one more result, under a total no larger than the jobs.
LEMMA DeliverShows ==
    ASSUME ScanInv, Shown, Reported, NEW w \in Workers, Deliver(w)
    PROVE  /\ bar.done < Cardinality(attempts)
           /\ bar'.total \in bar.total..Cardinality(Job)
           /\ bar'.total > bar.done
           /\ bar' = [done |-> bar.done + 1, total |-> bar'.total]
<1>1. bar.done \in Nat /\ bar.total \in Nat /\ Cardinality(Job) \in Nat
  BY JobsFinite, Zenon DEF ScanInv, TypeOK
<1>2. w \in Reporting /\ worker[w].t \in Int
  <2>1. worker[w] \in WorkerState /\ worker[w].pc = "report"
    BY Zenon DEF ScanInv, TypeOK, Deliver
  <2> QED
    BY <2>1, WorkerShape, Zenon DEF Reporting
<1>3. Cardinality(Reporting) # 0
  BY <1>2, ReportingFinite, FS_EmptySet, Zenon
<1>4. bar.done < Cardinality(attempts)
  BY <1>1, <1>3, ReportingFinite, ResultsFit DEF Shown
<1>5. bar.done + 1 <= Cardinality(Job)
  BY <1>1, <1>4, ResultsFit
<1>6. worker[w].t <= Cardinality(Job) /\ bar.total <= Cardinality(Job)
  BY <1>2, Zenon DEF Reported
<1> DEFINE delivered == bar.done + 1
           most == IF worker[w].t > bar.total THEN worker[w].t ELSE bar.total
           m == IF delivered > most THEN delivered ELSE most
<1>7. bar' = [done |-> delivered, total |-> m]
  BY Zenon DEF Deliver
<1>8. m \in Int /\ bar.total <= m /\ m <= Cardinality(Job) /\ m > bar.done
  BY <1>1, <1>2, <1>5, <1>6
<1> HIDE DEF m
<1> QED
  BY <1>1, <1>4, <1>7, <1>8

\* No total that is reported or shown exceeds the jobs there can be.
LEMMA StepReported ==
    ASSUME ScanInv, Shown, Reported, Totalled', NEW w \in Workers, Step(w)
    PROVE  Reported'
<1>0. /\ \A v \in Workers : v # w => worker'[v] = worker[v]
      /\ worker[w] \in WorkerState /\ worker \in [Workers -> WorkerState] /\ TypeOK
  BY StepOthers, Zenon DEF ScanInv, TypeOK
<1>1. \A v \in Workers : v # w /\ v \in Reporting' => worker'[v].t <= Cardinality(Job)
  BY <1>0, Zenon DEF Reporting, Reported
<1>2. CASE Count(w)
  <2>1. worker'[w].t <= Cardinality(Job)
    BY <1>0, <1>2, CountForm, Zenon DEF Totalled
  <2>2. bar' = bar
    BY <1>2, Zenon DEF Count
  <2> QED
    BY <1>1, <2>1, <2>2, Zenon DEF Reported, Reporting
<1>3. CASE Deliver(w)
  <2>1. worker'[w].pc = "range"
    BY <1>0, <1>3, StepMoves, Zenon
  <2>2. bar'.total <= Cardinality(Job)
    <3>1. bar'.total \in bar.total..Cardinality(Job)
      BY <1>3, DeliverShows, Zenon
    <3>2. bar.total \in Nat /\ Cardinality(Job) \in Nat
      BY <1>0, JobsFinite, Zenon DEF TypeOK
    <3> QED
      BY <3>1, <3>2
  <2> QED
    BY <1>1, <2>1, <2>2, Zenon DEF Reported, Reporting
<1>4. CASE ~Count(w) /\ ~Deliver(w)
  <2>1. worker'[w].pc # "report"
    <3>1. Start(w) => worker'[w].pc = "running"
      BY <1>0, StartForm
    <3> QED
      BY <1>0, <1>4, <3>1, StepMoves, Zenon DEF Step
  <2>2. bar' = bar
    BY <1>4, Zenon DEF Step, HandOver, Leave, Start, Finish, Judge
  <2> QED
    BY <1>1, <2>1, <2>2, Zenon DEF Reported, Reporting
<1> QED
  BY <1>2, <1>3, <1>4, Zenon

----------------------------------------------------------------------------
(* The refinement. *)

\* The whole invariant holds at the start.
LEMMA PromiseInit == Init => PromiseInv
<1> SUFFICES ASSUME Init PROVE PromiseInv
  BY Zenon
<1>1. ScanInv
  BY InitInv, Zenon
<1>2. \A w \in Workers : worker[w].pc = "range"
  BY Zenon DEF Init, InLoop
<1>3. Complete
  <2>1. \A j \in Job : Assigned(j) <=> j \in FirstRounds(FALSE)
    BY <1>2, Zenon DEF Init, Assigned, Busy
  <2>2. phase = "jobs" /\ \A j \in Job : ~Due(j)
    BY Zenon DEF Init, Due
  <2> QED
    BY <2>1, <2>2, FirstStages, Stages, Zenon DEF Complete, UpTo
<1>4. Reporting = {}
  BY <1>2, Zenon DEF Reporting
<1>5. Shown
  BY <1>4, FS_EmptySet DEF Init, Shown
<1>6. FirstTold = 0 /\ TailTold = 0
  BY Zenon DEF Init, FirstTold, TailTold
<1>7. Foretold
  <2>1. \A s : Foreseen(s) = {}
    BY Zenon DEF Init, Foreseen
  <2> QED
    BY <1>6, <2>1, FS_EmptySet, Zenon DEF Foretold
<1>8. Totalled
  <2>1. FirstRounds(FALSE) = OfStage("jobs") /\ FirstRounds(TRUE) = OfStage("tail")
    <3>1. FirstRounds(FALSE) \subseteq Job /\ FirstRounds(TRUE) \subseteq Job
      BY RetryJobs, Zenon
    <3> QED
      BY <3>1, FirstStages, Zenon DEF OfStage
  <2>2. total = Size("jobs") + Size("tail")
    BY <2>1, Zenon DEF Init, Size
  <2>3. Size("jobs") \in Nat /\ Size("tail") \in Nat /\ Size("retries") \in Nat
        /\ Size("tailRetries") \in Nat
    BY StageSizes, Zenon
  <2>4. total \in Int /\ total = Size("jobs") + Size("tail") + FirstTold + TailTold
    BY <1>6, <2>2, <2>3
  <2>5. total <= Cardinality(Job)
    BY <1>6, <2>3, <2>4, TotalFits
  <2> QED
    BY <2>4, <2>5, Zenon DEF Totalled, Init
<1>9. Reported
  <2>1. Cardinality(Job) \in Nat /\ bar.total = 0
    BY JobsFinite, Zenon DEF Init
  <2> QED
    BY <1>4, <2>1 DEF Reported
<1> QED
  BY <1>1, <1>3, <1>5, <1>7, <1>8, <1>9, Zenon DEF PromiseInv

\* Every step keeps it.
LEMMA PromiseNext == PromiseInv /\ [Next]_scanVars => PromiseInv'
<1> SUFFICES ASSUME PromiseInv, [Next]_scanVars PROVE PromiseInv'
  BY Zenon
<1>0. ScanInv /\ ScanInv'
  BY NextInv, Zenon DEF PromiseInv
<1>1. ASSUME NEW w \in Workers, Step(w)
      PROVE  PromiseInv'
  <2>1. Foretold' /\ Totalled'
    BY <1>1, StepForetold, Zenon DEF PromiseInv
  <2>2. Complete' /\ Shown' /\ Reported'
    BY <1>1, <2>1, StepComplete, StepShown, StepReported, Zenon DEF PromiseInv
  <2> QED
    BY <1>0, <2>1, <2>2, Zenon DEF PromiseInv
<1>2. CASE Main
  <2>1. Foretold' /\ Totalled' /\ Complete'
    BY <1>2, MainForetold, MainComplete, Zenon DEF PromiseInv
  <2>2. Reporting' = Reporting /\ UNCHANGED <<attempts, bar>> /\ (GiveUp => worker' = worker)
        /\ (~GiveUp => Reporting = {})
    BY <1>0, <1>2, MainReporting, Zenon
  <2>3. Shown'
    BY <2>2, Zenon DEF PromiseInv, Shown
  <2>4. Reported'
    BY <2>2, Zenon DEF PromiseInv, Reported
  <2> QED
    BY <1>0, <2>1, <2>3, <2>4, Zenon DEF PromiseInv
<1>3. CASE (\E why \in {"stopped", "deadline"} : EndContext(why)) \/ UNCHANGED scanVars
  <2>1. /\ UNCHANGED <<phase, todo, worker, attempts, total, foreseen, foretold, bar>>
        /\ stop' = "no" => stop = "no"
    BY <1>3, Zenon DEF EndContext, scanVars
  <2>2. Complete'
    <3>1. \A j \in Job : (Assigned(j)' <=> Assigned(j)) /\ (Due(j)' <=> Due(j))
      BY <2>1, Zenon DEF Assigned, Due, Busy, Failed
    <3> QED
      BY <2>1, <3>1, Zenon DEF PromiseInv, Complete
  <2>3. Reporting' = Reporting /\ UNCHANGED <<FirstTold, TailTold>>
    BY <2>1, Zenon DEF Reporting, FirstTold, TailTold
  <2>4. Shown' /\ Reported' /\ Totalled'
    BY <2>1, <2>3, Zenon DEF PromiseInv, Shown, Reported, Totalled
  <2>5. Foretold'
    BY <2>1, <2>3, Zenon DEF PromiseInv, Foretold, Foreseen
  <2> QED
    BY <1>0, <2>2, <2>4, <2>5, Zenon DEF PromiseInv
<1> QED
  BY <1>1, <1>2, <1>3, Zenon DEF Next

\* The promise counts the way the scan does.
LEMMA PromiseCounts ==
    ASSUME NEW S
    PROVE  Promise!Cardinality(S) = Cardinality(S)
BY DEF Promise!Cardinality, Cardinality

\* When Run is past its phases the bar has shown everything and what is owed is there.
LEMMA AtTheEnd ==
    ASSUME PromiseInv, phase \notin Phases
    PROVE  /\ bar.done = Cardinality(attempts)
           /\ stop # "no" \/ Expected(attempts) = {a.job : a \in attempts}
<1>1. AllGone /\ todo = {}
  <2>1. AllGone
    BY Zenon DEF PromiseInv, ScanInv, Serial
  <2> QED
    BY <2>1, OneWorker, Zenon DEF AllGone, PromiseInv, ScanInv, Draining
<1>2. bar.done = Cardinality(attempts)
  <2>1. Reporting = {}
    BY <1>1 DEF AllGone, Reporting, Gone
  <2>2. bar.done \in Nat
    BY Zenon DEF PromiseInv, ScanInv, TypeOK
  <2> QED
    BY <2>1, <2>2, FS_EmptySet DEF PromiseInv, Shown
<1>3. ASSUME stop = "no"
      PROVE  Expected(attempts) = {a.job : a \in attempts}
  <2>1. \A w \in Workers : ~Busy(w)
    BY <1>1 DEF AllGone, Busy, Gone
  <2>2. UpTo(phase) = Phases
    BY Zenon DEF UpTo, Phases
  <2>3. \A j \in Job : j \in {a.job : a \in attempts} <=> j.r <= Repeat \/ Due(j)
    <3>1. \A j \in Job : Assigned(j) <=> j \in {a.job : a \in attempts}
      BY <1>1, <2>1, Zenon DEF Assigned
    <3> QED
      BY <1>3, <2>2, <3>1, Stages, Zenon DEF PromiseInv, Complete
  <2>4. \A j \in {a.job : a \in attempts} : j \in Job
    BY Zenon DEF PromiseInv, ScanInv, TypeOK, Attempt
  <2>5. \A j \in Expected(attempts) : j \in Job
    BY Zenon DEF Expected
  <2> QED
    BY <2>3, <2>4, <2>5, OwedJobs, Zenon
<1> QED
  BY <1>2, <1>3, Zenon

\* A step of a worker records one result, shows one, or is invisible.
LEMMA StepPromise ==
    ASSUME PromiseInv, NEW w \in Workers, Step(w)
    PROVE  [Promise!Next]_(Promise!progressVars)
<1>0. /\ TypeOK /\ worker[w] \in WorkerState /\ phase \in Phases
      /\ UNCHANGED <<phase, stop>>
  <2>1. worker[w] # Gone /\ UNCHANGED <<phase, stop>>
    BY StepOthers, Zenon DEF PromiseInv, ScanInv
  <2> QED
    BY <2>1, Zenon DEF PromiseInv, ScanInv, TypeOK, Serial, AllGone
<1>1. phase # "returned" /\ phase' # "returned"
  BY <1>0, Zenon DEF Phases
<1>2. CASE Count(w)
  <2> DEFINE a == [job |-> worker[w].job, out |-> worker[w].out, cut |-> worker[w].cut]
  <2>1. attempts' = attempts \cup {a} /\ Busy(w) /\ worker[w].pc = "judged" /\ bar' = bar
    BY <1>2, Zenon DEF Count, Busy
  <2>2. a.job = worker[w].job /\ a.out = worker[w].out /\ a.cut = worker[w].cut
    BY Zenon
  <2>3. a.job \in Job /\ a.out \in {"ok", "skipped", "fail"}
    BY <1>0, <2>1, <2>2, WorkerShape, Zenon DEF Outcomes
  <2>4. a.cut => a.out # "fail"
    BY <2>1, <2>2, Zenon DEF PromiseInv, ScanInv, Judged
  <2>5. \A b \in attempts : b.job # a.job
    BY <2>1, <2>2, Zenon DEF PromiseInv, ScanInv, Placed
  <2> HIDE DEF a
  <2>6. a \in attempts' \ attempts
    BY <2>1, <2>5, Zenon
  <2>7. Promise!Record
    BY <1>0, <1>1, <2>1, <2>3, <2>4, <2>5, <2>6, Zenon DEF Promise!Record, Promise!Judged
  <2> QED
    BY <2>7, Zenon DEF Promise!Next
<1>3. CASE Deliver(w)
  <2>1. /\ bar.done < Cardinality(attempts)
        /\ bar'.total \in bar.total..Cardinality(Job)
        /\ bar'.total > bar.done
        /\ bar' = [done |-> bar.done + 1, total |-> bar'.total]
    BY <1>3, DeliverShows, Zenon DEF PromiseInv
  <2>2. attempts' = attempts
    BY <1>3, Zenon DEF Deliver
  <2>3. Promise!Show
    BY <1>0, <1>1, <2>1, <2>2, PromiseCounts, Zenon DEF Promise!Show
  <2> QED
    BY <2>3, Zenon DEF Promise!Next
<1>4. CASE ~Count(w) /\ ~Deliver(w)
  <2>1. UNCHANGED <<attempts, bar>>
    BY <1>4, Zenon DEF Step, HandOver, Leave, Start, Finish, Judge
  <2> QED
    BY <1>0, <2>1, Zenon DEF Promise!progressVars
<1> QED
  BY <1>2, <1>3, <1>4, Zenon

\* Run's thread returns once, when it may.
LEMMA MainPromise ==
    ASSUME PromiseInv, Main
    PROVE  [Promise!Next]_(Promise!progressVars)
<1>1. UNCHANGED <<attempts, bar, stop>>
  BY Zenon DEF Main, GiveUp, EndJobs, EndRetries, EndTail, EndTailRetries, Collect, Fetch
<1>2. CASE phase' = "returned"
  <2>1. phase \in {"collect", "fetch"}
    BY <1>2, Zenon DEF Main, GiveUp, EndJobs, EndRetries, EndTail, EndTailRetries, Collect, Fetch,
                StartPhase, Phases
  <2>2. phase \notin Phases /\ phase # "returned"
    BY <2>1, Zenon DEF Phases
  <2>3. Promise!Return
    BY <1>1, <1>2, <2>2, AtTheEnd, PromiseCounts, Zenon DEF Promise!Return
  <2> QED
    BY <2>3, Zenon DEF Promise!Next
<1>3. CASE phase' # "returned"
  <2>1. phase # "returned"
    BY Zenon DEF Main, GiveUp, EndJobs, EndRetries, EndTail, EndTailRetries, Collect, Fetch, Phases
  <2> QED
    BY <1>1, <1>3, <2>1, Zenon DEF Promise!progressVars
<1> QED
  BY <1>2, <1>3, Zenon

\* Run and engine.Run implement what the embedder is promised: one result per job, a bar
\* that is never ahead of the results nor runs backwards and has shown them all when Run
\* returns, nothing cancelled reported as failed, and, unless somebody stopped it, exactly
\* the rounds the scan owes.
THEOREM ScanPromiseHolds == Spec => ScanPromise
<1>1. Init => Promise!Init
  BY Zenon DEF Init, Promise!Init
<1>2. PromiseInv /\ [Next]_scanVars => [Promise!Next]_(Promise!progressVars)
  <2> SUFFICES ASSUME PromiseInv, [Next]_scanVars
               PROVE  [Promise!Next]_(Promise!progressVars)
    BY Zenon
  <2>1. CASE \E why \in {"stopped", "deadline"} : EndContext(why)
    <3>1. Promise!Stop
      BY <2>1, Zenon DEF EndContext, Promise!Stop
    <3> QED
      BY <3>1, Zenon DEF Promise!Next
  <2>2. CASE UNCHANGED scanVars
    BY <2>2, Zenon DEF scanVars, Promise!progressVars
  <2> QED
    BY <2>1, <2>2, StepPromise, MainPromise, Zenon DEF Next
<1>3. Spec => []PromiseInv
  BY PromiseInit, PromiseNext, PTL DEF Spec
<1> QED
  BY <1>1, <1>2, <1>3, PTL DEF Spec, ScanPromise, Promise!Spec
=============================================================================
