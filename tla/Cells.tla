-------------------------------- MODULE Cells --------------------------------
(***************************************************************************)
(* What the classifier makes of the attempts of a scan before any rule     *)
(* looks at them (internal/classify: classify.go, helpers.go,              *)
(* transient.go): the attempts that measured nothing, the windows in which *)
(* the host or the path was out, the cells, and the confidence ladder.     *)
(*                                                                         *)
(* An attempt is a record                                                  *)
(*    [cell, outcome, merged, local, start, reserve, done, ip, connect,    *)
(*     reset, suspect, nat, cancelled, n]                                  *)
(* where cell is the place of its cell in the plan, merged the result of   *)
(* the merge table, local what LocalFailure reads from it, start when its  *)
(* measured flow began, reserve and done how long before and after that it *)
(* was in flight, ip and connect the address of a real destination and how *)
(* long the dial took (0: no dial completed), reset how long after the     *)
(* ClientHello it was reset, suspect and nat what tcp.rtt and the two      *)
(* ends' source ports say, and n tells equal attempts apart.  A plan is    *)
(* the sequence of the cells, in the order of their keys:                  *)
(*    [test, transport, port, variant, domain, role].                      *)
(***************************************************************************)
EXTENDS Integers, Sequences, FiniteSets, SequencesExt, FiniteSetsExt

CONSTANTS
    TransientSpan, TransientMin, TransientPorts, \* transientSpan, transientMin, transientPorts
    LocalMin, LocalGap, LocalLead                \* localMin, localGap, localLead

ASSUME WindowConstants ==
    {TransientSpan, TransientMin, TransientPorts, LocalMin, LocalGap, LocalLead} \subseteq Nat

----------------------------------------------------------------------------
(* Attempts that are no evidence. *)

unmeasuredMerged == {"server_error", "inconclusive", "skipped"}

LocalFailure(a) == IF a.outcome = "ok" THEN "" ELSE a.local

unmeasured(a) ==
    a.outcome \in unmeasuredMerged \/ a.merged \in unmeasuredMerged \/ LocalFailure(a) # ""

----------------------------------------------------------------------------
(* Cells. *)

Key(c) == <<c.test, c.transport, c.port, c.variant, c.domain>>

familyKey(c) == <<c.test, c.transport, c.port>>

portKey(transport, port) == <<transport, port>>

\* The cell of a key that no attempt has: it neither passes nor fails.
NoCell == [test |-> "", transport |-> "", port |-> 0, variant |-> "", domain |-> "", role |-> "",
           attempts |-> {}, measured |-> {}, Measured |-> 0, OK |-> 0]

found(c) == c.attempts # {}

\* Mutant: an attempt counts whatever it measured.
measuredAll(attempts) == attempts

measured(attempts) == {a \in attempts : ~ unmeasured(a)}

\* The cell of the plan with these attempts, and with those of them that measured the path.
Cell(p, attempts, told) ==
    [test |-> p.test, transport |-> p.transport, port |-> p.port, variant |-> p.variant, domain |-> p.domain,
     role |-> p.role, attempts |-> attempts, measured |-> told, Measured |-> Cardinality(told),
     OK |-> Cardinality({a \in told : a.outcome = "ok"})]

\* The cell at a place of the plan, without the attempts that are cancelled or flagged transient.
CellAt(plan, attempts, transient, i) ==
    LET mine == {a \in attempts \ transient : a.cell = i /\ ~ a.cancelled}
    IN Cell(plan[i], mine, measured(mine))

\* The cells that have an attempt, by their place in the plan.
Aggregate(plan, attempts, transient) ==
    [i \in {j \in DOMAIN plan : found(CellAt(plan, attempts, transient, j))} |-> CellAt(plan, attempts, transient, i)]

\* A majority is ok.
pass(c) == c.Measured > 0 /\ c.OK * 2 > c.Measured

fail(c) == c.Measured > 0 /\ c.OK = 0

Outcomes(c, outcome) == Cardinality({a \in c.attempts : a.outcome = outcome})

\* The merged results the model tells apart, in the order of their spelling.
Alphabetical ==
    <<"cert_mismatch", "connect_refused", "connect_reset", "connect_timeout", "dns_answer_mismatch",
      "dns_rcode", "dns_timeout", "downlink_drop", "http_legal_block", "inconclusive", "injected",
      "midstream_reset", "ok", "payload_timeout", "rst_injected_or_path_reset", "server_error",
      "skipped", "unexpected_response", "uplink_drop_or_route_failure", "uplink_modified">>

\* The commonest result of a histogram over Alphabetical, the first of equals.
Commonest(hist) ==
    Alphabetical[CHOOSE i \in DOMAIN hist :
                    /\ hist[i] > 0
                    /\ \A j \in DOMAIN hist : hist[j] < hist[i] \/ (hist[j] = hist[i] /\ i <= j)]

\* The commonest merged result of the measured attempts, of all when none is.
dominant(c) ==
    LET counted == IF c.Measured = 0 THEN c.attempts ELSE c.measured
    IN Commonest([i \in DOMAIN Alphabetical |-> Cardinality({a \in counted : a.merged = Alphabetical[i]})])

----------------------------------------------------------------------------
(* The confidence ladder of a differential. *)

highMinAttempts == 3

mediumMinAttempts == 2

mediumMaxOKShare == 3

\* Mutant: one failure is enough for "medium".
confidenceOfOne(failed, passed) == IF pass(passed) THEN "medium" ELSE "low"

confidence(failed, passed) ==
    IF /\ failed.Measured >= highMinAttempts /\ failed.OK = 0
       /\ passed.Measured >= highMinAttempts /\ passed.OK = passed.Measured THEN "high"
    ELSE IF /\ failed.Measured >= mediumMinAttempts /\ failed.OK * mediumMaxOKShare <= failed.Measured
            /\ pass(passed) THEN "medium"
    ELSE "low"

\* A finding that may not be "high".
Capped(conf) == IF conf = "high" THEN "medium" ELSE conf

----------------------------------------------------------------------------
(* Outages. *)

attemptSpan(a) == [from |-> a.start - a.reserve, to |-> a.start + a.done]

\* The windows in which the host cut the scan off the network, from the failures of its own
\* other than the lack of a route to one address: each starts within LocalGap of the end of
\* those before it, and a long attempt dates only its last LocalLead.
LocalWindows(attempts) ==
    LET Event(a) == LET s == attemptSpan(a)
                    IN [from |-> Max({s.from, s.to - LocalLead}), to |-> s.to, a |-> a]
        events == SetToSortSeq({Event(a) : a \in {b \in attempts : LocalFailure(b) \notin {"", "no_route"}}},
                               LAMBDA e, f : e.from < f.from)
        Join(windows, e) ==
            IF windows # <<>> /\ e.from <= Last(windows).to + LocalGap
            THEN [windows EXCEPT ![Len(windows)] =
                    [@ EXCEPT !.to = Max({@, e.to}), !.events = @ + 1]]
            ELSE Append(windows, [from |-> e.from, to |-> e.to, events |-> 1])
    IN {w \in ToSet(FoldLeft(Join, <<>>, events)) : w.events >= LocalMin}

\* The attempts that failed while in flight inside such a window, whatever they failed with.
flagLocalOutage(attempts) ==
    {a \in attempts :
        /\ a.outcome # "ok" /\ ~ a.cancelled
        /\ \E w \in LocalWindows(attempts) : attemptSpan(a).to >= w.from /\ attemptSpan(a).from <= w.to}

\* Mutant: the attempts flagged in an earlier classification do not count again.
TransientCandidatesNew(plan, attempts, flagged, local) ==
    LET passing == {Key(plan[i]) : i \in {j \in DOMAIN plan : pass(CellAt(plan, attempts, flagged \cup local, j))}}
    IN {a \in attempts \ (local \cup flagged) :
          /\ a.merged # "ok" /\ a.outcome \notin {"ok", "inconclusive", "server_error"}
          /\ Key(plan[a.cell]) \in passing}

\* The failures that may be an outage of the path: of cells that pass otherwise.  The
\* attempts flagged in an earlier classification count again.
TransientCandidates(plan, attempts, flagged, local) ==
    LET passing == {Key(plan[i]) : i \in {j \in DOMAIN plan : pass(CellAt(plan, attempts, flagged \cup local, j))}}
    IN {a \in attempts \ local :
          /\ a.merged # "ok" /\ a.outcome \notin {"ok", "inconclusive", "server_error"}
          /\ Key(plan[a.cell]) \in passing}

\* The windows of candidates that are wide enough to be an outage, first to last: each is the
\* widest that starts with a candidate none before it holds.
TransientWindows(plan, candidates) ==
    LET times     == {a.start : a \in candidates}
        Window(t) == {a \in candidates : t <= a.start /\ a.start - t <= TransientSpan}
        Ports(w)  == {portKey(plan[a.cell].transport, plan[a.cell].port) : a \in w}
        Outage(w) == Cardinality(w) >= TransientMin /\ Cardinality(Ports(w)) >= TransientPorts
        begins[t \in times] ==
            /\ Outage(Window(t))
            /\ \A s \in times : s < t /\ t - s <= TransientSpan => ~ begins[s]
    IN {Window(t) : t \in {u \in times : begins[u]}}

\* The outages of the path, each the set of the attempts that are flagged for it.
flagTransient(plan, attempts, flagged, local) ==
    TransientWindows(plan, TransientCandidates(plan, attempts, flagged, local))
=============================================================================
