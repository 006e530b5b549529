------------------------------ MODULE Classify ------------------------------
(***************************************************************************)
(* The classifier at work (internal/classify: Classify, and the classify   *)
(* command on a stored report).  The attempts of a scan finish one by one  *)
(* with any result of their cell; at any moment the scan may end and be    *)
(* classified, which flags attempts as part of an outage and keeps the     *)
(* flags in the report; and a stored report may be classified again.       *)
(***************************************************************************)
EXTENDS DestRules

CONSTANTS
    Scenarios   \* the scans explored: [plan, results, rounds, reachable, standalone], with the
                \* results of a cell's attempts and how many there may be

\* What is in an attempt when it ends.
Results ==
    [cell : {0}, outcome : STRING, merged : STRING, local : STRING, start : Nat, reserve : Nat, done : Nat,
     ip : STRING, connect : Nat, reset : Nat, suspect : BOOLEAN, nat : BOOLEAN, cancelled : BOOLEAN, n : {0}]

\* The cells of a plan.
PlanCells ==
    [test : STRING, transport : {"tcp", "udp"}, port : Nat, variant : STRING, domain : STRING, role : STRING]

\* A cell has a key of its own and a site one cell for each of its layers, that of its name on
\* UDP port 53 (destPlans); the merged result of a site's attempts is the client's outcome
\* (mergeVerdict); and what a frozen burst ends with is no failure of the host (tlsBurst), nor
\* does it merge as one.
ASSUME ScenarioConstants ==
    \A s \in Scenarios :
        /\ s.plan \in Seq(PlanCells)
        /\ \A i, j \in DOMAIN s.plan : Key(s.plan[i]) = Key(s.plan[j]) => i = j
        /\ \A i \in DOMAIN s.plan :
              /\ s.results[i] \subseteq {r \in Results : r.outcome = "burst_freeze" => ~ unmeasured(r)}
              /\ s.plan[i].test \in {"tcp.echo", "udp.echo"} => s.plan[i].test = echoTestFor(s.plan[i].transport)
              /\ s.plan[i].test = "dest.dns" => s.plan[i].transport = "udp" /\ s.plan[i].port = 53
              /\ s.plan[i].domain # "" <=> OfSite(s.plan[i])
              /\ OfSite(s.plan[i]) =>
                    /\ s.plan[i].variant \in IF s.plan[i].test = "dest.tls" THEN {"site", "decoy", "absent"} ELSE {"site"}
                    /\ \A r \in s.results[i] : r.merged = r.outcome /\ r.outcome \in ToSet(Alphabetical)
                    /\ \A j \in DOMAIN s.plan :
                          s.plan[j].test = s.plan[i].test /\ s.plan[j].variant = s.plan[i].variant
                          /\ s.plan[j].domain = s.plan[i].domain => i = j

VARIABLES
    scan,       \* one of Scenarios
    attempts,   \* the attempts that finished
    flagged,    \* those with detail.transient
    report      \* the classification, NoReport before

classifyVars == <<scan, attempts, flagged, report>>

\* Before the first classification.
NoReport == [transient |-> {}]

\* The one-line summary: low-confidence findings are listed apart.
summarize(verdicts) ==
    IF verdicts = {} THEN "clean"
    ELSE IF \A v \in verdicts : v.confidence = "low" THEN "low confidence only"
    ELSE "findings"

\* The report with these verdicts.
Report(s, atts, transient, notes, verdicts) ==
    LET unreachable == ~ s.reachable /\ ~ s.standalone
    IN [transient |-> transient,
        notes     |-> notes,
        verdicts  |-> IF unreachable THEN {Verdict("probe_unreachable", <<"control plane">>, "high", <<>>)}
                      ELSE verdicts,
        sites     |-> IF unreachable THEN <<>>
                      ELSE Destinations(s.plan, atts, transient, verdicts),
        summary   |-> IF unreachable THEN "probe_unreachable" ELSE summarize(verdicts)]

\* The rules over these cells.
Judged(s, atts, transient, notes, cells) ==
    Report(s, atts, transient, notes,
           RuleVerdicts(s.plan, atts, cells) \cup destVerdicts(s.plan, atts, transient, cells))

\* The cells without the outages.
Aggregated(s, atts, transient, notes) ==
    Judged(s, atts, transient, notes, Aggregate(s.plan, atts, transient))

\* classify, on attempts of which those in before carry a flag.
Classification(s, atts, before) ==
    LET local   == flagLocalOutage(atts)
        windows == flagTransient(s.plan, atts, before, local)
    IN Aggregated(s, atts, before \cup local \cup UNION windows, <<LocalWindows(atts), windows>>)

Init ==
    /\ scan \in Scenarios
    /\ attempts = {}
    /\ flagged = {}
    /\ report = NoReport

\* An attempt of cell i ends, as merged with what the server saw.
Finish(i) ==
    LET mine == {a \in attempts : a.cell = i} IN
    /\ report = NoReport
    /\ Cardinality(mine) < scan.rounds[i]
    /\ \E r \in scan.results[i] :
          LET same == {a \in mine : [a EXCEPT !.cell = 0, !.n = 0] = r}
          IN attempts' = attempts \cup {[r EXCEPT !.cell = i, !.n = Cardinality(same) + 1]}
    /\ UNCHANGED <<scan, flagged, report>>

\* The scan ends, or its report is classified again.
Classify ==
    /\ attempts # {}
    /\ report' = Classification(scan, attempts, flagged)
    /\ flagged' = report'.transient
    /\ UNCHANGED <<scan, attempts>>

Next == (\E i \in DOMAIN scan.plan : Finish(i)) \/ Classify

Spec == Init /\ [][Next]_classifyVars

----------------------------------------------------------------------------
(* Properties *)

Reported == report # NoReport

\* The cells of the report.
cells == Aggregate(scan.plan, attempts, flagged)

\* The cells a verdict is about: those of the family, the echo of the port.
CellsOf(subject) ==
    {c \in ToSet(cells) : \/ subject \in {Key(c), familyKey(c)}
                          \/ subject = portKey(c.transport, c.port) /\ c.test = echoTestFor(c.transport)}

\* Classifying a stored report again finds the same outages, the same verdicts and the same
\* summaries (flagTransient: the attempts "a stored report carries flagged from this rule are
\* [counted], so that re-classifying it gives the same note").
ReclassifyStable == [][Reported => report' = report]_classifyVars

\* An attempt that measured nothing, in a cell with another attempt, neither brings a verdict
\* about nor takes one away (Cell.Unmeasured: "they are never evidence"); the failures of the
\* host that date an outage are apart.
UnmeasuredNeutral ==
    Reported =>
        \A a \in attempts :
            /\ unmeasured(a) /\ (\E b \in attempts \ {a} : b.cell = a.cell /\ ~ b.cancelled)
            /\ LocalWindows(attempts) = {}
            => LET without == Classification(scan, attempts \ {a}, {})
                   Findings(r) == {<<v.kind, v.subject>> : v \in r.verdicts}
               IN Findings(without) = Findings(report)

\* What breaks a session is explained once: a session is called cut only when its handshake
\* is not itself blamed, nor the session for being a variant of its family (ruleSessionCut: a
\* session that fails together with its handshake "is protocol blocking and is reported by
\* rule 4").
OneExplanation ==
    Reported =>
        \A v \in report.verdicts : v.kind = "session_cut_suspected" =>
            \A w \in report.verdicts \ {v} :
                \/ w.kind \in {"session_cut_suspected", "port_blocking_suspected", "transparent_proxy_suspected"}
                                \cup modificationMerges
                \/ w.subject # v.subject /\ v.control \notin {Key(c) : c \in CellsOf(w.subject)}

\* A verdict above "low" that compares with a control: the control passes, and a cell the
\* verdict is about failed at least twice (mediumMinAttempts: "a single failure is an
\* anecdote, never more than low").  Nothing seen from one end alone is "high".
Corroborated ==
    Reported =>
        \A v \in report.verdicts :
            /\ v.confidence # "low" /\ v.control # <<>> /\ CellsOf(v.subject) # {} =>
                  /\ Cardinality({a \in UNION {c.measured : c \in CellsOf(v.subject)} : a.outcome # "ok"}) >= 2
                  /\ \A c \in ToSet(cells) : Key(c) = v.control /\ v.control # v.subject =>
                        pass(c) \/ (v.kind = "dest_sni_blocking_suspected" /\ timedOutOnly(c))
            /\ \A c \in CellsOf(v.subject) : IsDestTest(c.test) => v.confidence # "high"

\* A site is clear only on a handshake of its own that was completed outside an outage, and
\* when no measured attempt of its layers, the controls aside, failed (siteVerdict: "not
\* measured is not clear").  A stop that cancels every attempt of the site's own protocol leaves
\* TCP to stand for it.
ClearMeasured ==
    Reported =>
        \A d \in DOMAIN report.sites : report.sites[d] = "clear" =>
            LET Ran(test) == {a \in attempts : LET p == scan.plan[a.cell]
                                              IN p.domain = d /\ p.test = test /\ p.variant = "site"}
                Told(test) == {a \in Ran(test) \ flagged : ~ a.cancelled /\ ~ unmeasured(a)}
                proto == {a \in Ran("dest.proto") : a.cancelled => a \in flagged}
            IN /\ \E t \in IF Ran("dest.tls") # {} THEN {"dest.tls", "dest.http"}
                           ELSE IF proto # {} THEN {"dest.proto"} ELSE {"dest.tcp"} : Told(t) # {}
               /\ \A t \in {"dest.dns", "dest.tcp", "dest.tls", "dest.http", "dest.proto"} :
                     \A a \in Told(t) : a.outcome = "ok"

\* The name of a site is blamed only on a ClientHello that left the host with that name and
\* failed, beside another name on the address that no one reset (destVerdicts: "No ClientHello
\* left the host ... The name is not in evidence at all").
NameInEvidence ==
    Reported =>
        \A v \in report.verdicts : v.kind = "dest_sni_blocking_suspected" =>
            /\ \E c \in CellsOf(v.subject) : \E a \in c.measured :
                  a.outcome \notin {"ok", "connect_timeout", "connect_reset", "connect_refused"}
            /\ \E c \in ToSet(cells) : /\ Key(c) = v.control /\ c.variant = "decoy"
                                       /\ pass(c) \/ \A a \in c.measured : a.outcome # "midstream_reset"
=============================================================================
