------------------------------ MODULE Progress ------------------------------
(***************************************************************************)
(* What a scan promises whoever embeds it (engine.Scan, Hooks.Progress):   *)
(* every job yields at most one result, what was in flight when the scan   *)
(* stopped is not reported as a failure, the bar is never ahead of the     *)
(* results nor runs backwards, and the scan returns only when the bar has  *)
(* shown every result and, unless it was stopped, every job it owes has one.*)
(***************************************************************************)
EXTENDS Integers, FiniteSets

CONSTANTS
    Jobs,
    Owed(_)   \* the jobs a scan owes once it has these results: first rounds, and retries

VARIABLES
    results,  \* [job, out, cut]: cut when the scan stopped under it
    bar,      \* [done, total]
    stopped,
    over

progressVars == <<results, bar, stopped, over>>

Init ==
    /\ results = {}
    /\ bar = [done |-> 0, total |-> 0]
    /\ stopped = FALSE
    /\ over = FALSE

Judged(a) == a.cut => a.out # "fail"

Record ==
    /\ ~over
    /\ \E a \in results' \ results :
          /\ a.job \in Jobs /\ a.out \in {"ok", "skipped", "fail"}
          /\ \A b \in results : b.job # a.job
          /\ Judged(a)
          /\ results' = results \cup {a}
    /\ UNCHANGED <<bar, stopped, over>>

Show ==
    /\ ~over
    /\ bar.done < Cardinality(results)
    /\ \E t \in bar.total..Cardinality(Jobs) :
          /\ t > bar.done
          /\ bar' = [done |-> bar.done + 1, total |-> t]
    /\ UNCHANGED <<results, stopped, over>>

Stop ==
    /\ ~stopped
    /\ stopped' = TRUE
    /\ UNCHANGED <<results, bar, over>>

Return ==
    /\ ~over
    /\ bar.done = Cardinality(results)
    /\ stopped \/ Owed(results) = {a.job : a \in results}
    /\ over' = TRUE
    /\ UNCHANGED <<results, bar, stopped>>

Next == Record \/ Show \/ Stop \/ Return

Spec == Init /\ [][Next]_progressVars
=============================================================================
