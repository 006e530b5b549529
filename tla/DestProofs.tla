----------------------------- MODULE DestProofs ----------------------------
(***************************************************************************)
(* Theorems about Dest, for any scans, rounds, worlds, resolvers and        *)
(* answers.  The first two rest on when a resolution is stored, cached and  *)
(* taken; the third on what a resolution computes from true answers.        *)
(***************************************************************************)
EXTENDS Dest, TLAPS, NaturalsInduction, WellFoundedInduction

----------------------------------------------------------------------------
(* The inductive invariant. *)

AttemptRecord(r) == r = [pc |-> r.pc, res |-> r.res, ip |-> r.ip, out |-> r.out]

Shape ==
    /\ att = [a \in Attempts |-> att[a]]
    /\ \A a \in Attempts : AttemptRecord(att[a])

\* An attempt that has an address has the first one of the resolution in force, and there is one.
OnResolution ==
    \A a \in Attempts : att[a].ip # NoAddr => resolved.ips # <<>> /\ att[a].ip = Head(resolved.ips)

DestInv == Shape /\ OnResolution

----------------------------------------------------------------------------
(* What the actions do to the attempts. *)

\* Assignments to fields of one attempt keep it a record, and the other attempts as they were.
LEMMA Assigned ==
    ASSUME Shape, NEW a \in Attempts, NEW pc, NEW out, NEW res,
           \/ att' = [att EXCEPT ![a].pc = pc]
           \/ att' = [att EXCEPT ![a].pc = pc, ![a].res = res]
           \/ att' = [att EXCEPT ![a].pc = pc, ![a].out = out, ![a].res = res]
           \/ att' = [att EXCEPT ![a] = [@ EXCEPT !.pc = pc, !.out = out]]
    PROVE  /\ Shape' /\ Attempts' = Attempts
           /\ \A b \in Attempts : b # a => att'[b] = att[b]
           /\ att'[a].ip = att[a].ip /\ att'[a].out \in {att[a].out, out}
<1>1. Attempts' = Attempts /\ att' = [b \in Attempts |-> att'[b]]
      /\ \A b \in Attempts : b # a => att'[b] = att[b]
  BY Zenon DEF Attempts
<1>2. att[a] = [pc |-> att[a].pc, res |-> att[a].res, ip |-> att[a].ip, out |-> att[a].out]
  BY Zenon DEF Shape, AttemptRecord
<1> DEFINE Made == /\ AttemptRecord(att'[a])
                   /\ att'[a].ip = att[a].ip /\ att'[a].out \in {att[a].out, out}
<1> HIDE DEF Made
<1>3. ASSUME att' = [att EXCEPT ![a].pc = pc] PROVE Made
  <2>1. att'[a] = [pc |-> pc, res |-> att[a].res, ip |-> att[a].ip, out |-> att[a].out]
    BY <1>2, <1>3, Zenon DEF Attempts
  <2> QED BY <2>1 DEF AttemptRecord, Made
<1>4. ASSUME att' = [att EXCEPT ![a].pc = pc, ![a].res = res] PROVE Made
  <2>1. att'[a] = [pc |-> pc, res |-> res, ip |-> att[a].ip, out |-> att[a].out]
    BY <1>2, <1>4, Zenon DEF Attempts
  <2> QED BY <2>1 DEF AttemptRecord, Made
<1>5. ASSUME att' = [att EXCEPT ![a].pc = pc, ![a].out = out, ![a].res = res] PROVE Made
  <2>1. att'[a] = [pc |-> pc, res |-> res, ip |-> att[a].ip, out |-> out]
    BY <1>2, <1>5 DEF Attempts
  <2> QED BY <2>1 DEF AttemptRecord, Made
<1>6. ASSUME att' = [att EXCEPT ![a] = [@ EXCEPT !.pc = pc, !.out = out]] PROVE Made
  <2>1. att'[a] = [pc |-> pc, res |-> att[a].res, ip |-> att[a].ip, out |-> out]
    BY <1>2, <1>6, Zenon DEF Attempts
  <2> QED BY <2>1 DEF AttemptRecord, Made
<1>8. Made
  BY <1>3, <1>4, <1>5, <1>6
<1>9. Shape'
  BY <1>1, <1>8 DEF Shape, AttemptRecord, Made
<1> QED BY <1>1, <1>8, <1>9 DEF Made

\* A layer that takes a resolution is skipped without an address, and else on the first one.
LEMMA Taken ==
    ASSUME Shape, NEW a \in Attempts, NEW r, Take(a, r)
    PROVE  /\ Shape' /\ Attempts' = Attempts
           /\ \A b \in Attempts : b # a => att'[b] = att[b]
           /\ r.ips = <<>> => att'[a].ip = att[a].ip /\ att'[a].out = "skipped"
           /\ r.ips # <<>> => att'[a].ip = Head(r.ips) /\ att'[a].out = att[a].out
<1>1. Attempts' = Attempts /\ att' = [b \in Attempts |-> att'[b]]
      /\ \A b \in Attempts : b # a => att'[b] = att[b]
  BY Zenon DEF Attempts, Take
<1>2. att[a] = [pc |-> att[a].pc, res |-> att[a].res, ip |-> att[a].ip, out |-> att[a].out]
  BY Zenon DEF Shape, AttemptRecord
<1>3. CASE r.ips = <<>>
  <2>1. att'[a] = [[att[a] EXCEPT !.pc = "done"] EXCEPT !.out = "skipped"]
    BY <1>3, Zenon DEF Attempts, Take
  <2>2. att'[a] = [pc |-> "done", res |-> att[a].res, ip |-> att[a].ip, out |-> "skipped"]
    BY <1>2, <2>1, Zenon
  <2> QED BY <1>1, <1>3, <2>2 DEF Shape, AttemptRecord
<1>4. CASE r.ips # <<>>
  <2>1. att'[a] = [[[att[a] EXCEPT !.pc = "probing"] EXCEPT !.res = r] EXCEPT !.ip = Head(r.ips)]
    BY <1>4, Zenon DEF Attempts, Take
  <2>2. att'[a] = [pc |-> "probing", res |-> r, ip |-> Head(r.ips), out |-> att[a].out]
    BY <1>2, <2>1, Zenon
  <2> QED BY <1>1, <1>4, <2>2 DEF Shape, AttemptRecord
<1> QED BY <1>3, <1>4

\* The outcomes of a connect and of a handshake do not name a skip.
LEMMA PathOutcomes ==
    ASSUME NEW ip
    PROVE  "skipped" \notin Connects(ip) /\ "skipped" \notin Handshakes(ip)
BY DestConstants DEF Connects, Handshakes

\* Nor does what the DNS layer makes of two answers.
LEMMA DNSOutcomesNoSkip ==
    ASSUME NEW sys, NEW trusted
    PROVE  "skipped" \notin DNSOutcomes(sys, trusted)
<1>1. "skipped" \notin Verified(sys, trusted)
  BY DEF Verified
<1> QED BY <1>1 DEF DNSOutcomes

----------------------------------------------------------------------------
(* Every step keeps the invariant and skips only with reason. *)

\* What SkipJustified says of one step.
SkipStep ==
    \A a \in Attempts :
        att[a].out # "skipped" /\ att'[a].out = "skipped" =>
           /\ \A b \in Attempts : att[b].ip = NoAddr
           /\ att[a].pc = "storing" \/ clock - resolved.at < ReresolveAfter

\* A step that only assigns the state, outcome or result of an attempt.
LEMMA AssignStep ==
    ASSUME DestInv, NEW a \in Attempts, NEW pc, NEW out, NEW res, out # "skipped",
           \/ att' = [att EXCEPT ![a].pc = pc]
           \/ att' = [att EXCEPT ![a].pc = pc, ![a].res = res]
           \/ att' = [att EXCEPT ![a].pc = pc, ![a].out = out, ![a].res = res],
           resolved' = resolved \/ (resolved.ips = <<>> /\ \A b \in Attempts : att[b].ip = NoAddr)
    PROVE  DestInv' /\ SkipStep
<1>1. Shape
  BY Zenon DEF DestInv
<1>2. /\ Shape' /\ Attempts' = Attempts
      /\ \A b \in Attempts : b # a => att'[b] = att[b]
      /\ att'[a].ip = att[a].ip /\ att'[a].out \in {att[a].out, out}
  <2>1. CASE att' = [att EXCEPT ![a].pc = pc]
    BY <1>1, <2>1, Assigned, Zenon
  <2>2. CASE att' = [att EXCEPT ![a].pc = pc, ![a].res = res]
    BY <1>1, <2>2, Assigned, Zenon
  <2>3. CASE att' = [att EXCEPT ![a].pc = pc, ![a].out = out, ![a].res = res]
    BY <1>1, <2>3, Assigned, Zenon
  <2> QED BY <2>1, <2>2, <2>3
<1>3. \A b \in Attempts : att'[b].ip = att[b].ip
  BY <1>2, Zenon
<1>4. OnResolution'
  BY <1>2, <1>3 DEF OnResolution, DestInv
<1>5. SkipStep
  BY <1>2, Zenon DEF SkipStep
<1> QED BY <1>2, <1>4, <1>5 DEF DestInv

\* An attempt ends with an outcome of the path.
LEMMA EndStep ==
    ASSUME DestInv, NEW a \in Attempts, NEW out, out # "skipped", End(a, out)
    PROVE  DestInv' /\ SkipStep
BY AssignStep DEF End

\* A layer takes a resolution that is in force.
LEMMA TakeStep ==
    ASSUME DestInv, NEW a \in Attempts, NEW r, Take(a, r), resolved' = r,
           resolved.ips = <<>> \/ r = resolved,
           r.ips = <<>> => att[a].pc = "storing" \/ clock - resolved.at < ReresolveAfter
    PROVE  DestInv' /\ SkipStep
<1>1. Shape /\ OnResolution
  BY Zenon DEF DestInv
<1>2. /\ Shape' /\ Attempts' = Attempts
      /\ \A b \in Attempts : b # a => att'[b] = att[b]
      /\ r.ips = <<>> => att'[a].ip = att[a].ip /\ att'[a].out = "skipped"
      /\ r.ips # <<>> => att'[a].ip = Head(r.ips) /\ att'[a].out = att[a].out
  BY <1>1, Taken, Zenon
<1>3. resolved.ips = <<>> => \A b \in Attempts : att[b].ip = NoAddr
  BY <1>1, Zenon DEF OnResolution
<1>4. OnResolution'
  <2> SUFFICES ASSUME NEW b \in Attempts, att'[b].ip # NoAddr
               PROVE  resolved'.ips # <<>> /\ att'[b].ip = Head(resolved'.ips)
    BY <1>2, Zenon DEF OnResolution
  <2>1. CASE b = a /\ r.ips # <<>>
    BY <1>2, <2>1, Zenon
  <2>2. CASE b # a \/ r.ips = <<>>
    <3>1. att'[b].ip = att[b].ip
      BY <1>2, <2>2, Zenon
    <3>2. r = resolved
      BY <1>3, <3>1
    <3> QED BY <1>1, <3>1, <3>2 DEF OnResolution
  <2> QED BY <2>1, <2>2
<1>5. SkipStep
  <2> SUFFICES ASSUME NEW b \in Attempts, att[b].out # "skipped", att'[b].out = "skipped"
               PROVE  /\ \A d \in Attempts : att[d].ip = NoAddr
                      /\ att[b].pc = "storing" \/ clock - resolved.at < ReresolveAfter
    BY Zenon DEF SkipStep
  <2>1. b = a /\ r.ips = <<>>
    BY <1>2, Zenon
  <2> QED BY <1>3, <2>1
<1> QED BY <1>2, <1>4, <1>5 DEF DestInv

\* An attempt starts, resolves and stores.
LEMMA ResolvingStep ==
    ASSUME DestInv, NEW a \in Attempts, Start(a) \/ Resolve(a) \/ Store(a)
    PROVE  DestInv' /\ SkipStep
<1>1. CASE Start(a)
  <2>1. CASE LayerOf(a) # "dns" /\ Cached
    <3>1. Take(a, resolved) /\ resolved' = resolved
      BY <1>1, <2>1, Zenon DEF Start
    <3>2. resolved.ips = <<>> => clock - resolved.at < ReresolveAfter
      BY <2>1, Zenon DEF Cached
    <3> QED BY <3>1, <3>2, TakeStep
  <2>2. CASE ~(LayerOf(a) # "dns" /\ Cached)
    <3>1. att' = [att EXCEPT ![a].pc = "resolving"] /\ resolved' = resolved
      BY <1>1, <2>2, Zenon DEF Start
    <3>2. PICK pc : att' = [att EXCEPT ![a].pc = pc]
      BY <3>1, Zenon
    <3>3. ASSUME NEW out, NEW res, out # "skipped"
          PROVE  DestInv' /\ SkipStep
      BY <3>1, <3>2, <3>3, AssignStep
    <3>4. "ok" # "skipped"
      BY Zenon
    <3> QED BY <3>3, <3>4, Zenon
  <2> QED BY <2>1, <2>2
<1>2. CASE Resolve(a)
  <2>1. resolved' = resolved
    BY <1>2, Zenon DEF Resolve
  <2>2. PICK view \in Views : \E out \in IF LayerOf(a) = "dns" THEN DNSOutcomes(view[1], view[2]) ELSE {""} :
          att' = [att EXCEPT ![a].pc = "storing", ![a].out = out, ![a].res = Resolution(view[1], view[2])]
    BY <1>2, Zenon DEF Resolve
  <2>3. PICK out \in IF LayerOf(a) = "dns" THEN DNSOutcomes(view[1], view[2]) ELSE {""} :
          att' = [att EXCEPT ![a].pc = "storing", ![a].out = out, ![a].res = Resolution(view[1], view[2])]
    BY <2>2, Zenon
  <2>4. out # "skipped"
    BY <2>3, DNSOutcomesNoSkip
  <2> QED BY <2>1, <2>3, <2>4, AssignStep
<1>3. CASE Store(a)
  <2>1. att[a].pc = "storing" /\ resolved' = destStore(att[a].res)
    BY <1>3, Zenon DEF Store
  <2>2. resolved.ips = <<>> \/ resolved' = resolved
    BY <2>1, Zenon DEF destStore
  <2>3. CASE LayerOf(a) = "dns"
    <3>1. att' = [att EXCEPT ![a].pc = "done", ![a].res = NoResolution]
      BY <1>3, <2>3, Zenon DEF Store
    <3>2. resolved.ips = <<>> => \A b \in Attempts : att[b].ip = NoAddr
      BY Zenon DEF DestInv, OnResolution
    <3> QED BY <2>2, <3>1, <3>2, AssignStep
  <2>4. CASE LayerOf(a) # "dns"
    <3>1. Take(a, resolved')
      BY <1>3, <2>4, Zenon DEF Store
    <3> QED BY <2>1, <2>2, <3>1, TakeStep
  <2> QED BY <2>3, <2>4
<1> QED BY <1>1, <1>2, <1>3

\* An attempt of a transport layer or of a control ends.
LEMMA ProbingStep ==
    ASSUME DestInv, NEW a \in Attempts,
           destTCP(a) \/ destTLS(a) \/ destProto(a) \/ destHTTPCheck(a) \/ destNXDomain(a) \/ destTCPControl(a)
    PROVE  DestInv' /\ SkipStep
<1> SUFFICES \E out : out # "skipped" /\ End(a, out)
  BY EndStep, Zenon
<1>1. CASE destTCP(a)
  BY <1>1, PathOutcomes, Zenon DEF destTCP
<1>2. CASE destTLS(a)
  BY <1>2, PathOutcomes, Zenon DEF destTLS
<1>3. CASE destProto(a)
  BY <1>3, PathOutcomes, Zenon DEF destProto
<1>4. CASE destHTTPCheck(a)
  BY <1>4, PathOutcomes DEF destHTTPCheck
<1>5. CASE destNXDomain(a)
  BY <1>5, Zenon DEF destNXDomain
<1>6. CASE destTCPControl(a)
  BY <1>6, PathOutcomes DEF destTCPControl
<1> QED BY <1>1, <1>2, <1>3, <1>4, <1>5, <1>6

\* Every step keeps the invariant, and skips only where that is justified.
LEMMA NextInv ==
    ASSUME DestInv, [Next]_destVars
    PROVE  DestInv' /\ (SkipStep \/ UNCHANGED destVars)
<1>1. CASE UNCHANGED <<resolved, att>>
  <2>1. DestInv'
    BY <1>1 DEF DestInv, Shape, AttemptRecord, OnResolution, Attempts
  <2>2. SkipStep
    BY <1>1, Zenon DEF SkipStep
  <2> QED BY <2>1, <2>2
<1>2. CASE Tick \/ Outage
  BY <1>1, <1>2 DEF Tick, Outage
<1>3. CASE Finished \/ UNCHANGED destVars
  BY <1>1, <1>3 DEF Finished, destVars
<1>4. ASSUME NEW a \in Attempts, Start(a) \/ Resolve(a) \/ Store(a)
      PROVE  DestInv' /\ SkipStep
  BY <1>4, ResolvingStep
<1>5. ASSUME NEW a \in Attempts,
             destTCP(a) \/ destTLS(a) \/ destProto(a) \/ destHTTPCheck(a) \/ destNXDomain(a) \/ destTCPControl(a)
      PROVE  DestInv' /\ SkipStep
  BY <1>5, ProbingStep, Zenon
<1> QED BY <1>2, <1>3, <1>4, <1>5 DEF Next

\* The invariant holds at the start.
LEMMA InitInv == Init => DestInv
<1> SUFFICES ASSUME Init PROVE DestInv
  BY Zenon
<1>1. \A a \in Attempts : att[a] = [pc |-> "todo", res |-> NoResolution, ip |-> NoAddr, out |-> ""]
  BY Zenon DEF Init, Attempts
<1>2. att = [a \in Attempts |-> att[a]]
  BY Zenon DEF Init, Attempts
<1>3. ASSUME NEW a \in Attempts
      PROVE  AttemptRecord(att[a]) /\ att[a].ip = NoAddr
  <2> DEFINE none == ""
  <2>1. att[a] = [pc |-> "todo", res |-> NoResolution, ip |-> NoAddr, out |-> none]
    BY <1>1, Zenon
  <2> HIDE DEF none
  <2> QED BY <2>1 DEF AttemptRecord
<1> QED BY <1>2, <1>3 DEF DestInv, Shape, OnResolution

(* Every handshake and HTTP check of a site goes to one address, for any      *)
(* number of attempts and rounds and whatever the resolvers answer: the first *)
(* resolution that produced an address stays in force.                        *)
THEOREM OneAddressHolds == Spec => []OneAddress
<1>1. DestInv => OneAddress
  BY Zenon DEF DestInv, OnResolution, OneAddress
<1>2. DestInv /\ [Next]_destVars => DestInv'
  BY NextInv, Zenon
<1> QED BY <1>1, <1>2, InitInv, PTL DEF Spec

(* A layer is skipped only while no attempt of the site has had an address,   *)
(* and only on its own resolution or a cached failure that is still young.    *)
THEOREM SkipJustifiedHolds == Spec => SkipJustified
<1>1. DestInv /\ [Next]_destVars => DestInv'
  BY NextInv, Zenon
<1>2. DestInv /\ [Next]_destVars => [SkipStep]_destVars
  BY NextInv, Zenon
<1> QED BY <1>1, <1>2, InitInv, PTL DEF Spec, SkipJustified, SkipStep

----------------------------------------------------------------------------
(* Loops over a list, as the recursive functions of DestNames. *)

\* A set of numbers that is not empty has a least element.
LEMMA LeastNumber ==
    ASSUME NEW S \in SUBSET Nat, S # {}
    PROVE  \E m \in S : \A n \in S : m <= n
<1>1. PICK m \in S : \A n \in S : ~ (<<n, m>> \in OpToRel(<, Nat))
  BY NatLessThanWellFounded, WFMin, Zenon
<1>2. ASSUME NEW n \in S
      PROVE  m <= n
  <2>1. m \in Nat /\ n \in Nat
    OBVIOUS
  <2>2. n < m => <<n, m>> \in OpToRel(<, Nat)
    BY <2>1 DEF OpToRel
  <2>3. ~(n < m)
    BY <1>1, <2>2, Zenon
  <2> QED
    BY <2>1, <2>3
<1> QED
  BY <1>2

\* A set that holds 0 and with every number the next holds them all.
LEMMA Induction ==
    ASSUME NEW S, 0 \in S, \A n \in Nat : n \in S => n + 1 \in S
    PROVE  Nat \subseteq S
<1> SUFFICES ASSUME Nat \ S # {} PROVE FALSE
  BY Zenon
<1>1. PICK m \in Nat \ S : \A n \in Nat \ S : m <= n
  BY LeastNumber, Zenon
<1>2. m # 0 /\ m - 1 \in Nat /\ m - 1 \in S
  BY <1>1
<1> QED
  BY <1>1, <1>2

\* f iterates step n times from base.
Recurs(f, base, step, n) == f[0] = base /\ \A i \in 1..n : f[i] = step[<<f[i - 1], i>>]

\* What a loop over n elements computes exists.
LEMMA Recursion ==
    ASSUME NEW X, NEW base \in X, NEW n \in Nat, NEW step \in [X \X (1..n) -> X]
    PROVE  \E f \in [0..n -> X] : Recurs(f, base, step, n)
<1> DEFINE Good == {m \in Nat : m <= n => \E f \in [0..m -> X] : Recurs(f, base, step, m)}
<1>1. 0 \in Good
  <2> DEFINE f == [i \in 0..0 |-> base]
  <2>1. f \in [0..0 -> X] /\ f[0] = base
    OBVIOUS
  <2> HIDE DEF f
  <2>2. \E g \in [0..0 -> X] : Recurs(g, base, step, 0)
    BY <2>1 DEF Recurs
  <2> QED
    BY <2>2, Zenon
<1>2. ASSUME NEW m \in Nat, m \in Good
      PROVE  m + 1 \in Good
  <2> SUFFICES ASSUME m + 1 <= n
               PROVE  \E g \in [0..(m + 1) -> X] : Recurs(g, base, step, m + 1)
    OBVIOUS
  <2>1. PICK f \in [0..m -> X] : Recurs(f, base, step, m)
    BY <1>2
  <2> DEFINE next == step[<<f[m], m + 1>>]
             g == [i \in 0..(m + 1) |-> IF i = m + 1 THEN next ELSE f[i]]
  <2>2. next \in X
    <3>1. f[m] \in X /\ m + 1 \in 1..n
      BY <2>1
    <3>2. <<f[m], m + 1>> \in X \X (1..n)
      BY <3>1, Zenon
    <3> QED
      BY <3>2, Zenon
  <2> HIDE DEF next
  <2>3. g \in [0..(m + 1) -> X]
    BY <2>1, <2>2
  <2>4. g[m + 1] = next /\ \A i \in 0..m : g[i] = f[i]
    OBVIOUS
  <2> HIDE DEF g
  <2>5. g[0] = base
    BY <2>1, <2>4 DEF Recurs
  <2>6. ASSUME NEW i \in 1..(m + 1)
        PROVE  g[i] = step[<<g[i - 1], i>>]
    <3>1. CASE i = m + 1
      <4>1. i - 1 = m /\ g[m] = f[m]
        BY <2>4, <3>1
      <4> QED
        BY <2>4, <3>1, <4>1 DEF next
    <3>2. CASE i # m + 1
      <4>1. i \in 1..m /\ i - 1 \in 0..m /\ i \in 0..m
        BY <3>2
      <4>2. g[i] = f[i] /\ g[i - 1] = f[i - 1]
        BY <2>4, <4>1, Zenon
      <4> QED
        BY <2>1, <4>1, <4>2 DEF Recurs
    <3> QED
      BY <3>1, <3>2, Zenon
  <2> QED
    BY <2>3, <2>5, <2>6 DEF Recurs
<1> HIDE DEF Good
<1>3. n \in Good
  BY <1>1, <1>2, Induction, Zenon
<1> QED
  BY <1>3 DEF Good


\* What a loop keeps in a set at every turn is in the set at the end.
LEMMA Stays ==
    ASSUME NEW X, NEW n \in Nat, NEW k, k[0] \in X,
           \A i \in 1..n : k[i - 1] \in X => k[i] \in X
    PROVE  k[n] \in X
<1> DEFINE Good == {i \in Nat : i <= n => k[i] \in X}
<1>1. 0 \in Good
  BY Zenon
<1>2. ASSUME NEW i \in Nat, i \in Good
      PROVE  i + 1 \in Good
  <2> SUFFICES ASSUME i + 1 <= n
               PROVE  k[i + 1] \in X
    OBVIOUS
  <2>1. i + 1 \in 1..n /\ (i + 1) - 1 = i /\ k[i] \in X
    BY <1>2
  <2> QED
    BY <2>1, Zenon
<1> HIDE DEF Good
<1>3. n \in Good
  BY <1>1, <1>2, Induction, Zenon
<1> QED
  BY <1>3 DEF Good

IsKept(out, list, set) ==
    out = [i \in 0..Len(list) |->
             IF i = 0 THEN <<>>
             ELSE IF list[i] \in set THEN Append(out[i - 1], list[i]) ELSE out[i - 1]]

\* What is kept of a list is in the list and in the set.
LEMMA KeptOf ==
    ASSUME NEW T, NEW set, NEW list \in Seq(T)
    PROVE  Kept(list, set) \in Seq(T \cap set)
<1> DEFINE n == Len(list)
           X == Seq(T \cap set)
           none == <<>>
           step == [p \in X \X (1..n) |-> IF list[p[2]] \in set THEN Append(p[1], list[p[2]]) ELSE p[1]]
           k == CHOOSE out : IsKept(out, list, set)
<1>1. n \in Nat /\ none \in X /\ \A i \in 1..n : list[i] \in T
  OBVIOUS
<1>2. ASSUME NEW x \in X, NEW i \in 1..n
      PROVE  (IF list[i] \in set THEN Append(x, list[i]) ELSE x) \in X
  BY <1>1
<1> HIDE DEF X, n
<1>3. step \in [X \X (1..n) -> X]
  BY <1>2, Zenon
<1>4. ASSUME NEW x \in X, NEW i \in 1..n
      PROVE  step[<<x, i>>] = IF list[i] \in set THEN Append(x, list[i]) ELSE x
  <2>1. <<x, i>> \in X \X (1..n) /\ <<x, i>>[1] = x /\ <<x, i>>[2] = i
    BY Zenon
  <2> QED
    BY <2>1, Zenon
<1> HIDE DEF step
<1>5. PICK f \in [0..n -> X] : Recurs(f, none, step, n)
  BY <1>1, <1>3, Recursion, Zenon
<1>6. IsKept(f, list, set)
  <2>1. ASSUME NEW i \in 0..n
        PROVE  f[i] = IF i = 0 THEN <<>>
                      ELSE IF list[i] \in set THEN Append(f[i - 1], list[i]) ELSE f[i - 1]
    <3>1. CASE i = 0
      BY <1>5, <3>1, Zenon DEF Recurs
    <3>2. CASE i # 0
      <4>1. i \in 1..n /\ f[i - 1] \in X
        BY <1>1, <1>5, <3>2
      <4>2. f[i] = step[<<f[i - 1], i>>]
        BY <1>5, <4>1, Zenon DEF Recurs
      <4> QED
        BY <1>4, <3>2, <4>1, <4>2
    <3> QED
      BY <3>1, <3>2, Zenon
  <2>2. f = [i \in 0..n |-> f[i]]
    BY <1>5, Zenon
  <2> QED
    BY <2>1, <2>2, Zenon DEF IsKept, n
<1>7. IsKept(k, list, set)
  BY <1>6, Zenon
<1>8. Kept(list, set) = k[n]
  BY Zenon DEF Kept, IsKept, n
<1> HIDE DEF k
<1>9. k[0] \in X
  BY <1>1, <1>7 DEF IsKept, n
<1>10. ASSUME NEW i \in 1..n, k[i - 1] \in X
       PROVE  k[i] \in X
  <2>1. i \in 0..n /\ i # 0
    BY <1>1
  <2>2. k[i] = IF i = 0 THEN <<>>
               ELSE IF list[i] \in set THEN Append(k[i - 1], list[i]) ELSE k[i - 1]
    BY <1>7, <2>1, Zenon DEF IsKept, n
  <2> QED
    BY <1>2, <1>10, <2>1, <2>2
<1>11. k[n] \in X
  BY <1>1, <1>9, <1>10, Stays
<1> QED
  BY <1>8, <1>11, Zenon DEF X

IsUnique(out, list) ==
    out = [i \in 0..Len(list) |->
             IF i = 0 THEN <<>>
             ELSE IF list[i] \in ToSet(out[i - 1]) THEN out[i - 1] ELSE Append(out[i - 1], list[i])]

\* Unique adds nothing to a list.
LEMMA UniqueOf ==
    ASSUME NEW T, NEW list \in Seq(T)
    PROVE  Unique(list) \in Seq(T)
<1> DEFINE n == Len(list)
           X == Seq(T)
           none == <<>>
           step == [p \in X \X (1..n) |-> IF list[p[2]] \in ToSet(p[1]) THEN p[1] ELSE Append(p[1], list[p[2]])]
           k == CHOOSE out : IsUnique(out, list)
<1>1. n \in Nat /\ none \in X /\ \A i \in 1..n : list[i] \in T
  OBVIOUS
<1>2. ASSUME NEW x \in X, NEW i \in 1..n
      PROVE  (IF list[i] \in ToSet(x) THEN x ELSE Append(x, list[i])) \in X
  BY <1>1
<1> HIDE DEF X, n
<1>3. step \in [X \X (1..n) -> X]
  BY <1>2, Zenon
<1>4. ASSUME NEW x \in X, NEW i \in 1..n
      PROVE  step[<<x, i>>] = IF list[i] \in ToSet(x) THEN x ELSE Append(x, list[i])
  <2>1. <<x, i>> \in X \X (1..n) /\ <<x, i>>[1] = x /\ <<x, i>>[2] = i
    BY Zenon
  <2> QED
    BY <2>1, Zenon
<1> HIDE DEF step
<1>5. PICK f \in [0..n -> X] : Recurs(f, none, step, n)
  BY <1>1, <1>3, Recursion, Zenon
<1>6. IsUnique(f, list)
  <2>1. ASSUME NEW i \in 0..n
        PROVE  f[i] = IF i = 0 THEN <<>>
                      ELSE IF list[i] \in ToSet(f[i - 1]) THEN f[i - 1] ELSE Append(f[i - 1], list[i])
    <3>1. CASE i = 0
      BY <1>5, <3>1, Zenon DEF Recurs
    <3>2. CASE i # 0
      <4>1. i \in 1..n /\ f[i - 1] \in X
        BY <1>1, <1>5, <3>2
      <4>2. f[i] = step[<<f[i - 1], i>>]
        BY <1>5, <4>1, Zenon DEF Recurs
      <4> QED
        BY <1>4, <3>2, <4>1, <4>2, Zenon
    <3> QED
      BY <3>1, <3>2, Zenon
  <2>2. f = [i \in 0..n |-> f[i]]
    BY <1>5, Zenon
  <2> QED
    BY <2>1, <2>2 DEF IsUnique, n
<1>7. IsUnique(k, list)
  BY <1>6, Zenon
<1>8. Unique(list) = k[n]
  BY Zenon DEF Unique, IsUnique, n
<1> HIDE DEF k
<1>9. k[0] \in X
  BY <1>1, <1>7 DEF IsUnique, n
<1>10. ASSUME NEW i \in 1..n, k[i - 1] \in X
       PROVE  k[i] \in X
  <2>1. i \in 0..n /\ i # 0
    BY <1>1
  <2>2. k[i] = IF i = 0 THEN <<>>
               ELSE IF list[i] \in ToSet(k[i - 1]) THEN k[i - 1] ELSE Append(k[i - 1], list[i])
    BY <1>7, <2>1, Zenon DEF IsUnique, n
  <2> QED
    BY <1>2, <1>10, <2>1, <2>2
<1>11. k[n] \in X
  BY <1>1, <1>9, <1>10, Stays
<1> QED
  BY <1>8, <1>11, Zenon DEF X

IsJoined(out, list) ==
    out = [i \in 0..Len(list) |->
             IF i = 0 THEN <<>>
             ELSE out[i - 1] \o list[i].ips]

\* The addresses of answers are in whatever their lists are in.
LEMMA JoinedOf ==
    ASSUME NEW T, NEW R, NEW list \in Seq(R), \A i \in 1..Len(list) : list[i].ips \in Seq(T)
    PROVE  Joined(list) \in Seq(T)
<1> DEFINE n == Len(list)
           X == Seq(T)
           none == <<>>
           step == [p \in X \X (1..n) |-> p[1] \o list[p[2]].ips]
           k == CHOOSE out : IsJoined(out, list)
<1>1. n \in Nat /\ none \in X /\ \A i \in 1..n : list[i].ips \in Seq(T)
  OBVIOUS
<1>2. ASSUME NEW x \in X, NEW i \in 1..n
      PROVE  (x \o list[i].ips) \in X
  BY <1>1
<1> HIDE DEF X, n
<1>3. step \in [X \X (1..n) -> X]
  BY <1>2, Zenon
<1>4. ASSUME NEW x \in X, NEW i \in 1..n
      PROVE  step[<<x, i>>] = x \o list[i].ips
  <2>1. <<x, i>> \in X \X (1..n) /\ <<x, i>>[1] = x /\ <<x, i>>[2] = i
    BY Zenon
  <2> QED
    BY <2>1, Zenon
<1> HIDE DEF step
<1>5. PICK f \in [0..n -> X] : Recurs(f, none, step, n)
  BY <1>1, <1>3, Recursion, Zenon
<1>6. IsJoined(f, list)
  <2>1. ASSUME NEW i \in 0..n
        PROVE  f[i] = IF i = 0 THEN <<>>
                      ELSE f[i - 1] \o list[i].ips
    <3>1. CASE i = 0
      BY <1>5, <3>1, Zenon DEF Recurs
    <3>2. CASE i # 0
      <4>1. i \in 1..n /\ f[i - 1] \in X
        BY <1>1, <1>5, <3>2
      <4>2. f[i] = step[<<f[i - 1], i>>]
        BY <1>5, <4>1, Zenon DEF Recurs
      <4> QED
        BY <1>4, <3>2, <4>1, <4>2, Zenon
    <3> QED
      BY <3>1, <3>2, Zenon
  <2>2. f = [i \in 0..n |-> f[i]]
    BY <1>5, Zenon
  <2> QED
    BY <2>1, <2>2, Zenon DEF IsJoined, n
<1>7. IsJoined(k, list)
  BY <1>6, Zenon
<1>8. Joined(list) = k[n]
  BY Zenon DEF Joined, IsJoined, n
<1> HIDE DEF k
<1>9. k[0] \in X
  BY <1>1, <1>7 DEF IsJoined, n
<1>10. ASSUME NEW i \in 1..n, k[i - 1] \in X
       PROVE  k[i] \in X
  <2>1. i \in 0..n /\ i # 0
    BY <1>1
  <2>2. k[i] = IF i = 0 THEN <<>>
               ELSE k[i - 1] \o list[i].ips
    BY <1>7, <2>1, Zenon DEF IsJoined, n
  <2> QED
    BY <1>2, <1>10, <2>1, <2>2
<1>11. k[n] \in X
  BY <1>1, <1>9, <1>10, Stays
<1> QED
  BY <1>8, <1>11, Zenon DEF X

----------------------------------------------------------------------------
(* Answers that are true of the site. *)

\* A list of elements of a set is one of elements of a larger set.
LEMMA Widen ==
    ASSUME NEW A, NEW B, A \subseteq B, NEW s \in Seq(A)
    PROVE  s \in Seq(B)
OBVIOUS

\* Prioritize and Usable add no address.
LEMMA PrioritizeOf ==
    ASSUME NEW T, NEW ips \in Seq(T)
    PROVE  Prioritize(ips) \in Seq(T)
<1> DEFINE Public(family) == Kept(Unique(ips), {ip \in family : ~ IsBogon(ip)})
<1>1. ASSUME NEW family
      PROVE  Public(family) \in Seq(T)
  <2>1. Unique(ips) \in Seq(T)
    BY UniqueOf, Zenon
  <2>2. Public(family) \in Seq(T \cap {ip \in family : ~ IsBogon(ip)})
    BY <2>1, KeptOf, Zenon
  <2> QED
    BY <2>2, Widen, Zenon
<1>2. Prioritize(ips) = Public(V4) \o Public(V6)
  BY Zenon DEF Prioritize
<1> HIDE DEF Public
<1> QED
  BY <1>1, <1>2

LEMMA UsableOf ==
    ASSUME NEW T, NEW ips \in Seq(T), NEW usable
    PROVE  Usable(Prioritize(ips), usable) \in Seq(T)
<1>1. Prioritize(ips) \in Seq(T)
  BY PrioritizeOf, Zenon
<1>2. Kept(Prioritize(ips), usable) \in Seq(T \cap usable)
  BY <1>1, KeptOf, Zenon
<1>3. Kept(Prioritize(ips), usable) \in Seq(T)
  BY <1>2, Widen, Zenon
<1> QED
  BY <1>3, Zenon DEF Usable

\* The addresses a resolver that does not lie may give for the site.
Known(exists) == IF exists THEN Genuine ELSE {}

\* An answer that is true of the site: its addresses, and NXDOMAIN only if there is none.
Truthful(r, exists) == r.ips \in Seq(Known(exists)) /\ (exists => r.rcode # "NXDOMAIN")

LEMMA FailedTrue ==
    ASSUME NEW exists, NEW rcode, rcode # "NXDOMAIN"
    PROVE  Truthful(Response(rcode, <<>>), exists)
BY DEF Truthful, Response

LEMMA ResponseTrue ==
    ASSUME NEW exists, NEW i \in 1..ResolverCount,
           NEW records \in [1..ResolverCount -> Seq(Genuine)],
           NEW r \in Responses(i, records, exists)
    PROVE  Truthful(r, exists)
<1>1. CASE r = Failed \/ r = Response("OTHER", <<>>)
  BY <1>1, FailedTrue, Zenon DEF Failed
<1>2. CASE exists /\ r = Response("NOERROR", records[i])
  BY <1>2, Zenon DEF Truthful, Known, Response
<1>3. CASE ~exists /\ r = Response("NXDOMAIN", <<>>)
  BY <1>3 DEF Truthful, Known, Response
<1> QED
  BY <1>1, <1>2, <1>3, Zenon DEF Responses

LEMMA CombineTrue ==
    ASSUME NEW exists, NEW a, NEW aaaa, Truthful(a, exists), Truthful(aaaa, exists)
    PROVE  Truthful(combine(a, aaaa), exists)
<1> DEFINE ips == Unique(a.ips \o aaaa.ips)
           all == a.ips \o aaaa.ips
<1>1. all \in Seq(Known(exists))
  BY DEF Truthful
<1>2. ips \in Seq(Known(exists))
  BY <1>1, UniqueOf, Zenon
<1>3. combine(a, aaaa).ips = ips
  BY Zenon DEF combine, Response
<1>4. ASSUME exists
      PROVE  combine(a, aaaa).rcode # "NXDOMAIN"
  <2>1. "NXDOMAIN" \notin {a.rcode, aaaa.rcode}
    BY <1>4, Zenon DEF Truthful
  <2> HIDE DEF ips
  <2> QED
    BY <2>1, Zenon DEF combine, Response
<1> QED
  BY <1>2, <1>3, <1>4, Zenon DEF Truthful

\* QueryDoH gives the answer of an endpoint, or none.
LEMMA QueryTrue ==
    ASSUME NEW exists, NEW i \in 1..ResolverCount, NEW answer \in DoHAnswers(i, exists)
    PROVE  Truthful(answer, exists)
<1> DEFINE Endpoint(api) == [api : {api}, A : Responses(i, TrustedA, exists),
                             AAAA : Responses(i, TrustedAAAA, exists)]
           E == Endpoint("https") \cup Endpoint("json")
<1>1. PICK https \in Endpoint("https"), json \in Endpoint("json") :
        answer = QueryDoH(<<https, json>>)
  BY DEF DoHAnswers
<1> DEFINE endpoints == <<https, json>>
           answers == {ep \in ToSet(endpoints) : ~ EndpointFails(ep)}
           answering == Kept(endpoints, answers)
<1>2. ASSUME NEW ep \in E
      PROVE  Truthful(combine(ep.A, ep.AAAA), exists)
  <2>1. TrustedA \in [1..ResolverCount -> Seq(Genuine)] /\ TrustedAAAA \in [1..ResolverCount -> Seq(Genuine)]
    BY DestConstants, Zenon
  <2>2. ep.A \in Responses(i, TrustedA, exists) /\ ep.AAAA \in Responses(i, TrustedAAAA, exists)
    BY Zenon
  <2>3. Truthful(ep.A, exists) /\ Truthful(ep.AAAA, exists)
    BY <2>1, <2>2, ResponseTrue, Zenon
  <2> QED
    BY <2>3, CombineTrue, Zenon
<1>3. https \in E /\ json \in E
  BY <1>1, Zenon
<1> HIDE DEF E
<1>4. endpoints \in Seq(E)
  BY <1>3
<1>7. answer = IF answering = <<>> THEN Failed ELSE combine(Head(answering).A, Head(answering).AAAA)
  BY <1>1, Zenon DEF QueryDoH
<1> HIDE DEF answers, endpoints
<1>5. answering \in Seq(E \cap answers)
  BY <1>4, KeptOf, Zenon
<1>6. answering \in Seq(E)
  BY <1>5, Widen, Zenon
<1> HIDE DEF answering
<1>8. CASE answering = <<>>
  BY <1>7, <1>8, FailedTrue DEF Failed
<1>9. CASE answering # <<>>
  <2>1. Head(answering) \in E
    BY <1>6, <1>9
  <2> QED
    BY <1>2, <1>7, <1>9, <2>1
<1> QED
  BY <1>8, <1>9

\* The consensus of true answers is true.
LEMMA ConsensusTrue ==
    ASSUME NEW exists, NEW R, NEW answers \in Seq(R), \A r \in R : Truthful(r, exists)
    PROVE  Truthful(TrustedConsensus(answers), exists)
<1> DEFINE answered == {a \in ToSet(answers) : a.rcode # "ERROR"}
           ok == Kept(answers, answered)
           ips == Unique(Joined(ok))
<1>1. ok \in Seq(R)
  <2>1. ok \in Seq(R \cap answered)
    BY KeptOf, Zenon
  <2> QED
    BY <2>1, Widen, Zenon
<1>2. TrustedConsensus(answers) =
        IF ok = <<>> THEN Failed
        ELSE IF \A i \in DOMAIN ok : ok[i].rcode = "NXDOMAIN" THEN Response("NXDOMAIN", <<>>)
        ELSE IF ips # <<>> THEN Response("NOERROR", ips)
        ELSE Response("OTHER", <<>>)
  BY Zenon DEF TrustedConsensus
<1> HIDE DEF ok
<1>3. \A i \in 1..Len(ok) : Truthful(ok[i], exists)
  BY <1>1
<1>4. Joined(ok) \in Seq(Known(exists))
  <2>1. \A i \in 1..Len(ok) : ok[i].ips \in Seq(Known(exists))
    BY <1>3, Zenon DEF Truthful
  <2> QED
    BY <1>1, <2>1, JoinedOf
<1>5. ips \in Seq(Known(exists))
  BY <1>4, UniqueOf, Zenon
<1> HIDE DEF ips
<1>6. CASE ok = <<>>
  BY <1>2, <1>6, FailedTrue, Zenon DEF Failed
<1>7. CASE ok # <<>> /\ \A i \in DOMAIN ok : ok[i].rcode = "NXDOMAIN"
  <2>1. 1 \in 1..Len(ok) /\ 1 \in DOMAIN ok
    BY <1>1, <1>7
  <2>2. ~exists
    BY <1>3, <1>7, <2>1, Zenon DEF Truthful
  <2> QED
    BY <1>2, <1>7, <2>2 DEF Truthful, Response
<1>8. CASE ok # <<>> /\ ~(\A i \in DOMAIN ok : ok[i].rcode = "NXDOMAIN") /\ ips # <<>>
  BY <1>2, <1>5, <1>8 DEF Truthful, Response
<1>9. CASE ok # <<>> /\ ~(\A i \in DOMAIN ok : ok[i].rcode = "NXDOMAIN") /\ ips = <<>>
  BY <1>2, <1>9, FailedTrue, Zenon
<1> QED
  BY <1>6, <1>7, <1>8, <1>9, Zenon

----------------------------------------------------------------------------
(* What an honest world answers. *)

\* The consensus of the trusted resolvers is true of the site.
LEMMA TrustedTrue ==
    ASSUME NEW exists \in BOOLEAN, NEW t \in TrustedViews[exists]
    PROVE  Truthful(t, exists)
<1> DEFINE R == UNION {DoHAnswers(i, exists) : i \in 1..ResolverCount}
           Given == {f \in [1..ResolverCount -> R] :
                       \A i \in 1..ResolverCount : f[i] \in DoHAnswers(i, exists)}
<1>1. TrustedViews[exists] = {TrustedConsensus(answers) : answers \in Given}
  BY Zenon DEF TrustedViews
<1>2. PICK answers \in Given : t = TrustedConsensus(answers)
  BY <1>1, Zenon
<1>3. \A r \in R : Truthful(r, exists)
  BY QueryTrue, Zenon
<1>4. answers \in Seq(R)
  <2>1. answers \in [1..ResolverCount -> R] /\ ResolverCount \in Nat
    BY DestConstants, Zenon
  <2> HIDE DEF R
  <2> QED
    BY <2>1
<1> HIDE DEF R
<1> QED
  BY <1>2, <1>3, <1>4, ConsensusTrue, Zenon

\* In an honest world both answers of a resolution are true of the site.
LEMMA ViewTrue ==
    ASSUME world \in Worlds, world.honest, NEW view \in Views
    PROVE  Truthful(view[1], world.exists) /\ Truthful(view[2], world.exists)
<1> DEFINE e == world.exists
<1>0. e \in BOOLEAN
  BY DestConstants, Zenon
<1>1. ASSUME NEW r \in ResolverDown
      PROVE  Truthful(r, e)
  BY FailedTrue, Zenon DEF ResolverDown, Failed
<1>2. ASSUME NEW r \in SystemViews
      PROVE  Truthful(r, e)
  <2>1. CASE r \in ResolverDown
    BY <1>1, <2>1, Zenon
  <2>2. CASE e /\ r \in {Response("NOERROR", ips) : ips \in SystemHonest}
    BY <2>2, DestConstants DEF Truthful, Known, Response
  <2>3. CASE ~e /\ r = Response("NXDOMAIN", <<>>)
    BY <2>3 DEF Truthful, Known, Response
  <2> QED
    BY <1>2, <2>1, <2>2, <2>3 DEF SystemViews
<1>3. CASE outage = "now"
  <2>1. view[1] \in ResolverDown /\ view[2] = Failed
    BY <1>3, Zenon DEF Views
  <2> QED
    BY <1>1, <2>1, Zenon DEF ResolverDown
<1>4. CASE outage # "now"
  <2>1. view \in SystemViews \X TrustedViews[e]
    BY <1>4, Zenon DEF Views
  <2> HIDE DEF e
  <2>2. view[1] \in SystemViews /\ view[2] \in TrustedViews[e]
    BY <2>1, Zenon
  <2>3. Truthful(view[1], e)
    BY <1>2, <2>2, Zenon
  <2>4. Truthful(view[2], e)
    BY <1>0, <2>2, TrustedTrue, Zenon
  <2> QED
    BY <2>3, <2>4, Zenon DEF e
<1> QED
  BY <1>3, <1>4, Zenon

\* Two true answers look like no tampering.
LEMMA NotTampered ==
    ASSUME NEW exists, NEW sys, NEW trusted, Truthful(sys, exists), Truthful(trusted, exists)
    PROVE  ~Tampered(sys, trusted)
<1>1. ASSUME ~exists, NEW r, Truthful(r, exists)
      PROVE  r.ips = <<>>
  <2>1. r.ips \in Seq({})
    BY <1>1, Zenon DEF Truthful, Known
  <2> QED
    BY <2>1
<1>2. ToSet(sys.ips) \subseteq Genuine
  BY DEF Truthful, Known, ToSet
<1>3. ToSet(sys.ips) \cap Bogons = {}
  BY <1>2, DestConstants, Zenon
<1>4. exists => sys.rcode # "NXDOMAIN" /\ trusted.rcode # "NXDOMAIN"
  BY Zenon DEF Truthful
<1>5. ~exists => sys.ips = <<>> /\ trusted.ips = <<>>
  BY <1>1, Zenon
<1>6. ~exists => PublicIn(trusted.ips) = {}
  BY <1>5 DEF PublicIn, ToSet
<1> QED
  BY <1>3, <1>4, <1>5, <1>6, Zenon DEF Tampered

\* A check in an honest world either serves the site or does not finish.
LEMMA ServesHonest ==
    ASSUME world.honest, NEW ip \in Genuine, NEW r \in Serves(ip)
    PROVE  \/ ~r.handshake /\ unfinished(r)
           \/ r.handshake /\ (r.verifies <=> Target.skipTLS \/ Target.proto \/ world.roots)
<1>1. ASSUME NEW out \in (Connects(ip) \cup Handshakes(ip)) \ {"ok"}
      PROVE  out \in {"connect_timeout", "payload_timeout", "server_error"}
  BY Zenon DEF Connects, Handshakes
<1>2. CASE \E out \in (Connects(ip) \cup Handshakes(ip)) \ {"ok"} : r = ServeResult(FALSE, FALSE, out)
  BY <1>1, <1>2 DEF ServeResult, unfinished
<1>3. CASE r = ServeResult(TRUE, Target.skipTLS \/ Target.proto \/ Verifies(ip), "")
  BY <1>3, Zenon DEF ServeResult, Verifies
<1> QED
  BY <1>2, <1>3, Zenon DEF Serves

\* Nor is a disagreement of two true answers judged poisoned.
LEMMA NotJudged ==
    ASSUME world.honest, NEW exists, NEW sys, NEW trusted, Truthful(sys, exists), Truthful(trusted, exists)
    PROVE  "dns_answer_mismatch" \notin Verified(sys, trusted)
<1> DEFINE sysIPs     == Usable(Prioritize(sys.ips), world.usable)
           trustedIPs == Usable(Prioritize(trusted.ips), world.usable)
           alike      == Kept(sysIPs, IF Head(trustedIPs) \in V4 THEN V4 ELSE V6)
           sysIP      == Head(IF alike = <<>> THEN sysIPs ELSE alike)
           trIP       == Head(trustedIPs)
<1>1. ASSUME NEW r, Truthful(r, exists)
      PROVE  Usable(Prioritize(r.ips), world.usable) \in Seq(Genuine)
  <2>1. r.ips \in Seq(Genuine)
    BY <1>1 DEF Truthful, Known
  <2> QED
    BY <2>1, UsableOf, Zenon
<1>2. sysIPs \in Seq(Genuine) /\ trustedIPs \in Seq(Genuine)
  BY <1>1, Zenon
<1>3. alike \in Seq(Genuine)
  <2> HIDE DEF sysIPs, trustedIPs
  <2>1. alike \in Seq(Genuine \cap IF Head(trustedIPs) \in V4 THEN V4 ELSE V6)
    BY <1>2, KeptOf, Zenon
  <2> QED
    BY <2>1, Widen, Zenon
<1>4. Verified(sys, trusted) =
        IF sysIPs = <<>> \/ trustedIPs = <<>> THEN {"inconclusive"}
        ELSE {CASE v = "poisoned"   -> "dns_answer_mismatch"
                [] v = "unverified" -> "inconclusive"
                [] OTHER            -> "ok" :
                v \in {judgeDisagreement(s, t) : s \in Serves(sysIP), t \in Serves(trIP)}}
  BY DEF Verified
<1> HIDE DEF sysIPs, trustedIPs, alike
<1>5. ASSUME sysIPs # <<>>, trustedIPs # <<>>
      PROVE  sysIP \in Genuine /\ trIP \in Genuine
  BY <1>2, <1>3, <1>5
<1> HIDE DEF sysIP, trIP
<1>6. ASSUME sysIPs # <<>>, trustedIPs # <<>>, NEW s \in Serves(sysIP), NEW t \in Serves(trIP)
      PROVE  judgeDisagreement(s, t) # "poisoned"
  <2>1. /\ \/ ~s.handshake /\ unfinished(s)
           \/ s.handshake /\ (s.verifies <=> Target.skipTLS \/ Target.proto \/ world.roots)
        /\ \/ ~t.handshake /\ unfinished(t)
           \/ t.handshake /\ (t.verifies <=> Target.skipTLS \/ Target.proto \/ world.roots)
    BY <1>5, <1>6, ServesHonest, Zenon
  <2> QED
    BY <2>1, Zenon DEF judgeDisagreement
<1> QED
  BY <1>4, <1>6

----------------------------------------------------------------------------
(* An honest resolver is never called poisoned. *)

\* The DNS layer blames no resolution of an honest world.
LEMMA HonestDNS ==
    ASSUME world \in Worlds, world.honest, NEW view \in Views
    PROVE  "dns_answer_mismatch" \notin DNSOutcomes(view[1], view[2])
<1> DEFINE sys == view[1]
           trusted == view[2]
           e == world.exists
<1>1. Truthful(sys, e) /\ Truthful(trusted, e)
  BY ViewTrue, Zenon
<1> HIDE DEF sys, trusted, e
<1>2. ~Tampered(sys, trusted)
  BY <1>1, NotTampered, Zenon
<1>3. "dns_answer_mismatch" \notin Verified(sys, trusted)
  BY <1>1, NotJudged
<1>4. "dns_answer_mismatch" \notin DNSOutcomes(sys, trusted)
  BY <1>2, <1>3, Zenon DEF DNSOutcomes
<1> QED BY <1>4 DEF sys, trusted

\* Nothing else of an honest world ends with that outcome.
LEMMA HonestPath ==
    ASSUME NEW ip
    PROVE  "dns_answer_mismatch" \notin Connects(ip) /\ "dns_answer_mismatch" \notin Handshakes(ip)
BY DestConstants DEF Connects, Handshakes

HonestInv == Shape /\ world \in Worlds /\ HonestNeverPoisoned

\* A step that assigns another outcome to one attempt.
LEMMA HonestAssigned ==
    ASSUME HonestInv, NEW a \in Attempts, world' = world,
           Shape', Attempts' = Attempts, \A b \in Attempts : b # a => att'[b] = att[b],
           world.honest => att'[a].out # "dns_answer_mismatch"
    PROVE  HonestInv'
BY Zenon DEF HonestInv, HonestNeverPoisoned

\* An attempt starts or stores.
LEMMA HonestTakes ==
    ASSUME HonestInv, NEW a \in Attempts, Start(a) \/ Store(a)
    PROVE  HonestInv'
<1>1. Shape /\ world' = world /\ (world.honest => att[a].out # "dns_answer_mismatch")
  BY Zenon DEF HonestInv, HonestNeverPoisoned, Start, Store
<1>2. ASSUME NEW r, Take(a, r) PROVE HonestInv'
  <2>1. /\ Shape' /\ Attempts' = Attempts
        /\ \A b \in Attempts : b # a => att'[b] = att[b]
        /\ r.ips = <<>> => att'[a].out = "skipped"
        /\ r.ips # <<>> => att'[a].out = att[a].out
    BY <1>1, <1>2, Taken, Zenon
  <2>2. world.honest => att'[a].out # "dns_answer_mismatch"
    BY <1>1, <2>1, Zenon
  <2> QED BY <1>1, <2>1, <2>2, HonestAssigned, Zenon
<1>3. ASSUME NEW pc, NEW res,
             att' = [att EXCEPT ![a].pc = pc] \/ att' = [att EXCEPT ![a].pc = pc, ![a].res = res]
      PROVE  HonestInv'
  <2>1. ASSUME NEW out
        PROVE  /\ Shape' /\ Attempts' = Attempts
               /\ \A b \in Attempts : b # a => att'[b] = att[b]
               /\ att'[a].out \in {att[a].out, out}
    <3>1. CASE att' = [att EXCEPT ![a].pc = pc]
      BY <1>1, <3>1, Assigned, Zenon
    <3>2. CASE att' = [att EXCEPT ![a].pc = pc, ![a].res = res]
      BY <1>1, <3>2, Assigned, Zenon
    <3> QED BY <1>3, <3>1, <3>2
  <2>2. world.honest => att'[a].out # "dns_answer_mismatch"
    BY <1>1, <2>1, Zenon
  <2> QED BY <1>1, <2>1, <2>2, HonestAssigned, Zenon
<1>4. CASE Start(a)
  BY <1>2, <1>3, <1>4, Zenon DEF Start
<1>5. CASE Store(a)
  BY <1>2, <1>3, <1>5, Zenon DEF Store
<1> QED BY <1>4, <1>5

\* An attempt that is given an outcome which an honest world does not refuse.
LEMMA HonestOutcome ==
    ASSUME HonestInv, NEW a \in Attempts, world' = world, NEW pc, NEW out, NEW res,
           att' = [att EXCEPT ![a].pc = pc, ![a].out = out, ![a].res = res],
           world.honest => out # "dns_answer_mismatch"
    PROVE  HonestInv'
<1>1. Shape /\ (world.honest => att[a].out # "dns_answer_mismatch")
  BY Zenon DEF HonestInv, HonestNeverPoisoned
<1>2. /\ Shape' /\ Attempts' = Attempts
      /\ \A b \in Attempts : b # a => att'[b] = att[b]
      /\ att'[a].out \in {att[a].out, out}
  BY <1>1, Assigned, Zenon
<1>3. world.honest => att'[a].out # "dns_answer_mismatch"
  BY <1>1, <1>2, Zenon
<1> QED BY <1>2, <1>3, HonestAssigned, Zenon

\* An attempt resolves.
LEMMA HonestResolve ==
    ASSUME HonestInv, NEW a \in Attempts, Resolve(a)
    PROVE  HonestInv'
<1>1. world' = world /\ world \in Worlds
  BY Zenon DEF Resolve, HonestInv
<1>2. PICK view \in Views : \E out \in IF LayerOf(a) = "dns" THEN DNSOutcomes(view[1], view[2]) ELSE {""} :
        att' = [att EXCEPT ![a].pc = "storing", ![a].out = out, ![a].res = Resolution(view[1], view[2])]
  BY Zenon DEF Resolve
<1>3. PICK out \in IF LayerOf(a) = "dns" THEN DNSOutcomes(view[1], view[2]) ELSE {""} :
        att' = [att EXCEPT ![a].pc = "storing", ![a].out = out, ![a].res = Resolution(view[1], view[2])]
  BY <1>2, Zenon
<1>4. world.honest => out # "dns_answer_mismatch"
  BY <1>1, <1>3, HonestDNS, Zenon
<1> QED BY <1>1, <1>3, <1>4, HonestOutcome

\* An attempt of a transport layer or of a control ends.
LEMMA HonestProbing ==
    ASSUME HonestInv, NEW a \in Attempts,
           destTCP(a) \/ destTLS(a) \/ destProto(a) \/ destHTTPCheck(a) \/ destNXDomain(a) \/ destTCPControl(a)
    PROVE  HonestInv'
<1>0. SUFFICES \E out : End(a, out) /\ (world.honest => out # "dns_answer_mismatch")
  <2>1. PICK out : End(a, out) /\ (world.honest => out # "dns_answer_mismatch")
    BY <1>0, Zenon
  <2>2. /\ world' = world
        /\ att' = [att EXCEPT ![a].pc = "done", ![a].out = out, ![a].res = NoResolution]
    BY <2>1, Zenon DEF End
  <2> QED BY <2>1, <2>2, HonestOutcome
<1>1. CASE destTCP(a)
  <2>1. \E out : out # "dns_answer_mismatch" /\ End(a, out)
    BY <1>1, HonestPath, Zenon DEF destTCP
  <2> QED BY <2>1, Zenon
<1>2. CASE destTLS(a)
  BY <1>2, HonestPath, Zenon DEF destTLS
<1>3. CASE destProto(a)
  BY <1>3, HonestPath, Zenon DEF destProto
<1>4. CASE destHTTPCheck(a)
  BY <1>4, HonestPath DEF destHTTPCheck
<1>5. CASE destNXDomain(a)
  <2>1. PICK sys \in ResolverDown \cup {Response("NXDOMAIN", <<>>)}
                    \cup (IF world.honest THEN {} ELSE {Response("NOERROR", ips) : ips \in SystemLies}) :
          End(a, IF sys.ips # <<>> THEN "dns_answer_mismatch"
                 ELSE IF sys.rcode = "TIMEOUT" THEN "dns_timeout"
                 ELSE IF sys.rcode = "ERROR" THEN "inconclusive" ELSE "ok")
    BY <1>5, Zenon DEF destNXDomain
  <2>2. world.honest => sys.ips = <<>>
    BY DEF ResolverDown, Failed, Response
  <2> DEFINE out == IF sys.ips # <<>> THEN "dns_answer_mismatch"
                    ELSE IF sys.rcode = "TIMEOUT" THEN "dns_timeout"
                    ELSE IF sys.rcode = "ERROR" THEN "inconclusive" ELSE "ok"
  <2>3. world.honest => out # "dns_answer_mismatch"
    BY <2>2, Zenon
  <2>4. End(a, out)
    BY <2>1, Zenon
  <2> HIDE DEF out
  <2> QED BY <2>3, <2>4, Zenon
<1>6. CASE destTCPControl(a)
  BY <1>6, HonestPath, Zenon DEF destTCPControl
<1> QED BY <1>1, <1>2, <1>3, <1>4, <1>5, <1>6

\* Every step.
LEMMA HonestNext == HonestInv /\ [Next]_destVars => HonestInv'
<1> SUFFICES ASSUME HonestInv, [Next]_destVars PROVE HonestInv'
  BY Zenon
<1>1. ASSUME UNCHANGED <<world, att>> PROVE HonestInv'
  BY <1>1, Zenon DEF HonestInv, Shape, AttemptRecord, HonestNeverPoisoned, Attempts
<1>2. CASE Tick \/ Outage \/ Finished \/ UNCHANGED destVars
  BY <1>1, <1>2, Zenon DEF Tick, Outage, Finished, destVars
<1>3. ASSUME NEW a \in Attempts, Start(a) \/ Resolve(a) \/ Store(a) PROVE HonestInv'
  BY <1>3, HonestTakes, HonestResolve, Zenon
<1>4. ASSUME NEW a \in Attempts,
             destTCP(a) \/ destTLS(a) \/ destProto(a) \/ destHTTPCheck(a) \/ destNXDomain(a) \/ destTCPControl(a)
      PROVE  HonestInv'
  BY <1>4, HonestProbing, Zenon
<1> QED BY <1>2, <1>3, <1>4 DEF Next

(* No attempt of a scan in an honest world ends as a poisoned or hijacked     *)
(* answer, for any number of resolvers, endpoints, records and addresses:     *)
(* both answers of a resolution are true of the site, so neither a comparison *)
(* nor a connection check that lost its answer can tell against the resolver. *)
THEOREM HonestNeverPoisonedHolds == Spec => []HonestNeverPoisoned
<1>1. Init => HonestInv
  <2> SUFFICES ASSUME Init PROVE HonestInv
    BY Zenon
  <2>1. Shape /\ world \in Worlds
    BY InitInv, Zenon DEF Init, DestInv
  <2>2. \A a \in Attempts : att[a].out = ""
    BY Zenon DEF Init, Attempts
  <2> QED BY <2>1, <2>2 DEF HonestInv, HonestNeverPoisoned
<1>2. HonestInv => HonestNeverPoisoned
  BY Zenon DEF HonestInv
<1> QED BY <1>1, <1>2, HonestNext, PTL DEF Spec
=============================================================================
