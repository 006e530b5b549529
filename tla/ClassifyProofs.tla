--------------------------- MODULE ClassifyProofs ---------------------------
(***************************************************************************)
(* Theorems about Classify, for any scenarios and attempts: what a site    *)
(* that is called clear rests on, and that a report that is classified     *)
(* again stays as it is.                                                   *)
(***************************************************************************)
EXTENDS Classify, FiniteSetTheorems, TLAPS, NaturalsInduction, WellFoundedInduction

----------------------------------------------------------------------------
(* The commonest result of a cell. *)

\* A set of numbers that is not empty has a least element.
LEMMA LeastNumber ==
    ASSUME NEW S \in SUBSET Nat, S # {}
    PROVE  \E m \in S : \A n \in S : m <= n
<1>1. PICK m \in S : \A n \in S : ~ (<<n, m>> \in OpToRel(<, Nat))
  BY NatLessThanWellFounded, WFMin, Zenon
<1>2. ASSUME NEW n \in S
      PROVE  m <= n
  <2>1. m \in Nat /\ n \in Nat
    OBVIOUS
  <2>2. n < m => <<n, m>> \in OpToRel(<, Nat)
    BY <2>1 DEF OpToRel
  <2>3. ~(n < m)
    BY <1>1, <2>2, Zenon
  <2> QED
    BY <2>1, <2>3
<1> QED
  BY <1>2

\* A histogram with an entry has a commonest one, the first of equals.
LEMMA CommonestExists ==
    ASSUME NEW n \in Nat, NEW bound \in Nat, NEW hist \in [1..n -> 0..bound], NEW k \in 1..n, hist[k] > 0
    PROVE  \E i \in 1..n : /\ hist[i] > 0
                           /\ \A j \in 1..n : hist[j] < hist[i] \/ (hist[j] = hist[i] /\ i <= j)
<1> DEFINE Above == {m \in Nat : \A j \in 1..n : hist[j] <= m}
<1>1. bound \in Above
  OBVIOUS
<1>2. PICK top \in Above : \A m \in Above : top <= m
  BY <1>1, LeastNumber
<1>3. \A j \in 1..n : hist[j] \in Nat /\ hist[j] <= top
  BY <1>2
<1> DEFINE At == {i \in 1..n : hist[i] = top}
<1>4. At # {}
  <2> SUFFICES ASSUME At = {} PROVE FALSE
    OBVIOUS
  <2>0. \A j \in 1..n : hist[j] # top
    BY Zenon
  <2>1. \A j \in 1..n : hist[j] < top
    <3>1. top \in Nat
      BY <1>2
    <3> HIDE DEF At, Above
    <3> QED
      BY <1>3, <2>0, <3>1
  <2>2. top \in Nat /\ top > 0
    BY <1>2, <1>3
  <2>3. top - 1 \in Nat /\ \A j \in 1..n : hist[j] <= top - 1
    BY <1>3, <2>1, <2>2
  <2>4. top - 1 \in Above
    BY <2>3
  <2> QED
    BY <1>2, <2>2, <2>4
<1>5. PICK i \in At : \A j \in At : i <= j
  <2>1. At \in SUBSET Nat
    OBVIOUS
  <2> HIDE DEF At
  <2> QED
    BY <1>4, <2>1, LeastNumber
<1>6. hist[i] > 0
  BY <1>3, <1>5
<1>7. ASSUME NEW j \in 1..n
      PROVE  hist[j] < hist[i] \/ (hist[j] = hist[i] /\ i <= j)
  BY <1>2, <1>3, <1>5
<1> QED
  BY <1>5, <1>6, <1>7

\* dominant is the merged result of an attempt it counts.
LEMMA DominantOf ==
    ASSUME NEW c, NEW counted, counted = IF c.Measured = 0 THEN c.attempts ELSE c.measured,
           IsFiniteSet(counted), counted # {}, \A a \in counted : a.merged \in ToSet(Alphabetical)
    PROVE  \E a \in counted : dominant(c) = a.merged
<1> DEFINE n == Len(Alphabetical)
           With(i) == {a \in counted : a.merged = Alphabetical[i]}
           hist == [i \in DOMAIN Alphabetical |-> Cardinality(With(i))]
<1>1. n \in Nat /\ DOMAIN Alphabetical = 1..n
  BY DEF Alphabetical
<1>2. ToSet(Alphabetical) = {Alphabetical[i] : i \in 1..n}
  BY <1>1, Zenon DEF ToSet
<1>3. dominant(c) = Commonest(hist)
  BY Zenon DEF dominant
<1> HIDE DEF n
<1>4. ASSUME NEW i \in 1..n
      PROVE  Cardinality(With(i)) \in 0..Cardinality(counted) /\ (Cardinality(With(i)) > 0 <=> With(i) # {})
  <2>1. With(i) \in SUBSET counted
    OBVIOUS
  <2> HIDE DEF With
  <2>2. IsFiniteSet(With(i)) /\ Cardinality(With(i)) <= Cardinality(counted)
    BY <2>1, FS_Subset
  <2>3. Cardinality(With(i)) \in Nat /\ Cardinality(counted) \in Nat
    BY <2>2, FS_CardinalityType
  <2>4. Cardinality(With(i)) = 0 <=> With(i) = {}
    BY <2>2, FS_EmptySet
  <2> QED
    BY <2>2, <2>3, <2>4
<1>5. Cardinality(counted) \in Nat
  BY FS_CardinalityType
<1> HIDE DEF With
<1>6. hist \in [1..n -> 0..Cardinality(counted)] /\ DOMAIN hist = 1..n
      /\ \A i \in 1..n : hist[i] = Cardinality(With(i))
  BY <1>1, <1>4
<1>7. PICK k \in 1..n : hist[k] > 0
  <2>1. PICK a \in counted : TRUE
    OBVIOUS
  <2>2. PICK k \in 1..n : a.merged = Alphabetical[k]
    BY <1>2, <2>1
  <2>3. With(k) # {}
    BY <2>1, <2>2 DEF With
  <2> QED
    BY <1>4, <1>6, <2>3
<1> HIDE DEF hist
<1>8. \E i \in 1..n : /\ hist[i] > 0
                      /\ \A j \in 1..n : hist[j] < hist[i] \/ (hist[j] = hist[i] /\ i <= j)
  BY <1>1, <1>5, <1>6, <1>7, CommonestExists
<1>9. PICK i \in 1..n : hist[i] > 0 /\ Commonest(hist) = Alphabetical[i]
  BY <1>6, <1>8 DEF Commonest
<1>10. PICK a \in counted : a.merged = Alphabetical[i]
  BY <1>4, <1>6, <1>9 DEF With
<1> QED
  BY <1>3, <1>9, <1>10

----------------------------------------------------------------------------
(* What a layer reads. *)

\* An attempt on a site: its merged result is its outcome.
Unmerged(a) == a.merged = a.outcome /\ a.outcome \in ToSet(Alphabetical)

\* A layer reads "ok" only when it measured something and nothing else, and reads as one that
\* measured nothing only if that is so.
LEMMA LayerReads ==
    ASSUME NEW p, NEW mine, IsFiniteSet(mine), mine # {}, \A a \in mine : Unmerged(a),
           NEW v, v = layerValue(Cell(p, mine, measured(mine)))
    PROVE  /\ v = "ok" => measured(mine) # {} /\ \A a \in measured(mine) : a.outcome = "ok"
           /\ v \in unmeasuredMerged => measured(mine) = {}
<1> DEFINE told == measured(mine)
           oks == {a \in told : a.outcome = "ok"}
           c == Cell(p, mine, told)
<1>1. c.attempts = mine /\ c.measured = told /\ c.Measured = Cardinality(told) /\ c.OK = Cardinality(oks)
  BY DEF Cell
<1>2. told \in SUBSET mine /\ oks \in SUBSET told
  BY DEF measured
<1>3. \A a \in told : ~unmeasured(a)
  BY DEF measured
<1>4. told = {} => \A a \in mine : unmeasured(a)
  BY DEF measured
<1>5. v = layerValue(c)
  OBVIOUS
<1> DEFINE counted == IF c.Measured = 0 THEN c.attempts ELSE c.measured
<1> HIDE DEF c, told, oks
<1>6. IsFiniteSet(told) /\ IsFiniteSet(oks)
  BY <1>2, FS_Subset
<1>7. /\ Cardinality(told) \in Nat /\ Cardinality(oks) \in Nat
      /\ Cardinality(told) = 0 <=> told = {}
      /\ Cardinality(oks) = 0 <=> oks = {}
      /\ Cardinality(oks) = Cardinality(told) => oks = told
  BY <1>2, <1>6, FS_CardinalityType, FS_EmptySet, FS_Subset
<1>8. counted = IF told = {} THEN mine ELSE told
  BY <1>1, <1>7
<1>9. counted # {} /\ IsFiniteSet(counted) /\ counted \subseteq mine
  BY <1>2, <1>6, <1>8
<1>10. PICK a \in counted : dominant(c) = a.merged
  <2>1. \A a \in counted : a.merged \in ToSet(Alphabetical)
    BY <1>9 DEF Unmerged
  <2> QED
    BY <1>9, <2>1, DominantOf
<1> HIDE DEF counted
<1>11. Unmerged(a)
  BY <1>9, <1>10
<1>12. CASE told = {}
  <2>1. v = a.merged
    BY <1>1, <1>5, <1>7, <1>10, <1>12 DEF layerValue
  <2>2. unmeasured(a) /\ a.merged = a.outcome
    BY <1>4, <1>8, <1>11, <1>12 DEF Unmerged
  <2>3. a.outcome # "ok"
    BY <2>2 DEF unmeasured, LocalFailure, unmeasuredMerged
  <2> QED
    BY <1>12, <2>1, <2>2, <2>3 DEF told
<1>13. CASE told # {} /\ oks = told
  <2>1. v = "ok"
    BY <1>1, <1>5, <1>7, <1>13 DEF layerValue
  <2>2. \A b \in told : b.outcome = "ok"
    BY <1>13 DEF oks
  <2> QED
    BY <1>13, <2>1, <2>2 DEF told, unmeasuredMerged
<1>14. CASE told # {} /\ oks # told /\ oks = {}
  <2>1. v = a.merged
    BY <1>1, <1>5, <1>7, <1>10, <1>14 DEF layerValue
  <2>2. a \in told /\ a.merged = a.outcome
    BY <1>8, <1>11, <1>14 DEF Unmerged
  <2>3. a.outcome # "ok" /\ a.outcome \notin unmeasuredMerged
    BY <1>3, <1>14, <2>2 DEF oks, unmeasured
  <2> QED
    BY <2>1, <2>2, <2>3
<1>15. CASE told # {} /\ oks # told /\ oks # {}
  <2>1. v = "mixed"
    BY <1>1, <1>5, <1>7, <1>15 DEF layerValue
  <2> QED
    BY <2>1 DEF unmeasuredMerged
<1> QED
  BY <1>12, <1>13, <1>14, <1>15

----------------------------------------------------------------------------
(* The layers of a site. *)

SiteTests == {"dest.dns", "dest.tcp", "dest.tls", "dest.http", "dest.proto"}

\* What ScenarioConstants says of a plan.
SitePlan(plan) ==
    \A i \in DOMAIN plan :
        /\ plan[i].domain # "" <=> OfSite(plan[i])
        /\ OfSite(plan[i]) =>
              /\ plan[i].variant \in IF plan[i].test = "dest.tls" THEN {"site", "decoy", "absent"} ELSE {"site"}
              /\ \A j \in DOMAIN plan :
                    plan[j].test = plan[i].test /\ plan[j].variant = plan[i].variant
                    /\ plan[j].domain = plan[i].domain => i = j

\* And what the attempts of such a plan are.
SiteAttempts(plan, atts) ==
    /\ IsFiniteSet(atts)
    /\ \A a \in atts : a.cell \in DOMAIN plan /\ (OfSite(plan[a.cell]) => Unmerged(a))

\* The attempts of a test on a site, and those of them that measured the path.
RanOn(plan, atts, d, test) ==
    {a \in atts : plan[a.cell].domain = d /\ plan[a.cell].test = test /\ plan[a.cell].variant = "site"}

ToldOn(plan, atts, transient, d, test) ==
    {a \in RanOn(plan, atts, d, test) \ transient : ~ a.cancelled /\ ~ unmeasured(a)}

\* The name of a layer tells the test, and the handshake with the real name from the controls.
LEMMA LayerTells ==
    ASSUME NEW p, OfSite(p), NEW t \in SiteTests,
           p.variant \in IF p.test = "dest.tls" THEN {"site", "decoy", "absent"} ELSE {"site"}
    PROVE  layerOf(p.test, p.variant) = layerOf(t, "site") <=> p.test = t /\ p.variant = "site"
<1>1. p.test \in SiteTests
  BY DEF OfSite, IsDestTest, SiteTests
<1> QED
  BY <1>1 DEF layerOf, SiteTests

\* What the layer of a test on a site reads: the cell of its attempts, "skipped" when an outage
\* took them all, nothing otherwise.
LayerReadsTest(plan, atts, transient, d, t) ==
    LET layers == Layers(plan, atts, transient, d)
        l    == layerOf(t, "site")
        ran  == RanOn(plan, atts, d, t)
        told == ToldOn(plan, atts, transient, d, t)
        kept == {a \in ran \ transient : ~ a.cancelled}
    IN /\ l \in DOMAIN layers <=> kept # {} \/ ran \cap transient # {}
       /\ kept = {} /\ l \in DOMAIN layers => layers[l] = "skipped"
       /\ kept # {} /\ layers[l] = "ok" => told # {} /\ \A a \in told : a.outcome = "ok"
       /\ kept # {} /\ layers[l] \in unmeasuredMerged => told = {}

LEMMA LayerOfTest ==
    ASSUME NEW plan, NEW atts, NEW transient, NEW d, NEW t \in SiteTests, d # "",
           SitePlan(plan), SiteAttempts(plan, atts)
    PROVE  LayerReadsTest(plan, atts, transient, d, t)
<1> DEFINE layers == Layers(plan, atts, transient, d)
           l    == layerOf(t, "site")
           ran  == RanOn(plan, atts, d, t)
           told == ToldOn(plan, atts, transient, d, t)
           kept == {a \in ran \ transient : ~ a.cancelled}
<1> SUFFICES /\ l \in DOMAIN layers <=> kept # {} \/ ran \cap transient # {}
             /\ kept = {} /\ l \in DOMAIN layers => layers[l] = "skipped"
             /\ kept # {} /\ layers[l] = "ok" => told # {} /\ \A a \in told : a.outcome = "ok"
             /\ kept # {} /\ layers[l] \in unmeasuredMerged => told = {}
  BY Zenon DEF LayerReadsTest
<1>0. /\ layers = Layers(plan, atts, transient, d) /\ l = layerOf(t, "site")
      /\ ran = RanOn(plan, atts, d, t) /\ told = ToldOn(plan, atts, transient, d, t)
      /\ kept = {a \in ran \ transient : ~ a.cancelled}
  OBVIOUS
<1> HIDE DEF layers, l, ran, told, kept
<1> USE <1>0
<1> DEFINE Layer(i)  == layerOf(plan[i].test, plan[i].variant)
           Of(i)     == {a \in atts \ transient : a.cell = i /\ ~ a.cancelled}
           Result(i) == CellAt(plan, atts, transient, i)
           mine  == {i \in DOMAIN plan : OfSite(plan[i]) /\ plan[i].domain = d /\ found(Result(i))}
           shown == {Layer(i) : i \in mine}
           lost  == {Layer(a.cell) : a \in {b \in atts \cap transient : plan[b.cell].domain = d}}
<1>1. layers = [k \in shown \cup lost |->
                  IF k \in shown THEN layerValue(Result(CHOOSE i \in mine : Layer(i) = k)) ELSE "skipped"]
  BY Zenon DEF Layers
<1>2. ASSUME NEW i
      PROVE  Result(i) = Cell(plan[i], Of(i), measured(Of(i))) /\ (found(Result(i)) <=> Of(i) # {})
  BY DEF CellAt, found, Cell
<1>3. ASSUME NEW i \in DOMAIN plan, plan[i].domain = d
      PROVE  OfSite(plan[i]) /\ (Layer(i) = l <=> plan[i].test = t /\ plan[i].variant = "site")
  BY <1>3, LayerTells DEF SitePlan
<1>4. ASSUME NEW i \in DOMAIN plan, NEW j \in DOMAIN plan, plan[i].domain = d, plan[j].domain = d,
             Layer(i) = l, Layer(j) = l
      PROVE  i = j
  <2>1. plan[i].test = t /\ plan[i].variant = "site" /\ plan[j].test = t /\ plan[j].variant = "site"
    BY <1>3, <1>4
  <2>2. OfSite(plan[i])
    BY <1>3, <1>4
  <2> QED
    BY <1>4, <2>1, <2>2 DEF SitePlan
<1>5. ASSUME NEW a \in atts
      PROVE  a \in ran <=> plan[a.cell].domain = d /\ Layer(a.cell) = l
  BY <1>3 DEF SiteAttempts, RanOn
<1>6. l \in shown <=> kept # {}
  <2>1. ASSUME NEW a \in kept PROVE l \in shown
    <3>1. a \in atts /\ a \notin transient /\ ~a.cancelled /\ plan[a.cell].domain = d /\ Layer(a.cell) = l
          /\ a.cell \in DOMAIN plan
      BY <1>5, <2>1 DEF SiteAttempts, RanOn
    <3>2. a.cell \in mine
      BY <1>2, <1>3, <3>1
    <3> QED
      BY <3>1, <3>2
  <2>2. ASSUME NEW i \in mine, Layer(i) = l PROVE kept # {}
    <3>1. PICK a \in Of(i) : TRUE
      BY <1>2, <2>2
    <3>2. a \in ran
      BY <1>5, <2>2, <3>1
    <3> QED
      BY <3>1, <3>2
  <2> QED
    BY <2>1, <2>2
<1>7. l \in lost <=> ran \cap transient # {}
  <2>1. ran \subseteq atts
    BY DEF RanOn
  <2> QED
    BY <1>5, <2>1
<1>8. l \in DOMAIN layers <=> kept # {} \/ ran \cap transient # {}
  BY <1>1, <1>6, <1>7
<1>9. kept = {} /\ l \in DOMAIN layers => layers[l] = "skipped"
  BY <1>1, <1>6
<1>10. ASSUME kept # {}
       PROVE  /\ layers[l] = "ok" => told # {} /\ \A a \in told : a.outcome = "ok"
              /\ layers[l] \in unmeasuredMerged => told = {}
  <2> DEFINE i == CHOOSE i \in mine : Layer(i) = l
  <2>1. l \in shown
    BY <1>6, <1>10
  <2>2. i \in mine /\ Layer(i) = l
    BY <2>1
  <2>3. layers[l] = layerValue(Result(i))
    BY <1>1, <2>1, Zenon
  <2> HIDE DEF i
  <2>4. i \in DOMAIN plan /\ OfSite(plan[i]) /\ plan[i].domain = d /\ Of(i) # {}
    BY <1>2, <2>2
  <2>5. layers[l] = layerValue(Cell(plan[i], Of(i), measured(Of(i))))
    BY <1>2, <2>3, Zenon
  <2>6. \A a \in Of(i) : Unmerged(a)
    BY <2>4 DEF SiteAttempts
  <2>7. IsFiniteSet(Of(i))
    <3>1. Of(i) \in SUBSET atts
      OBVIOUS
    <3> QED
      BY <3>1, FS_Subset DEF SiteAttempts
  <2>8. told = measured(Of(i))
    <3>1. ASSUME NEW a \in atts PROVE a \in ran <=> a.cell = i
      BY <1>4, <1>5, <2>2, <2>4, <3>1 DEF SiteAttempts
    <3>2. told = {a \in ran \ transient : ~ a.cancelled /\ ~ unmeasured(a)} /\ ran \subseteq atts
      BY DEF ToldOn, RanOn
    <3> QED
      BY <3>1, <3>2 DEF measured
  <2> HIDE DEF Of
  <2> QED
    BY <2>4, <2>5, <2>6, <2>7, <2>8, LayerReads
<1> QED
  BY <1>8, <1>9, <1>10

----------------------------------------------------------------------------
(* A site that is clear. *)

\* What siteVerdict asks of the layers of a clear site.
LEMMA SiteVerdictClear ==
    ASSUME NEW layers, NEW hasTLS \in BOOLEAN, siteVerdict(layers, hasTLS) = "clear"
    PROVE  /\ \A l \in DOMAIN layers \ {"decoy", "absent"} : layers[l] = "ok" \/ layers[l] \in unmeasuredMerged
           /\ hasTLS => \E l \in {"tls", "http"} \cap DOMAIN layers : layers[l] = "ok"
           /\ ~hasTLS /\ "proto" \in DOMAIN layers => layers["proto"] = "ok"
           /\ ~hasTLS /\ "proto" \notin DOMAIN layers => "tcp" \in DOMAIN layers /\ layers["tcp"] = "ok"
<1> DEFINE Is(l, v) == l \in DOMAIN layers /\ layers[l] = v
           own        == {l \in DOMAIN layers : l \notin {"decoy", "absent"} /\ layers[l] # "ok"}
           unassessed == {l \in own : layers[l] \in unmeasuredMerged}
           reached    == IF hasTLS THEN Is("tls", "ok") \/ Is("http", "ok")
                         ELSE IF "proto" \in DOMAIN layers THEN Is("proto", "ok") ELSE Is("tcp", "ok")
<1>1. own \ unassessed = {} /\ reached
  <2>1. siteVerdict(layers, hasTLS) =
          IF Is("dns", "dns_rcode") THEN "nxdomain"
          ELSE IF own \ unassessed # {} THEN "degraded"
          ELSE IF unassessed \cap {"dns", "http"} # {} \/ ~ reached THEN "inconclusive"
          ELSE "clear"
    BY Zenon DEF siteVerdict
  <2> HIDE DEF Is, own, unassessed, reached
  <2> QED
    BY <2>1
<1>2. \A l \in DOMAIN layers \ {"decoy", "absent"} : layers[l] = "ok" \/ layers[l] \in unmeasuredMerged
  BY <1>1, Zenon
<1> QED
  BY <1>1, <1>2, Zenon

\* The tests a site is clear on: the handshake with its name, else its own protocol, else TCP.
ClearOn(plan, atts, transient, d) ==
    IF RanOn(plan, atts, d, "dest.tls") # {} THEN {"dest.tls", "dest.http"}
    ELSE IF {a \in RanOn(plan, atts, d, "dest.proto") : a.cancelled => a \in transient} # {} THEN {"dest.proto"}
    ELSE {"dest.tcp"}

\* One of them was completed outside an outage, and none of the site's layers failed.
SiteMeasured(plan, atts, transient, d) ==
    /\ \E t \in ClearOn(plan, atts, transient, d) : ToldOn(plan, atts, transient, d, t) # {}
    /\ \A t \in SiteTests : \A a \in ToldOn(plan, atts, transient, d, t) : a.outcome = "ok"

\* The layers of the site read clear.
ReadsClear(plan, atts, transient, d) ==
    d # "" /\ siteVerdict(Layers(plan, atts, transient, d), RanOn(plan, atts, d, "dest.tls") # {}) = "clear"

LEMMA ClearSite ==
    ASSUME NEW plan, NEW atts, NEW transient, NEW d, SitePlan(plan), SiteAttempts(plan, atts),
           ReadsClear(plan, atts, transient, d)
    PROVE  SiteMeasured(plan, atts, transient, d)
<1> DEFINE layers == Layers(plan, atts, transient, d)
           hasTLS == RanOn(plan, atts, d, "dest.tls") # {}
           Ran(t) == RanOn(plan, atts, d, t)
           Told(t) == ToldOn(plan, atts, transient, d, t)
           Kept(t) == {a \in Ran(t) \ transient : ~ a.cancelled}
           l(t) == layerOf(t, "site")
<1>1. ASSUME NEW t \in SiteTests
      PROVE  /\ l(t) \in DOMAIN layers <=> Kept(t) # {} \/ Ran(t) \cap transient # {}
             /\ Kept(t) = {} /\ l(t) \in DOMAIN layers => layers[l(t)] = "skipped"
             /\ Kept(t) # {} /\ layers[l(t)] = "ok" => Told(t) # {} /\ \A a \in Told(t) : a.outcome = "ok"
             /\ Kept(t) # {} /\ layers[l(t)] \in unmeasuredMerged => Told(t) = {}
  <2>1. LayerReadsTest(plan, atts, transient, d, t)
    BY LayerOfTest DEF ReadsClear
  <2> QED
    BY <2>1, Zenon DEF LayerReadsTest
<1>2. \A t \in SiteTests : Told(t) \subseteq Kept(t)
  BY DEF ToldOn
<1>3. {a \in Ran("dest.proto") : a.cancelled => a \in transient} # {}
      <=> Kept("dest.proto") # {} \/ Ran("dest.proto") \cap transient # {}
  OBVIOUS
<1>5. /\ l("dest.tls") = "tls" /\ l("dest.http") = "http" /\ l("dest.proto") = "proto" /\ l("dest.tcp") = "tcp"
      /\ l("dest.dns") = "dns"
  BY DEF layerOf
<1>9. hasTLS \in BOOLEAN /\ (hasTLS <=> Ran("dest.tls") # {}) /\ siteVerdict(layers, hasTLS) = "clear"
  BY DEF ReadsClear
<1> HIDE DEF layers, Ran, Told, Kept, l, hasTLS
<1>4. /\ \A k \in DOMAIN layers \ {"decoy", "absent"} : layers[k] = "ok" \/ layers[k] \in unmeasuredMerged
      /\ hasTLS => \E k \in {"tls", "http"} \cap DOMAIN layers : layers[k] = "ok"
      /\ ~hasTLS /\ "proto" \in DOMAIN layers => layers["proto"] = "ok"
      /\ ~hasTLS /\ "proto" \notin DOMAIN layers => "tcp" \in DOMAIN layers /\ layers["tcp"] = "ok"
  BY <1>9, SiteVerdictClear
<1>6. ASSUME NEW t \in SiteTests, l(t) \in DOMAIN layers, layers[l(t)] = "ok"
      PROVE  Told(t) # {}
  <2>1. Kept(t) # {}
    BY <1>1, <1>6
  <2> QED
    BY <1>1, <1>6, <2>1, Zenon
<1>7. ASSUME NEW t \in SiteTests, NEW a \in Told(t)
      PROVE  a.outcome = "ok"
  <2>1. Kept(t) # {}
    BY <1>2, <1>7
  <2>2. l(t) \in DOMAIN layers \ {"decoy", "absent"}
    BY <1>1, <1>5, <2>1 DEF SiteTests
  <2>3. layers[l(t)] = "ok" \/ layers[l(t)] \in unmeasuredMerged
    BY <1>4, <2>2
  <2> QED
    BY <1>1, <1>7, <2>1, <2>3, Zenon
<1>8. \E t \in ClearOn(plan, atts, transient, d) : Told(t) # {}
  <2>0. ClearOn(plan, atts, transient, d) =
          IF hasTLS THEN {"dest.tls", "dest.http"}
          ELSE IF "proto" \in DOMAIN layers THEN {"dest.proto"} ELSE {"dest.tcp"}
    <3>1. "proto" \in DOMAIN layers <=> Kept("dest.proto") # {} \/ Ran("dest.proto") \cap transient # {}
      BY <1>1, <1>5 DEF SiteTests
    <3> QED
      BY <1>3, <1>9, <3>1, Zenon DEF ClearOn, Ran
  <2>1. CASE hasTLS
    <3>1. PICK k \in {"tls", "http"} \cap DOMAIN layers : layers[k] = "ok"
      BY <1>4, <2>1
    <3>2. PICK t \in {"dest.tls", "dest.http"} : l(t) = k
      BY <1>5, <3>1
    <3>3. Told(t) # {}
      BY <1>6, <3>1, <3>2 DEF SiteTests
    <3> QED
      BY <2>0, <2>1, <3>3
  <2>2. CASE ~hasTLS /\ "proto" \in DOMAIN layers
    <3>1. Told("dest.proto") # {}
      BY <1>4, <1>5, <1>6, <2>2 DEF SiteTests
    <3> QED
      BY <2>0, <2>2, <3>1
  <2>3. CASE ~hasTLS /\ "proto" \notin DOMAIN layers
    <3>1. Told("dest.tcp") # {}
      BY <1>4, <1>5, <1>6, <2>3 DEF SiteTests
    <3> QED
      BY <2>0, <2>3, <3>1
  <2> QED
    BY <2>1, <2>2, <2>3
<1> QED
  BY <1>7, <1>8, Zenon DEF Told, SiteMeasured

\* A site that no verdict names is what its layers say; no kind of verdict reads "clear".
LEMMA ClearDestination ==
    ASSUME NEW plan, NEW atts, NEW transient, NEW verdicts,
           NEW d \in DOMAIN Destinations(plan, atts, transient, verdicts),
           Destinations(plan, atts, transient, verdicts)[d] = "clear"
    PROVE  ReadsClear(plan, atts, transient, d)
<1> DEFINE sites == {plan[a.cell].domain : a \in atts} \ {""}
           Kinds(e) == {i \in DOMAIN destOrder : \E v \in verdicts : v.kind = destOrder[i] /\ v.subject[5] = e}
           HasTLS(e) == \E a \in atts : /\ plan[a.cell].domain = e /\ plan[a.cell].test = "dest.tls"
                                        /\ plan[a.cell].variant = "site"
           Verdict1(e) == siteVerdict(Layers(plan, atts, transient, e), HasTLS(e))
<1>1. Destinations(plan, atts, transient, verdicts)
        = [e \in sites |-> IF Kinds(e) # {} THEN destOrder[Min(Kinds(e))] ELSE Verdict1(e)]
  BY Zenon DEF Destinations
<1>2. HasTLS(d) = (RanOn(plan, atts, d, "dest.tls") # {})
  BY DEF RanOn
<1>3. Kinds(d) \subseteq 1..9
  BY DEF destOrder
<1> HIDE DEF Kinds, Verdict1, HasTLS
<1>4. d \in sites /\ (IF Kinds(d) # {} THEN destOrder[Min(Kinds(d))] ELSE Verdict1(d)) = "clear"
  BY <1>1, Zenon
<1>5. ASSUME Kinds(d) # {} PROVE FALSE
  <2>1. Kinds(d) \in SUBSET Nat
    BY <1>3
  <2>2. \E x \in Kinds(d) : \A y \in Kinds(d) : x <= y
    BY <1>5, <2>1, LeastNumber
  <2>3. Min(Kinds(d)) \in Kinds(d)
    BY <2>2, Zenon DEF Min
  <2>4. destOrder[Min(Kinds(d))] # "clear"
    BY <1>3, <2>3 DEF destOrder
  <2> QED
    BY <1>4, <1>5, <2>4
<1>6. Verdict1(d) = "clear"
  BY <1>4, <1>5, Zenon
<1> QED
  BY <1>2, <1>4, <1>6, Zenon DEF Verdict1, ReadsClear

----------------------------------------------------------------------------
(* The inductive invariant. *)

\* The sites a report calls clear are so on the attempts as they are flagged.
SitesClear ==
    Reported =>
        \A d \in DOMAIN report.sites : report.sites[d] = "clear" =>
            ReadsClear(scan.plan, attempts, flagged, d)

ClassifyInv == scan \in Scenarios /\ SiteAttempts(scan.plan, attempts) /\ SitesClear

\* An attempt of a cell is what its result says, and comes before any report.
LEMMA FinishInv ==
    ASSUME ClassifyInv, NEW i \in DOMAIN scan.plan, Finish(i)
    PROVE  ClassifyInv'
<1>1. scan' = scan /\ report' = report /\ report = NoReport /\ scan \in Scenarios
  BY Zenon DEF Finish, ClassifyInv
<1>2. PICK r \in scan.results[i] : \E n : attempts' = attempts \cup {[r EXCEPT !.cell = i, !.n = n]}
  BY Zenon DEF Finish
<1> PICK n : attempts' = attempts \cup {[r EXCEPT !.cell = i, !.n = n]}
  BY <1>2
<1> DEFINE a == [r EXCEPT !.cell = i, !.n = n]
<1>3. r \in Results /\ (OfSite(scan.plan[i]) => Unmerged(r))
  BY <1>1, ScenarioConstants DEF Unmerged
<1>4. a.cell = i /\ a.outcome = r.outcome /\ a.merged = r.merged
  BY <1>3 DEF Results
<1> HIDE DEF a
<1>5. attempts' = attempts \cup {a}
  BY DEF a
<1>6. IsFiniteSet(attempts')
  BY <1>5, FS_AddElement DEF ClassifyInv, SiteAttempts
<1>7. SiteAttempts(scan.plan, attempts)'
  BY <1>1, <1>3, <1>4, <1>5, <1>6 DEF ClassifyInv, SiteAttempts, Unmerged
<1>8. SitesClear'
  BY <1>1 DEF SitesClear, Reported
<1> QED
  BY <1>1, <1>7, <1>8 DEF ClassifyInv

\* A report takes its sites from the layers as it flags the attempts.
LEMMA ClassifyStep ==
    ASSUME ClassifyInv, Classify
    PROVE  ClassifyInv'
<1>1. scan' = scan /\ attempts' = attempts /\ report' = Classification(scan, attempts, flagged)
      /\ flagged' = report'.transient
  BY Zenon DEF Classify
<1>2. PICK transient, notes, verdicts : report' = Report(scan, attempts, transient, notes, verdicts)
  BY <1>1, Zenon DEF Classification, Aggregated, Judged
<1>3. /\ report'.transient = transient
      /\ report'.sites = IF ~ scan.reachable /\ ~ scan.standalone THEN <<>>
                         ELSE Destinations(scan.plan, attempts, transient, verdicts)
  BY <1>2 DEF Report
<1>4. ASSUME NEW d \in DOMAIN report'.sites, report'.sites[d] = "clear"
      PROVE  ReadsClear(scan.plan, attempts, transient, d)
  <2>1. report'.sites = Destinations(scan.plan, attempts, transient, verdicts)
    BY <1>3, <1>4
  <2> QED
    BY <1>4, <2>1, ClearDestination
<1>5. SitesClear'
  BY <1>1, <1>3, <1>4 DEF SitesClear
<1> QED
  BY <1>1, <1>5 DEF ClassifyInv

(* A report calls a site clear only when an attempt outside an outage          *)
(* completed the deepest handshake the site runs, and no attempt of its layers *)
(* that measured the path failed (siteVerdict), whatever the rules found.      *)
THEOREM ClearMeasuredHolds == Spec => []ClearMeasured
<1>1. Init => ClassifyInv
  <2> SUFFICES ASSUME Init PROVE ClassifyInv
    OBVIOUS
  <2>1. SiteAttempts(scan.plan, attempts)
    BY FS_EmptySet DEF Init, SiteAttempts
  <2> QED
    BY <2>1 DEF Init, ClassifyInv, SitesClear, Reported
<1>2. ClassifyInv /\ [Next]_classifyVars => ClassifyInv'
  <2> SUFFICES ASSUME ClassifyInv, [Next]_classifyVars PROVE ClassifyInv'
    OBVIOUS
  <2>1. CASE UNCHANGED classifyVars
    BY <2>1 DEF classifyVars, ClassifyInv, SiteAttempts, SitesClear, Reported
  <2> QED
    BY <2>1, FinishInv, ClassifyStep DEF Next
<1>3. ClassifyInv => ClearMeasured
  <2> SUFFICES ASSUME ClassifyInv, Reported, NEW d \in DOMAIN report.sites, report.sites[d] = "clear"
               PROVE  SiteMeasured(scan.plan, attempts, flagged, d)
    BY Zenon DEF ClearMeasured, SiteMeasured, ClearOn, ToldOn, RanOn, SiteTests
  <2>1. SitePlan(scan.plan)
    BY ScenarioConstants DEF ClassifyInv, SitePlan
  <2>2. ReadsClear(scan.plan, attempts, flagged, d)
    BY DEF ClassifyInv, SitesClear
  <2> QED
    BY <2>1, <2>2, ClearSite DEF ClassifyInv
<1> QED
  BY <1>1, <1>2, <1>3, PTL DEF Spec

----------------------------------------------------------------------------
(* Classifying again. *)

\* A cell that passes still does when attempts that failed are left out of it.
LEMMA PassKept ==
    ASSUME NEW plan, NEW atts, IsFiniteSet(atts), NEW few, NEW many, NEW i,
           few \subseteq many, \A a \in many \ few : a.outcome # "ok",
           pass(CellAt(plan, atts, few, i))
    PROVE  pass(CellAt(plan, atts, many, i))
<1> DEFINE Mine(t) == {a \in atts \ t : a.cell = i /\ ~ a.cancelled}
           Told(t) == measured(Mine(t))
           Ok(t)   == {a \in Told(t) : a.outcome = "ok"}
<1>1. ASSUME NEW t
      PROVE  /\ CellAt(plan, atts, t, i).Measured = Cardinality(Told(t))
             /\ CellAt(plan, atts, t, i).OK = Cardinality(Ok(t))
  BY DEF CellAt, Cell
<1>2. Told(many) \subseteq Told(few) /\ Ok(many) = Ok(few) /\ Ok(many) \subseteq Told(many)
      /\ Told(few) \subseteq atts
  BY DEF measured
<1> HIDE DEF Mine, Told, Ok
<1>3. /\ Cardinality(Told(few)) \in Nat /\ Cardinality(Told(many)) \in Nat /\ Cardinality(Ok(many)) \in Nat
      /\ Cardinality(Told(many)) <= Cardinality(Told(few))
      /\ Cardinality(Ok(many)) <= Cardinality(Told(many))
  <2>1. IsFiniteSet(Told(few))
    BY <1>2, FS_Subset
  <2>2. IsFiniteSet(Told(many))
    BY <1>2, <2>1, FS_Subset
  <2>3. IsFiniteSet(Ok(many))
    BY <1>2, <2>2, FS_Subset
  <2> QED
    BY <1>2, <2>1, <2>2, <2>3, FS_Subset, FS_CardinalityType
<1>4. Cardinality(Told(few)) > 0 /\ Cardinality(Ok(few)) * 2 > Cardinality(Told(few))
  BY <1>1 DEF pass
<1>5. Cardinality(Told(many)) > 0 /\ Cardinality(Ok(many)) * 2 > Cardinality(Told(many))
  BY <1>2, <1>3, <1>4
<1> QED
  BY <1>1, <1>5 DEF pass

\* The keys of the cells that pass without these attempts.
Passing(plan, atts, t) == {Key(plan[i]) : i \in {j \in DOMAIN plan : pass(CellAt(plan, atts, t, j))}}

\* A window is one of candidates.
LEMMA WindowsOfCandidates ==
    ASSUME NEW plan, NEW candidates
    PROVE  UNION TransientWindows(plan, candidates) \subseteq candidates
BY DEF TransientWindows

\* Leaving some of the candidates out changes nothing about which cells pass, so the candidates
\* are the same.
LEMMA SameCandidates ==
    ASSUME NEW plan, NEW atts, IsFiniteSet(atts), NEW local,
           NEW out, out \subseteq TransientCandidates(plan, atts, {}, local)
    PROVE  TransientCandidates(plan, atts, local \cup out, local) = TransientCandidates(plan, atts, {}, local)
<1> DEFINE Cands(t) == {a \in atts \ local : /\ a.merged # "ok"
                                              /\ a.outcome \notin {"ok", "inconclusive", "server_error"}
                                              /\ Key(plan[a.cell]) \in Passing(plan, atts, t)}
           after == (local \cup out) \cup local
           before == {} \cup local
<1>1. /\ TransientCandidates(plan, atts, {}, local) = Cands(before)
      /\ TransientCandidates(plan, atts, local \cup out, local) = Cands(after)
  BY Zenon DEF TransientCandidates, Passing
<1>2. before = local /\ after = local \cup out
  OBVIOUS
<1>3. ASSUME NEW a \in out
      PROVE  a \in atts /\ a.outcome # "ok" /\ Key(plan[a.cell]) \in Passing(plan, atts, local)
  BY <1>1, <1>2
<1>4. Passing(plan, atts, local) = Passing(plan, atts, local \cup out)
  <2>1. ASSUME NEW i \in DOMAIN plan, pass(CellAt(plan, atts, local, i))
        PROVE  pass(CellAt(plan, atts, local \cup out, i))
    BY <1>3, <2>1, PassKept
  <2>2. ASSUME NEW i \in DOMAIN plan, pass(CellAt(plan, atts, local \cup out, i))
        PROVE  Key(plan[i]) \in Passing(plan, atts, local)
    <3>1. CASE \E a \in out : a.cell = i
      BY <1>3, <3>1
    <3>2. CASE \A a \in out : a.cell # i
      <4>1. {a \in atts \ (local \cup out) : a.cell = i /\ ~ a.cancelled}
              = {a \in atts \ local : a.cell = i /\ ~ a.cancelled}
        BY <3>2
      <4>2. CellAt(plan, atts, local \cup out, i) = CellAt(plan, atts, local, i)
        BY <4>1, Zenon DEF CellAt
      <4> QED
        BY <2>2, <4>2 DEF Passing
    <3> QED
      BY <3>1, <3>2
  <2> QED
    BY <2>1, <2>2 DEF Passing
<1> QED
  BY <1>1, <1>2, <1>4

\* A report has the flags its cells were built without.
LEMMA AggregatedFlags ==
    ASSUME NEW s, NEW atts, NEW flags, NEW notes
    PROVE  Aggregated(s, atts, flags, notes).transient = flags
<1>1. PICK vs : Aggregated(s, atts, flags, notes) = Report(s, atts, flags, notes, vs)
  BY Zenon DEF Aggregated, Judged
<1>2. \E v, d, m : Report(s, atts, flags, notes, vs)
                    = [transient |-> flags, notes |-> notes, verdicts |-> v, sites |-> d, summary |-> m]
  BY Zenon DEF Report
<1> QED
  BY <1>1, <1>2

\* What a classification flags, it flags again and nothing else; so it says the same.
LEMMA SameAgain ==
    ASSUME NEW s, NEW atts, IsFiniteSet(atts)
    PROVE  Classification(s, atts, Classification(s, atts, {}).transient) = Classification(s, atts, {})
<1> DEFINE local == flagLocalOutage(atts)
           W(before) == flagTransient(s.plan, atts, before, local)
           flags == {} \cup local \cup UNION W({})
<1>1. ASSUME NEW before
      PROVE  Classification(s, atts, before)
               = Aggregated(s, atts, before \cup local \cup UNION W(before), <<LocalWindows(atts), W(before)>>)
  BY Zenon DEF Classification
<1>2. Classification(s, atts, {}).transient = flags
  <2>1. PICK notes : Classification(s, atts, {}) = Aggregated(s, atts, flags, notes)
    BY <1>1, Zenon
  <2>2. Aggregated(s, atts, flags, notes).transient = flags
    BY AggregatedFlags
  <2> QED
    BY <2>1, <2>2
<1>3. UNION W({}) \subseteq TransientCandidates(s.plan, atts, {}, local)
  BY WindowsOfCandidates DEF flagTransient
<1>4. flags = local \cup UNION W({})
  BY Zenon
<1>5. W(flags) = W({})
  BY <1>3, <1>4, SameCandidates DEF flagTransient
<1> HIDE DEF local, W
<1>6. flags \cup local \cup UNION W(flags) = flags
  BY <1>4, <1>5
<1> QED
  BY <1>1, <1>2, <1>5, <1>6

\* A report is the classification of the attempts as they finished, and the flags are its own.
ReportInv ==
    /\ IsFiniteSet(attempts)
    /\ \/ report = NoReport /\ flagged = {}
       \/ report = Classification(scan, attempts, {}) /\ flagged = report.transient /\ Reported

\* A classification is a report.
LEMMA IsReport ==
    ASSUME NEW s, NEW atts, NEW before
    PROVE  Classification(s, atts, before) # NoReport
<1>1. PICK transient, notes, verdicts :
          Classification(s, atts, before) = Report(s, atts, transient, notes, verdicts)
  BY Zenon DEF Classification, Aggregated, Judged
<1>2. "notes" \in DOMAIN Report(s, atts, transient, notes, verdicts)
  BY DEF Report
<1>3. "notes" \notin DOMAIN NoReport
  BY DEF NoReport
<1> QED
  BY <1>1, <1>2, <1>3

LEMMA ReportStep == ReportInv /\ [Next]_classifyVars => ReportInv' /\ (Reported => report' = report)
<1> SUFFICES ASSUME ReportInv, [Next]_classifyVars
             PROVE  ReportInv' /\ (Reported => report' = report)
  OBVIOUS
<1>1. CASE UNCHANGED classifyVars
  BY <1>1 DEF classifyVars, ReportInv, Reported
<1>2. ASSUME NEW i \in DOMAIN scan.plan, Finish(i)
      PROVE  ReportInv' /\ (Reported => report' = report)
  <2>1. report = NoReport /\ report' = report /\ flagged' = flagged
    BY <1>2, Zenon DEF Finish
  <2>2. \E a : attempts' = attempts \cup {a}
    BY <1>2, Zenon DEF Finish
  <2>3. IsFiniteSet(attempts')
    BY <2>2, FS_AddElement DEF ReportInv
  <2> QED
    BY <2>1, <2>3 DEF ReportInv, Reported
<1>3. CASE Classify
  <2>1. /\ scan' = scan /\ attempts' = attempts /\ report' = Classification(scan, attempts, flagged)
        /\ flagged' = report'.transient
    BY <1>3, Zenon DEF Classify
  <2>2. report' = Classification(scan, attempts, {}) /\ (Reported => report' = report)
    BY <2>1, SameAgain DEF ReportInv, Reported
  <2>3. report' # NoReport
    BY <2>2, IsReport
  <2> QED
    BY <2>1, <2>2, <2>3 DEF ReportInv, Reported
<1> QED
  BY <1>1, <1>2, <1>3 DEF Next

(* Classifying a stored report again changes nothing in it (flagTransient    *)
(* counts the attempts it flagged before): the attempts that were taken out  *)
(* for an outage are candidates again, because the cells they failed in pass *)
(* without them just as they did with them.                                  *)
THEOREM ReclassifyStableHolds == Spec => ReclassifyStable
<1>1. Init => ReportInv
  BY FS_EmptySet DEF Init, ReportInv
<1>2. ReportInv /\ [Next]_classifyVars => ReportInv'
  BY ReportStep
<1>3. ReportInv /\ [Next]_classifyVars => [Reported => report' = report]_classifyVars
  BY ReportStep
<1> QED
  BY <1>1, <1>2, <1>3, PTL DEF Spec, ReclassifyStable
=============================================================================
