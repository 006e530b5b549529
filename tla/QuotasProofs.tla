---------------------------- MODULE QuotasProofs ----------------------------
(***************************************************************************)
(* Proofs about rate limits and bulk quotas (Quotas) for any callers,      *)
(* addresses, limits, window lengths, requests and stalls.  The rate       *)
(* limits rest on what a window still knows of the log of granted calls    *)
(* (Tracks), the quotas on what the counter of the day still knows of the  *)
(* bytes it carried (Counted).                                             *)
(***************************************************************************)
EXTENDS Quotas, FiniteSetTheorems, SequenceTheorems, TLAPS

Calling == {Idle} \cup [pc : {"asking"}, call : CallNames, ip : Addrs, n : Sizes, at : Nat]

QuotaTypes ==
    /\ now \in Nat /\ now <= MaxTime /\ late \in Nat
    /\ caller \in [Callers -> Calling]
    /\ sessRate \in [Addrs -> Seq(Nat)] /\ attemptRate \in [Addrs -> Seq(Nat)]
    /\ granted \in [{"session", "attempt"} -> [Addrs -> Seq(Nat)]]
    /\ bulkUsed \in [Keys -> [day : Nat, bytes : Nat]]
    /\ carried \in [Keys -> [0..DayOf(MaxTime) -> Nat]]

\* A caller's clock reading is at most MaxStall old.
Timely ==
    \A c \in Callers : caller[c].pc = "asking" => caller[c].at <= now /\ now <= caller[c].at + MaxStall

\* The window ts holds clock readings of the last granted calls of log, up to MaxStall
\* before they were granted; the calls it no longer holds have left the window at time t.
Tracks(ts, log, n, window, t) ==
    /\ Len(ts) <= Len(log)
    /\ \A j \in 1..Len(ts) : log[Len(log) - Len(ts) + j] <= ts[j] + MaxStall
    /\ \A i \in 1..(Len(log) - Len(ts)) : log[i] < t - window + MaxStall
    /\ Spread(log, n, window)

Rates ==
    \A k \in Addrs :
        /\ Tracks(sessRate[k], granted["session"][k], SessPerMin, Minute, now)
        /\ Tracks(attemptRate[k], granted["attempt"][k], AttPer10Min, TenMinutes, now)

Quota(k) == IF k = Total THEN BulkGlobalPerDay ELSE BulkPerDay

Limited(k) == k = Total \/ BulkPerDay > 0

\* What the counter of today does not hold was lost to late grants, a quota at most each;
\* nothing is carried ahead of time.
Counted ==
    \A k \in Keys :
        /\ \A d \in 0..DayOf(MaxTime) : d > DayOf(now) => carried[k][d] = 0
        /\ Limited(k) =>
              /\ bulkUsed[k].bytes <= Quota(k)
              /\ carried[k][DayOf(now)] <=
                    late * Quota(k) + (IF bulkUsed[k].day = YearDay(now) THEN bulkUsed[k].bytes ELSE 0)

QuotaInv == QuotaTypes /\ Timely /\ Rates /\ Counted /\ BulkQuotaHolds

----------------------------------------------------------------------------
(* prune. *)

\* A set of numbers that is not empty has a least element.
LEMMA LeastNumber ==
    ASSUME NEW S \in SUBSET Nat, S # {}
    PROVE  \E m \in S : \A n \in S : m <= n
<1>1. PICK m \in S : \A n \in S : ~ (<<n, m>> \in OpToRel(<, Nat))
  BY NatLessThanWellFounded, WFMin, Zenon
<1>2. ASSUME NEW n \in S
      PROVE  m <= n
  <2>1. m \in Nat /\ n \in Nat
    BY Zenon
  <2>2. n < m => <<n, m>> \in OpToRel(<, Nat)
    BY <2>1, Zenon DEF OpToRel
  <2>3. ~(n < m)
    BY <1>1, <2>2, Zenon
  <2> QED
    BY <2>1, <2>3
<1> QED
  BY <1>2, Zenon

\* 1..n has n elements.
LEMMA PrefixSize ==
    ASSUME NEW n \in Nat
    PROVE  Cardinality(1..n) = n
<1>1. Cardinality(1..n) = IF 1 > n THEN 0 ELSE n - 1 + 1
  BY FS_Interval, 1 \in Int, n \in Int, Zenon
<1> QED
  BY <1>1

\* prune drops a prefix: entries that are all older than since.
LEMMA PruneDrops ==
    ASSUME NEW ts \in Seq(Nat), NEW since \in Int
    PROVE  \E m \in 0..Len(ts) :
              /\ prune(ts, since) = SubSeq(ts, m + 1, Len(ts))
              /\ \A j \in 1..m : ts[j] < since
<1> DEFINE old == {j \in 1..Len(ts) : \A m \in 1..j : ts[m] < since}
           young == {j \in Nat : j > 0 /\ j \notin old}
<1>1. Len(ts) \in Nat
  BY LenProperties, Zenon
<1>2. young \in SUBSET Nat /\ Len(ts) + 1 \in young
  BY <1>1
<1>3. PICK f \in young : \A j \in young : f <= j
  BY <1>2, LeastNumber, Zenon
<1>4. f - 1 \in 0..Len(ts) /\ f \in Nat
  BY <1>1, <1>2, <1>3
<1>5. old = 1..(f - 1)
  <2>1. ASSUME NEW j \in old
        PROVE  j \in 1..(f - 1)
    <3>1. SUFFICES ASSUME f <= j
                   PROVE  FALSE
      BY <1>1, <1>4, <2>1
    <3>2. f \in 1..Len(ts) /\ \A m \in 1..f : ts[m] < since
      BY <1>1, <1>3, <1>4, <2>1, <3>1
    <3> QED
      BY <1>3, <3>2, Zenon
  <2>2. ASSUME NEW j \in 1..(f - 1)
        PROVE  j \in old
    BY <1>3, <1>4, <2>2
  <2> QED
    BY <2>1, <2>2, Zenon
<1>6. Cardinality(old) = f - 1
  <2>1. f - 1 \in Nat
    BY <1>4
  <2> QED
    BY <1>5, <2>1, PrefixSize, Zenon
<1>7. \A j \in 1..(f - 1) : ts[j] < since
  <2>1. \A j \in old : ts[j] < since
    OBVIOUS
  <2> QED
    BY <1>5, <2>1, Zenon
<1>8. prune(ts, since) = SubSeq(ts, (f - 1) + 1, Len(ts))
  BY <1>6, Zenon DEF prune
<1> QED
  BY <1>4, <1>7, <1>8, Zenon

\* What prune leaves, entry by entry.
LEMMA Pruned ==
    ASSUME NEW ts \in Seq(Nat), NEW since \in Int
    PROVE  \E m \in 0..Len(ts) :
              /\ prune(ts, since) \in Seq(Nat)
              /\ Len(prune(ts, since)) = Len(ts) - m
              /\ \A j \in 1..(Len(ts) - m) : prune(ts, since)[j] = ts[m + j]
              /\ \A j \in 1..m : ts[j] < since
<1>1. PICK m \in 0..Len(ts) : /\ prune(ts, since) = SubSeq(ts, m + 1, Len(ts))
                              /\ \A j \in 1..m : ts[j] < since
  BY PruneDrops, Zenon
<1>2. Len(ts) \in Nat
  BY LenProperties, Zenon
<1>3. m + 1 \in 1..(Len(ts) + 1) /\ Len(ts) \in m..Len(ts)
  BY <1>2
<1>4. SubSeq(ts, m + 1, Len(ts)) \in Seq(Nat)
  BY <1>2, <1>3, SubSeqProperties
<1>5. /\ Len(SubSeq(ts, m + 1, Len(ts))) = Len(ts) - m
      /\ \A j \in 1..(Len(ts) - m) : SubSeq(ts, m + 1, Len(ts))[j] = ts[m + j]
  BY <1>2, <1>3
<1> QED
  BY <1>1, <1>4, <1>5, Zenon

----------------------------------------------------------------------------
(* What a window knows of the log, through pruning, granting and the clock. *)

\* What the assumptions on the constants give.
LEMMA Numbers ==
    /\ RateKeyOf \in [Addrs -> Addrs] /\ Total \notin Addrs
    /\ SessPerMin \in Nat /\ AttPer10Min \in Nat /\ Minute \in Nat /\ TenMinutes \in Nat
    /\ BulkPerDay \in Nat /\ BulkGlobalPerDay \in Nat
    /\ DayLen \in Nat /\ DayLen > 0 /\ YearDays \in Nat /\ YearDays > 0
    /\ Sizes \subseteq Nat /\ MaxRequest \in Nat /\ MaxStall \in Nat /\ MaxTime \in Nat
  BY StoreConstants, QuotasConstants

\* Time passes.
LEMMA LaterTracks ==
    ASSUME NEW ts \in Seq(Nat), NEW log \in Seq(Nat), NEW n \in Nat, NEW window \in Nat,
           NEW t \in Nat, NEW u \in Nat, t <= u, Tracks(ts, log, n, window, t)
    PROVE  Tracks(ts, log, n, window, u)
<1>1. Len(ts) \in Nat /\ Len(log) \in Nat /\ MaxStall \in Nat
  BY LenProperties, Numbers, Zenon
<1>2. \A i \in 1..(Len(log) - Len(ts)) : log[i] < u - window + MaxStall
  <2>1. \A i \in 1..(Len(log) - Len(ts)) : log[i] \in Nat
    BY <1>1, ElementOfSeq
  <2> QED
    BY <1>1, <2>1 DEF Tracks
<1> QED
  BY <1>2, Zenon DEF Tracks

\* A call older than the window by its own clock is older than that, less a stall, in real time.
LEMMA Below ==
    ASSUME NEW x \in Nat, NEW y \in Nat, NEW at \in Nat, NEW t \in Nat, NEW window \in Nat,
           NEW stall \in Nat, x <= y + stall, y < at - window, at <= t
    PROVE  x < t - window + stall
  OBVIOUS

\* A caller with clock reading at prunes: what goes has left the window in real time.
LEMMA PruneTracks ==
    ASSUME NEW ts \in Seq(Nat), NEW log \in Seq(Nat), NEW n \in Nat, NEW window \in Nat,
           NEW t \in Nat, NEW at \in Nat, at <= t, Tracks(ts, log, n, window, t)
    PROVE  /\ prune(ts, at - window) \in Seq(Nat)
           /\ Tracks(prune(ts, at - window), log, n, window, t)
<1> DEFINE w == prune(ts, at - window)
<1>1. at - window \in Int
  OBVIOUS
<1>2. PICK m \in 0..Len(ts) : /\ w \in Seq(Nat)
                              /\ Len(w) = Len(ts) - m
                              /\ \A j \in 1..(Len(ts) - m) : w[j] = ts[m + j]
                              /\ \A j \in 1..m : ts[j] < at - window
  BY <1>1, Pruned, Zenon
<1> HIDE DEF w
<1>3. /\ Len(ts) \in Nat /\ Len(log) \in Nat /\ MaxStall \in Nat /\ Len(w) \in Nat
      /\ Len(ts) <= Len(log) /\ m \in Nat /\ m <= Len(ts) /\ Len(w) = Len(ts) - m
  BY <1>2, LenProperties, Numbers DEF Tracks
<1>4. \A j \in 1..Len(ts) : ts[j] \in Nat
  BY <1>3, ElementOfSeq, Zenon
<1>5. \A i \in 1..Len(log) : log[i] \in Nat
  BY <1>3, ElementOfSeq, Zenon
<1>6. ASSUME NEW j \in 1..Len(w)
      PROVE  log[Len(log) - Len(w) + j] <= w[j] + MaxStall
  <2>1. m + j \in 1..Len(ts) /\ Len(log) - Len(ts) + (m + j) = Len(log) - Len(w) + j
    BY <1>2, <1>3
  <2>2. log[Len(log) - Len(ts) + (m + j)] <= ts[m + j] + MaxStall
    BY <2>1, Zenon DEF Tracks
  <2> QED
    BY <1>2, <2>1, <2>2, Zenon
<1>7. ASSUME NEW i \in 1..(Len(log) - Len(w))
      PROVE  log[i] < t - window + MaxStall
  <2>1. CASE i <= Len(log) - Len(ts)
    BY <1>3, <2>1 DEF Tracks
  <2>2. CASE i > Len(log) - Len(ts)
    <3> DEFINE j == i - (Len(log) - Len(ts))
    <3>0. i \in Int /\ 1 <= i /\ i <= Len(log) - Len(w)
      BY <1>3
    <3>4. j \in Int /\ 1 <= j /\ j <= m /\ Len(log) - Len(ts) + j = i
      BY <1>3, <2>2, <3>0
    <3>1. j \in 1..m /\ Len(log) - Len(ts) + j = i /\ j \in 1..Len(ts) /\ i \in 1..Len(log)
      BY <1>3, <3>0, <3>4
    <3> HIDE DEF j
    <3>2. log[i] <= ts[j] + MaxStall /\ ts[j] < at - window
      BY <1>2, <3>1, Zenon DEF Tracks
    <3>3. log[i] \in Nat /\ ts[j] \in Nat
      BY <1>4, <1>5, <3>1, Zenon
    <3> QED
      BY <3>2, <3>3, Below, Numbers, Zenon
  <2> QED
    BY <1>3, <2>1, <2>2
<1>8. Tracks(w, log, n, window, t)
  BY <1>2, <1>3, <1>6, <1>7 DEF Tracks
<1> QED
  BY <1>2, <1>8, Zenon DEF w

\* A call is granted at t with a clock reading at: n calls before it, none is in the window.
LEMMA GrantTracks ==
    ASSUME NEW w \in Seq(Nat), NEW log \in Seq(Nat), NEW n \in Nat, NEW window \in Nat,
           NEW t \in Nat, NEW at \in Nat, t <= at + MaxStall,
           Tracks(w, log, n, window, t), Len(w) < n
    PROVE  /\ Append(w, at) \in Seq(Nat) /\ Append(log, t) \in Seq(Nat)
           /\ Tracks(Append(w, at), Append(log, t), n, window, t)
<1> DEFINE v == Append(w, at)
           l == Append(log, t)
<1>1. /\ Len(w) \in Nat /\ Len(log) \in Nat /\ MaxStall \in Nat /\ Len(w) <= Len(log)
  BY LenProperties, Numbers, Zenon DEF Tracks
<1>2. /\ v \in Seq(Nat) /\ Len(v) = Len(w) + 1 /\ v[Len(w) + 1] = at
      /\ \A j \in 1..Len(w) : v[j] = w[j]
  BY AppendProperties
<1>3. /\ l \in Seq(Nat) /\ Len(l) = Len(log) + 1 /\ l[Len(log) + 1] = t
      /\ \A j \in 1..Len(log) : l[j] = log[j]
  BY AppendProperties
<1> HIDE DEF v, l
<1>9. Len(v) = Len(w) + 1 /\ Len(l) = Len(log) + 1
  BY <1>2, <1>3, Zenon
<1>4. \A i \in 1..Len(log) : log[i] \in Nat
  BY <1>1, ElementOfSeq, Zenon
<1>5. ASSUME NEW j \in 1..Len(v)
      PROVE  l[Len(l) - Len(v) + j] <= v[j] + MaxStall
  <2>1. Len(l) - Len(v) + j = Len(log) - Len(w) + j
    BY <1>1, <1>9
  <2>2. CASE j = Len(w) + 1
    <3>1. Len(l) - Len(v) + j = Len(log) + 1
      BY <1>1, <1>9, <2>2
    <3>2. l[Len(l) - Len(v) + j] = t /\ v[j] = at
      BY <1>2, <1>3, <2>2, <3>1, Zenon
    <3> QED
      BY <3>2, Zenon
  <2>3. CASE j # Len(w) + 1
    <3>1. j \in 1..Len(w) /\ Len(log) - Len(w) + j \in 1..Len(log)
      BY <1>1, <1>9, <2>3
    <3> QED
      BY <1>2, <1>3, <2>1, <3>1 DEF Tracks
  <2> QED
    BY <2>2, <2>3, Zenon
<1>6. ASSUME NEW i \in 1..(Len(l) - Len(v))
      PROVE  l[i] < t - window + MaxStall
  <2>1. i \in 1..(Len(log) - Len(w)) /\ i \in 1..Len(log)
    BY <1>1, <1>9
  <2> QED
    BY <1>3, <2>1, Zenon DEF Tracks
<1>7. Spread(l, n, window)
  <2>1. SUFFICES ASSUME NEW i \in 1..Len(l), i + n \in 1..Len(l)
                 PROVE  l[i + n] - l[i] > window - MaxStall
    BY <1>1, <1>3 DEF Spread
  <2>2. CASE i + n <= Len(log)
    <3>1. i \in 1..Len(log) /\ i + n \in 1..Len(log)
      BY <1>1, <1>9, <2>1, <2>2
    <3>2. DOMAIN log = 1..Len(log)
      BY LenProperties, Zenon
    <3>3. log[i + n] - log[i] > window - MaxStall
      BY <3>1, <3>2, Zenon DEF Tracks, Spread
    <3> QED
      BY <1>3, <3>1, <3>3, Zenon
  <2>3. CASE i + n = Len(log) + 1
    <3>1. i \in 1..(Len(log) - Len(w)) /\ i \in 1..Len(log)
      BY <1>1, <2>3
    <3>2. log[i] < t - window + MaxStall
      BY <3>1, Zenon DEF Tracks
    <3>3. l[i + n] = t /\ l[i] = log[i] /\ log[i] \in Nat
      BY <1>3, <1>4, <2>3, <3>1, Zenon
    <3> QED
      BY <1>1, <3>2, <3>3
  <2>4. i + n <= Len(log) \/ i + n = Len(log) + 1
    <3>1. i + n \in Nat /\ Len(l) \in Nat /\ i + n <= Len(l)
      BY <1>1, <1>9, <2>1
    <3>2. ASSUME NEW x \in Nat, NEW y \in Nat, x <= y + 1
          PROVE  x <= y \/ x = y + 1
      BY <3>2
    <3>3. i + n <= Len(log) + 1
      BY <1>9, <3>1, Zenon
    <3> QED
      BY <1>1, <3>1, <3>2, <3>3, Zenon
  <2> QED
    BY <2>2, <2>3, <2>4, Zenon
<1>8. Tracks(v, l, n, window, t)
  BY <1>1, <1>2, <1>3, <1>5, <1>6, <1>7 DEF Tracks
<1> QED
  BY <1>2, <1>3, <1>8, Zenon DEF v, l

\* gc drops a window of which nothing would be left.
LEMMA EmptyTracks ==
    ASSUME NEW ts \in Seq(Nat), NEW log \in Seq(Nat), NEW n \in Nat, NEW window \in Nat,
           NEW t \in Nat, Tracks(ts, log, n, window, t), prune(ts, t - window) = <<>>
    PROVE  Tracks(<<>>, log, n, window, t)
<1>1. t <= t
  OBVIOUS
<1>2. Tracks(prune(ts, t - window), log, n, window, t)
  BY <1>1, PruneTracks, Zenon
<1> QED
  BY <1>2, Zenon

----------------------------------------------------------------------------
(* Days and products. *)

\* Division by a positive number is monotone.
LEMMA DivMonotone ==
    ASSUME NEW s \in Nat, NEW t \in Nat, NEW l \in Nat, l > 0, s <= t
    PROVE  s \div l \in Nat /\ t \div l \in Nat /\ s \div l <= t \div l
<1>1. /\ s \div l \in Nat /\ l * (s \div l) <= s
      /\ t \div l \in Nat /\ t < l * (t \div l) + l
  OBVIOUS
<1>2. ASSUME NEW p \in Nat, NEW q \in Nat, l * p <= s, t < l * q + l, p > q
      PROVE  FALSE
  <2>1. PICK e \in Nat : p = q + 1 + e
    <3>1. p - q - 1 \in Nat /\ p = q + 1 + (p - q - 1)
      BY <1>2
    <3> QED
      BY <3>1, Zenon
  <2>2. l * p = l * q + l + l * e /\ l * e >= 0 /\ l * p \in Nat /\ l * q \in Nat
    BY <2>1
  <2> QED
    BY <1>2, <2>2
<1> QED
  BY <1>1, <1>2

\* Days follow one another, and a day has one number in its year.
LEMMA Days ==
    ASSUME NEW s \in Nat, NEW t \in Nat, s <= t, t <= MaxTime
    PROVE  /\ DayOf(s) \in 0..DayOf(MaxTime) /\ DayOf(t) \in 0..DayOf(MaxTime)
           /\ DayOf(s) <= DayOf(t) /\ DayOf(MaxTime) \in Nat
           /\ YearDay(s) \in Nat /\ (DayOf(s) = DayOf(t) => YearDay(s) = YearDay(t))
<1>1. DayOf(s) \in Nat /\ DayOf(t) \in Nat /\ DayOf(s) <= DayOf(t)
  BY DivMonotone, Numbers, Zenon DEF DayOf
<1>2. DayOf(MaxTime) \in Nat /\ DayOf(t) <= DayOf(MaxTime)
  BY DivMonotone, Numbers, Zenon DEF DayOf
<1>3. YearDay(s) = (DayOf(s) % YearDays) + 1 /\ YearDay(t) = (DayOf(t) % YearDays) + 1
  BY Zenon DEF YearDay, DayOf
<1>4. YearDay(s) \in Nat
  BY <1>1, <1>3, Numbers
<1> QED
  BY <1>1, <1>2, <1>3, <1>4

\* The products of numbers of late grants and quotas.
LEMMA Product ==
    ASSUME NEW m \in Nat, NEW q \in Nat
    PROVE  /\ m * q \in Nat
           /\ (1 + m) * q = m * q + q /\ (m + 1) * q = m * q + q
           /\ (1 + (m + 1)) * q = m * q + q + q
  OBVIOUS

----------------------------------------------------------------------------
(* The steps.  A caller that asks has an address, a size and a clock reading. *)

\* What is known of a caller between its clock and the lock.
LEMMA Caller ==
    ASSUME QuotaInv, NEW c \in Callers, caller[c].pc = "asking"
    PROVE  /\ caller[c] \in [pc : {"asking"}, call : CallNames, ip : Addrs, n : Sizes, at : Nat]
           /\ caller[c].ip \in Addrs /\ RateKeyOf[caller[c].ip] \in Addrs
           /\ caller[c].n \in Nat /\ caller[c].at \in Nat
           /\ caller[c].at <= now /\ now <= caller[c].at + MaxStall
<1>1. caller[c] \in Calling /\ Idle.pc # "asking"
  BY Zenon DEF QuotaInv, QuotaTypes, Idle
<1>2. caller[c] \in [pc : {"asking"}, call : CallNames, ip : Addrs, n : Sizes, at : Nat]
  BY <1>1, Zenon DEF Calling
<1>3. caller[c].at <= now /\ now <= caller[c].at + MaxStall
  BY Zenon DEF QuotaInv, Timely
<1> QED
  BY <1>2, <1>3, Numbers, Zenon

\* A goroutine that is done is idle.
LEMMA BackToIdle ==
    ASSUME QuotaInv, NEW c \in Callers, caller' = [caller EXCEPT ![c] = Idle], now' = now
    PROVE  caller' \in [Callers -> Calling] /\ Timely'
<1>1. Idle \in Calling /\ Idle.pc # "asking"
  BY Zenon DEF Calling, Idle
<1> HIDE DEF Idle
<1>2. caller' \in [Callers -> Calling]
  BY <1>1, Zenon DEF QuotaInv, QuotaTypes
<1>3. Timely'
  BY <1>1, Zenon DEF QuotaInv, QuotaTypes, Timely
<1> QED
  BY <1>2, <1>3, Zenon

\* Ask keeps the invariant: a caller reads the clock.
LEMMA AskInv ==
    ASSUME QuotaInv, NEW c \in Callers, NEW call \in CallNames, NEW ip \in Addrs, NEW n \in Sizes,
           Ask(c, call, ip, n)
    PROVE  QuotaInv'
<1> DEFINE r == [pc |-> "asking", call |-> call, ip |-> ip, n |-> n, at |-> now]
<1>1. /\ UNCHANGED <<sessRate, attemptRate, bulkUsed, now, granted, carried, late>>
      /\ caller' = [caller EXCEPT ![c] = r]
  BY Zenon DEF Ask, storeVars
<1>2. r \in Calling /\ r.at = now /\ now \in Nat
  BY Zenon DEF Calling, QuotaInv, QuotaTypes
<1> HIDE DEF r
<1>3. QuotaTypes'
  BY <1>1, <1>2, Zenon DEF QuotaInv, QuotaTypes
<1>4. Timely'
  BY <1>1, <1>2, Numbers DEF QuotaInv, QuotaTypes, Timely
<1>5. Rates'
  BY <1>1, Zenon DEF QuotaInv, Rates
<1>6. Counted' /\ BulkQuotaHolds'
  BY <1>1, Zenon DEF QuotaInv, Counted, BulkQuotaHolds
<1> QED
  BY <1>3, <1>4, <1>5, <1>6, Zenon DEF QuotaInv

\* Tick keeps the invariant: no caller stalls for longer than MaxStall.
LEMMA TickInv ==
    ASSUME QuotaInv, Tick
    PROVE  QuotaInv'
<1>1. /\ UNCHANGED <<sessRate, attemptRate, bulkUsed, caller, granted, carried, late>>
      /\ now' = now + 1 /\ now \in Nat /\ now' \in Nat /\ now <= now' /\ now' <= MaxTime
      /\ \A c \in Callers : caller[c].pc = "asking" => now < caller[c].at + MaxStall
  BY Numbers DEF Tick, storeVars, QuotaInv, QuotaTypes
<1>2. QuotaTypes'
  BY <1>1, Zenon DEF QuotaInv, QuotaTypes
<1>3. Timely'
  <2>1. ASSUME NEW c \in Callers, caller[c].pc = "asking"
        PROVE  caller[c].at <= now' /\ now' <= caller[c].at + MaxStall
    BY <1>1, <2>1, Caller, Numbers
  <2> QED
    BY <1>1, <2>1, Zenon DEF Timely
<1>4. Rates'
  BY <1>1, Numbers, LaterTracks DEF QuotaInv, QuotaTypes, Rates
<1>5. DayOf(now) \in Nat /\ DayOf(now') \in 0..DayOf(MaxTime) /\ DayOf(now) <= DayOf(now')
      /\ (DayOf(now) = DayOf(now') => YearDay(now) = YearDay(now'))
  BY <1>1, Days
<1>6. Counted'
  <2>1. SUFFICES ASSUME NEW k \in Keys
                 PROVE  /\ \A d \in 0..DayOf(MaxTime) : d > DayOf(now') => carried[k][d] = 0
                        /\ Limited(k) =>
                             /\ bulkUsed[k].bytes <= Quota(k)
                             /\ carried[k][DayOf(now')] <=
                                  late * Quota(k)
                                  + (IF bulkUsed[k].day = YearDay(now') THEN bulkUsed[k].bytes ELSE 0)
    BY <1>1, Zenon DEF Counted, Limited, Quota
  <2>2. /\ \A d \in 0..DayOf(MaxTime) : d > DayOf(now') => carried[k][d] = 0
        /\ Limited(k) => bulkUsed[k].bytes <= Quota(k)
    BY <1>5 DEF QuotaInv, Counted
  <2>3. CASE DayOf(now') = DayOf(now)
    BY <1>5, <2>2, <2>3 DEF QuotaInv, Counted
  <2>4. CASE DayOf(now') > DayOf(now)
    <3>1. carried[k][DayOf(now')] = 0
      BY <1>5, <2>4, Zenon DEF QuotaInv, Counted
    <3>2. late * Quota(k) \in Nat /\ bulkUsed[k].bytes \in Nat
      BY Product, Numbers, Zenon DEF QuotaInv, QuotaTypes, Quota
    <3> QED
      BY <2>2, <3>1, <3>2
  <2> QED
    BY <1>5, <2>3, <2>4
<1>7. BulkQuotaHolds'
  BY <1>1, Zenon DEF QuotaInv, BulkQuotaHolds
<1> QED
  BY <1>2, <1>3, <1>4, <1>6, <1>7, Zenon DEF QuotaInv

\* gc keeps the invariant: it drops windows that hold nothing recent.
LEMMA CollectInv ==
    ASSUME QuotaInv, Collect
    PROVE  QuotaInv'
<1>1. /\ UNCHANGED <<now, caller, granted, carried, late>>
      /\ sessRate' = [k \in Addrs |->
            IF prune(sessRate[k], now - Minute) = <<>> THEN <<>> ELSE sessRate[k]]
      /\ attemptRate' = [k \in Addrs |->
            IF prune(attemptRate[k], now - TenMinutes) = <<>> THEN <<>> ELSE attemptRate[k]]
      /\ bulkUsed' = [k \in Keys |->
            IF bulkUsed[k].day = YearDay(now) THEN bulkUsed[k] ELSE NoUse]
  BY Zenon DEF Collect, gc, Keys
<1>2. <<>> \in Seq(Nat) /\ NoUse \in [day : Nat, bytes : Nat] /\ NoUse.bytes = 0 /\ now \in Nat
  BY DEF NoUse, QuotaInv, QuotaTypes
<1> HIDE DEF NoUse
<1>3. QuotaTypes'
  <2>1. sessRate' \in [Addrs -> Seq(Nat)] /\ attemptRate' \in [Addrs -> Seq(Nat)]
    BY <1>1, <1>2, Zenon DEF QuotaInv, QuotaTypes
  <2>2. bulkUsed' \in [Keys -> [day : Nat, bytes : Nat]]
    BY <1>1, <1>2, Zenon DEF QuotaInv, QuotaTypes
  <2> QED
    BY <1>1, <2>1, <2>2 DEF QuotaInv, QuotaTypes
<1>4. Timely'
  BY <1>1, Zenon DEF QuotaInv, Timely
<1>5. Rates'
  <2>1. ASSUME NEW k \in Addrs
        PROVE  /\ Tracks(sessRate'[k], granted["session"][k], SessPerMin, Minute, now)
               /\ Tracks(attemptRate'[k], granted["attempt"][k], AttPer10Min, TenMinutes, now)
    <3>1. Tracks(sessRate'[k], granted["session"][k], SessPerMin, Minute, now)
      BY <1>1, <1>2, EmptyTracks, Numbers DEF QuotaInv, QuotaTypes, Rates
    <3>2. Tracks(attemptRate'[k], granted["attempt"][k], AttPer10Min, TenMinutes, now)
      BY <1>1, <1>2, EmptyTracks, Numbers DEF QuotaInv, QuotaTypes, Rates
    <3> QED
      BY <3>1, <3>2, Zenon
  <2> QED
    BY <1>1, <2>1, Zenon DEF Rates
<1>6. Counted'
  <2>1. \A k \in Keys : /\ bulkUsed'[k].bytes <= bulkUsed[k].bytes
                        /\ bulkUsed[k].day = YearDay(now) => bulkUsed'[k] = bulkUsed[k]
                        /\ bulkUsed[k].day # YearDay(now) => bulkUsed'[k].bytes = 0
                        /\ bulkUsed[k].bytes \in Nat
    BY <1>1, <1>2 DEF QuotaInv, QuotaTypes
  <2>2. \A k \in Keys : Quota(k) \in Nat
    BY Numbers, Zenon DEF Quota
  <2> QED
    BY <1>1, <2>1, <2>2 DEF QuotaInv, Counted, Limited, Quota
<1>7. BulkQuotaHolds'
  BY <1>1, Zenon DEF QuotaInv, BulkQuotaHolds
<1> QED
  BY <1>3, <1>4, <1>5, <1>6, <1>7 DEF QuotaInv

\* allowSession and allowAttempt on the window ts of a rate key and the log of its grants.
LEMMA AllowTracks ==
    ASSUME NEW ts \in Seq(Nat), NEW log \in Seq(Nat), NEW n \in Nat, NEW window \in Nat,
           NEW t \in Nat, NEW at \in Nat, at <= t, t <= at + MaxStall,
           Tracks(ts, log, n, window, t), NEW w, w = prune(ts, at - window)
    PROVE  /\ w \in Seq(Nat) /\ Append(w, at) \in Seq(Nat) /\ Append(log, t) \in Seq(Nat)
           /\ Tracks(w, log, n, window, t)
           /\ Len(w) < n => Tracks(Append(w, at), Append(log, t), n, window, t)
<1>1. w \in Seq(Nat) /\ Tracks(w, log, n, window, t)
  BY PruneTracks, Zenon
<1>2. Append(w, at) \in Seq(Nat) /\ Append(log, t) \in Seq(Nat)
  BY <1>1, AppendProperties, Zenon
<1>3. Len(w) < n => Tracks(Append(w, at), Append(log, t), n, window, t)
  BY <1>1, GrantTracks, Zenon
<1> QED
  BY <1>1, <1>2, <1>3, Zenon

\* handleSession keeps the invariant: allowSession grants, or refuses.
LEMMA handleSessionInv ==
    ASSUME QuotaInv, NEW c \in Callers, handleSession(c)
    PROVE  QuotaInv'
<1> DEFINE at == caller[c].at
           key == RateKeyOf[caller[c].ip]
           w == prune(sessRate[key], at - Minute)
           log == granted["session"][key]
<1>1. caller[c].pc = "asking" /\ caller' = [caller EXCEPT ![c] = Idle]
      /\ UNCHANGED <<attemptRate, bulkUsed, now, carried, late>>
  BY Zenon DEF handleSession, allowSession
<1>2. \/ /\ UNCHANGED <<sessRate, granted>>
      \/ /\ sessRate' = [sessRate EXCEPT ![key] = w] /\ UNCHANGED granted
      \/ /\ Len(w) < SessPerMin
         /\ sessRate' = [sessRate EXCEPT ![key] = Append(w, at)]
         /\ granted' = [granted EXCEPT !["session"][key] = Append(@, now)]
  BY Zenon DEF handleSession, allowSession, Log, SessionAllowed, SessWindow
<1>3. /\ key \in Addrs /\ at \in Nat /\ at <= now /\ now <= at + MaxStall /\ now \in Nat
      /\ sessRate[key] \in Seq(Nat) /\ log \in Seq(Nat)
      /\ SessPerMin \in Nat /\ Minute \in Nat
      /\ Tracks(sessRate[key], log, SessPerMin, Minute, now)
  BY <1>1, Caller, Numbers, Zenon DEF QuotaInv, QuotaTypes, Rates
<1>4. /\ w \in Seq(Nat) /\ Append(w, at) \in Seq(Nat) /\ Append(log, now) \in Seq(Nat)
      /\ Tracks(w, log, SessPerMin, Minute, now)
      /\ Len(w) < SessPerMin =>
            Tracks(Append(w, at), Append(log, now), SessPerMin, Minute, now)
  BY <1>3, AllowTracks, Zenon
<1>5. granted["session"][key] = log
  BY Zenon
<1> HIDE DEF at, key, w, log
<1>6. /\ sessRate' \in [Addrs -> Seq(Nat)]
      /\ granted' \in [{"session", "attempt"} -> [Addrs -> Seq(Nat)]]
      /\ granted'["attempt"] = granted["attempt"]
      /\ \A k \in Addrs : k # key => /\ sessRate'[k] = sessRate[k]
                                     /\ granted'["session"][k] = granted["session"][k]
      /\ Tracks(sessRate'[key], granted'["session"][key], SessPerMin, Minute, now)
  <2>1. CASE UNCHANGED <<sessRate, granted>>
    BY <1>3, <1>5, <2>1, Zenon DEF QuotaInv, QuotaTypes
  <2>2. CASE sessRate' = [sessRate EXCEPT ![key] = w] /\ UNCHANGED granted
    BY <1>3, <1>4, <1>5, <2>2, Zenon DEF QuotaInv, QuotaTypes
  <2>3. CASE /\ Len(w) < SessPerMin
             /\ sessRate' = [sessRate EXCEPT ![key] = Append(w, at)]
             /\ granted' = [granted EXCEPT !["session"][key] = Append(@, now)]
    <3>1. sessRate'[key] = Append(w, at) /\ sessRate' \in [Addrs -> Seq(Nat)]
          /\ \A k \in Addrs : k # key => sessRate'[k] = sessRate[k]
      BY <1>3, <1>4, <2>3, Zenon DEF QuotaInv, QuotaTypes
    <3>2. /\ granted' \in [{"session", "attempt"} -> [Addrs -> Seq(Nat)]]
          /\ granted'["attempt"] = granted["attempt"]
          /\ granted'["session"][key] = Append(log, now)
          /\ \A k \in Addrs : k # key => granted'["session"][k] = granted["session"][k]
      BY <1>3, <1>4, <1>5, <2>3, Zenon DEF QuotaInv, QuotaTypes
    <3> QED
      BY <1>4, <2>3, <3>1, <3>2, Zenon
  <2> QED
    BY <1>2, <2>1, <2>2, <2>3, Zenon
<1>7. QuotaTypes' /\ Timely'
  BY <1>1, <1>6, BackToIdle, Zenon DEF QuotaInv, QuotaTypes
<1>8. Rates'
  BY <1>1, <1>6, Zenon DEF QuotaInv, Rates
<1>9. Counted' /\ BulkQuotaHolds'
  BY <1>1, Zenon DEF QuotaInv, Counted, BulkQuotaHolds
<1> QED
  BY <1>7, <1>8, <1>9, Zenon DEF QuotaInv

\* handleAttempt keeps the invariant: allowAttempt grants, or refuses.
LEMMA handleAttemptInv ==
    ASSUME QuotaInv, NEW c \in Callers, handleAttempt(c)
    PROVE  QuotaInv'
<1> DEFINE at == caller[c].at
           key == RateKeyOf[caller[c].ip]
           w == prune(attemptRate[key], at - TenMinutes)
           log == granted["attempt"][key]
<1>1. caller[c].pc = "asking" /\ caller' = [caller EXCEPT ![c] = Idle]
      /\ UNCHANGED <<sessRate, bulkUsed, now, carried, late>>
  BY Zenon DEF handleAttempt, allowAttempt
<1>2. \/ /\ attemptRate' = [attemptRate EXCEPT ![key] = w] /\ UNCHANGED granted
      \/ /\ Len(w) < AttPer10Min
         /\ attemptRate' = [attemptRate EXCEPT ![key] = Append(w, at)]
         /\ granted' = [granted EXCEPT !["attempt"][key] = Append(@, now)]
  BY Zenon DEF handleAttempt, allowAttempt, Log, AttemptAllowed, AttemptWindow
<1>3. /\ key \in Addrs /\ at \in Nat /\ at <= now /\ now <= at + MaxStall /\ now \in Nat
      /\ attemptRate[key] \in Seq(Nat) /\ log \in Seq(Nat)
      /\ AttPer10Min \in Nat /\ TenMinutes \in Nat
      /\ Tracks(attemptRate[key], log, AttPer10Min, TenMinutes, now)
  BY <1>1, Caller, Numbers, Zenon DEF QuotaInv, QuotaTypes, Rates
<1>4. /\ w \in Seq(Nat) /\ Append(w, at) \in Seq(Nat) /\ Append(log, now) \in Seq(Nat)
      /\ Tracks(w, log, AttPer10Min, TenMinutes, now)
      /\ Len(w) < AttPer10Min =>
            Tracks(Append(w, at), Append(log, now), AttPer10Min, TenMinutes, now)
  BY <1>3, AllowTracks, Zenon
<1>5. granted["attempt"][key] = log
  BY Zenon
<1> HIDE DEF at, key, w, log
<1>6. /\ attemptRate' \in [Addrs -> Seq(Nat)]
      /\ granted' \in [{"session", "attempt"} -> [Addrs -> Seq(Nat)]]
      /\ granted'["session"] = granted["session"]
      /\ \A k \in Addrs : k # key => /\ attemptRate'[k] = attemptRate[k]
                                     /\ granted'["attempt"][k] = granted["attempt"][k]
      /\ Tracks(attemptRate'[key], granted'["attempt"][key], AttPer10Min, TenMinutes, now)
  <2>1. CASE attemptRate' = [attemptRate EXCEPT ![key] = w] /\ UNCHANGED granted
    BY <1>3, <1>4, <1>5, <2>1, Zenon DEF QuotaInv, QuotaTypes
  <2>2. CASE /\ Len(w) < AttPer10Min
             /\ attemptRate' = [attemptRate EXCEPT ![key] = Append(w, at)]
             /\ granted' = [granted EXCEPT !["attempt"][key] = Append(@, now)]
    <3>1. attemptRate'[key] = Append(w, at) /\ attemptRate' \in [Addrs -> Seq(Nat)]
          /\ \A k \in Addrs : k # key => attemptRate'[k] = attemptRate[k]
      BY <1>3, <1>4, <2>2, Zenon DEF QuotaInv, QuotaTypes
    <3>2. /\ granted' \in [{"session", "attempt"} -> [Addrs -> Seq(Nat)]]
          /\ granted'["session"] = granted["session"]
          /\ granted'["attempt"][key] = Append(log, now)
          /\ \A k \in Addrs : k # key => granted'["attempt"][k] = granted["attempt"][k]
      BY <1>3, <1>4, <1>5, <2>2, Zenon DEF QuotaInv, QuotaTypes
    <3> QED
      BY <1>4, <2>2, <3>1, <3>2, Zenon
  <2> QED
    BY <1>2, <2>1, <2>2, Zenon
<1>7. QuotaTypes' /\ Timely'
  BY <1>1, <1>6, BackToIdle, Zenon DEF QuotaInv, QuotaTypes
<1>8. Rates'
  BY <1>1, <1>6, Zenon DEF QuotaInv, Rates
<1>9. Counted' /\ BulkQuotaHolds'
  BY <1>1, Zenon DEF QuotaInv, Counted, BulkQuotaHolds
<1> QED
  BY <1>7, <1>8, <1>9, Zenon DEF QuotaInv

\* The arithmetic of one grant of n bytes: b is what the counter for the caller's day held,
\* cD what today carried, ce what the caller's day did, m the late grants so far.
LEMMA GrantCounts ==
    ASSUME NEW q \in Nat, NEW m \in Nat, NEW n \in Nat, NEW b \in Nat, NEW u \in Nat,
           NEW cD \in Nat, NEW ce \in Nat, b + n <= q, u <= q,
           cD <= m * q + u, ce <= (1 + m) * q
    PROVE  /\ cD <= (m + 1) * q /\ ce + n <= (1 + (m + 1)) * q
           /\ u = b => cD + n <= m * q + (b + n) /\ cD + n <= (1 + m) * q
           /\ \A c \in Nat : c <= (1 + m) * q => c <= (1 + (m + 1)) * q
           /\ \A c, x \in Nat : c <= m * q + x => c <= (m + 1) * q + x
<1>1. /\ m * q \in Nat
      /\ (1 + m) * q = m * q + q /\ (m + 1) * q = m * q + q
      /\ (1 + (m + 1)) * q = m * q + q + q
  BY Product, Zenon
<1> QED
  BY <1>1

\* n more bytes on day d.
LEMMA Raised ==
    ASSUME NEW D, NEW f \in [D -> Nat], NEW d \in D, NEW n \in Nat
    PROVE  /\ [f EXCEPT ![d] = @ + n] \in [D -> Nat]
           /\ [f EXCEPT ![d] = @ + n][d] = f[d] + n
           /\ \A e \in D : e # d => [f EXCEPT ![d] = @ + n][e] = f[e]
  OBVIOUS

\* tcpBulk keeps the invariant: consumeBulk, around midnight too.
LEMMA tcpBulkInv ==
    ASSUME QuotaInv, NEW c \in Callers, tcpBulk(c)
    PROVE  QuotaInv'
<1> DEFINE ip == caller[c].ip
           at == caller[c].at
           n == caller[c].n
           key == RateKeyOf[ip]
           charged(k) == [UseOn(k, at) EXCEPT !.bytes = @ + n]
           day == DayOf(at)
<1>1. caller[c].pc = "asking" /\ caller' = [caller EXCEPT ![c] = Idle]
      /\ UNCHANGED <<sessRate, attemptRate, now, granted>>
  BY Zenon DEF tcpBulk, consumeBulk, storeVars
<1>2. /\ at \in Nat /\ n \in Nat /\ key \in Addrs /\ key # Total /\ at <= now
      /\ key \in Keys /\ Total \in Keys
  BY <1>1, Caller, Numbers, Zenon DEF Keys
<1>3. now \in Nat /\ now <= MaxTime /\ late \in Nat
  BY Zenon DEF QuotaInv, QuotaTypes
<1>4. /\ day \in 0..DayOf(MaxTime) /\ DayOf(now) \in 0..DayOf(MaxTime) /\ day <= DayOf(now)
      /\ DayOf(MaxTime) \in Nat
      /\ YearDay(at) \in Nat /\ (day = DayOf(now) => YearDay(at) = YearDay(now))
  BY <1>2, <1>3, Days, Zenon
<1>5. \A k \in Keys : bulkUsed[k] \in [day : Nat, bytes : Nat] /\ Quota(k) \in Nat
  BY Numbers, Zenon DEF QuotaInv, QuotaTypes, Quota
<1>6. \A k \in Keys : /\ UseOn(k, at) \in [day : Nat, bytes : Nat]
                      /\ UseOn(k, at).day = YearDay(at)
                      /\ bulkUsed[k].day = YearDay(at) => UseOn(k, at) = bulkUsed[k]
                      /\ bulkUsed[k].day # YearDay(at) => UseOn(k, at).bytes = 0
  BY <1>4, <1>5, Zenon DEF UseOn
<1>7. CASE UNCHANGED <<bulkUsed, carried, late>>
  <2>1. QuotaTypes' /\ Timely'
    BY <1>1, <1>7, BackToIdle, Zenon DEF QuotaInv, QuotaTypes
  <2>2. Rates'
    BY <1>1, Zenon DEF QuotaInv, Rates
  <2>3. Counted' /\ BulkQuotaHolds'
    BY <1>1, <1>7, Zenon DEF QuotaInv, Counted, BulkQuotaHolds
  <2> QED
    BY <2>1, <2>2, <2>3, Zenon DEF QuotaInv
<1>8. CASE /\ BulkAllowed(ip, n, at)
           /\ bulkUsed' = [bulkUsed EXCEPT ![key] = charged(key), ![Total] = charged(Total)]
           /\ carried' = [k \in Keys |-> IF k \in {key, Total}
                                         THEN [carried[k] EXCEPT ![day] = @ + n] ELSE carried[k]]
           /\ late' = IF day < DayOf(now) THEN late + 1 ELSE late
  <2>1. \A k \in Keys : /\ charged(k) \in [day : Nat, bytes : Nat]
                        /\ charged(k).day = YearDay(at)
                        /\ charged(k).bytes = UseOn(k, at).bytes + n
    BY <1>2, <1>6
  <2>2. \A k \in {key, Total} : Limited(k) => UseOn(k, at).bytes + n <= Quota(k)
    BY <1>2, <1>8, Zenon DEF BulkAllowed, Limited, Quota
  <2> HIDE DEF charged, key, at, n, ip, day
  <2>3. /\ bulkUsed' \in [Keys -> [day : Nat, bytes : Nat]]
        /\ \A k \in {key, Total} : bulkUsed'[k] = charged(k)
        /\ \A k \in Keys : k \notin {key, Total} => bulkUsed'[k] = bulkUsed[k]
    BY <1>2, <1>8, <2>1 DEF QuotaInv, QuotaTypes
  <2>4. /\ carried' \in [Keys -> [0..DayOf(MaxTime) -> Nat]]
        /\ \A k \in {key, Total} :
              /\ carried'[k][day] = carried[k][day] + n
              /\ \A d \in 0..DayOf(MaxTime) : d # day => carried'[k][d] = carried[k][d]
        /\ \A k \in Keys : k \notin {key, Total} => carried'[k] = carried[k]
    <3>1. \A k \in Keys : carried[k] \in [0..DayOf(MaxTime) -> Nat]
      BY Zenon DEF QuotaInv, QuotaTypes
    <3>2. /\ \A k \in {key, Total} : carried'[k] = [carried[k] EXCEPT ![day] = @ + n]
          /\ \A k \in Keys : k \notin {key, Total} => carried'[k] = carried[k]
      BY <1>2, <1>8, Zenon
    <3>3. \A k \in {key, Total} :
             /\ [carried[k] EXCEPT ![day] = @ + n] \in [0..DayOf(MaxTime) -> Nat]
             /\ [carried[k] EXCEPT ![day] = @ + n][day] = carried[k][day] + n
             /\ \A d \in 0..DayOf(MaxTime) : d # day =>
                   [carried[k] EXCEPT ![day] = @ + n][d] = carried[k][d]
      BY <1>2, <1>4, <3>1, Raised
    <3>4. carried' \in [Keys -> [0..DayOf(MaxTime) -> Nat]]
      <4> DEFINE grown(k) == IF k \in {key, Total} THEN [carried[k] EXCEPT ![day] = @ + n]
                             ELSE carried[k]
      <4>1. \A k \in Keys : grown(k) \in [0..DayOf(MaxTime) -> Nat]
        BY <3>1, <3>3, Zenon
      <4>2. carried' = [k \in Keys |-> grown(k)]
        BY <1>8, Zenon
      <4> HIDE DEF grown
      <4> QED
        BY <4>1, <4>2, Zenon
    <3> QED
      BY <3>2, <3>3, <3>4
  <2>5. late' \in Nat /\ (late' = late \/ late' = late + 1)
        /\ (day < DayOf(now) => late' = late + 1) /\ (day = DayOf(now) => late' = late)
    BY <1>3, <1>4, <1>8
  <2>6. QuotaTypes' /\ Timely'
    BY <1>1, <2>3, <2>4, <2>5, BackToIdle DEF QuotaInv, QuotaTypes
  <2>7. Rates'
    BY <1>1, Zenon DEF QuotaInv, Rates
  <2>8. \A k \in Keys : \A d \in 0..DayOf(MaxTime) : d > DayOf(now) => carried'[k][d] = 0
    <3>1. SUFFICES ASSUME NEW k \in Keys, NEW d \in 0..DayOf(MaxTime), d > DayOf(now)
                   PROVE  carried'[k][d] = 0
      BY Zenon
    <3>2. d # day
      BY <1>4, <3>1
    <3>3. carried[k][d] = 0
      BY <3>1, Zenon DEF QuotaInv, Counted
    <3> QED
      BY <2>4, <3>2, <3>3
  <2>9. ASSUME NEW k \in Keys, Limited(k)
        PROVE  /\ bulkUsed'[k].bytes <= Quota(k)
               /\ carried'[k][DayOf(now)] <= late' * Quota(k)
                    + (IF bulkUsed'[k].day = YearDay(now) THEN bulkUsed'[k].bytes ELSE 0)
               /\ \A d \in 0..DayOf(MaxTime) : carried'[k][d] <= (1 + late') * Quota(k)
    <3> DEFINE q == Quota(k)
               u == IF bulkUsed[k].day = YearDay(now) THEN bulkUsed[k].bytes ELSE 0
               v == IF bulkUsed'[k].day = YearDay(now) THEN bulkUsed'[k].bytes ELSE 0
               cD == carried[k][DayOf(now)]
               b == UseOn(k, at).bytes
    <3>1. /\ q \in Nat /\ u \in Nat /\ v \in Nat /\ cD \in Nat /\ b \in Nat
          /\ bulkUsed[k].bytes \in Nat /\ \A d \in 0..DayOf(MaxTime) : carried[k][d] \in Nat
      <4>1. carried[k] \in [0..DayOf(MaxTime) -> Nat] /\ bulkUsed'[k] \in [day : Nat, bytes : Nat]
        BY <2>3, Zenon DEF QuotaInv, QuotaTypes
      <4>2. bulkUsed[k] \in [day : Nat, bytes : Nat] /\ q \in Nat
            /\ UseOn(k, at) \in [day : Nat, bytes : Nat]
        BY <1>5, <1>6, Zenon
      <4> QED
        BY <1>4, <4>1, <4>2, Zenon
    <3>2. /\ bulkUsed[k].bytes <= q /\ u <= q /\ cD <= late * q + u
          /\ \A d \in 0..DayOf(MaxTime) : carried[k][d] <= (1 + late) * q
      <4>1. bulkUsed[k].bytes <= q /\ cD <= late * q + u
        BY <2>9, Zenon DEF QuotaInv, Counted
      <4>2. \A d \in 0..DayOf(MaxTime) : carried[k][d] <= (1 + late) * q
        BY <2>9, Numbers DEF QuotaInv, BulkQuotaHolds, Limited, Quota
      <4> QED
        BY <3>1, <4>1, <4>2
    <3>3. q = Quota(k)
      BY Zenon
    <3> HIDE DEF q
    <3>4. CASE k \notin {key, Total}
      <4>1. v = u /\ bulkUsed'[k].bytes <= q
        BY <2>3, <3>2, <3>4, Zenon
      <4>2. 0 + 0 <= q
        BY <3>1
      <4>3. /\ \A x \in Nat : x <= (1 + late) * q => x <= (1 + (late + 1)) * q
            /\ \A x, y \in Nat : x <= late * q + y => x <= (late + 1) * q + y
        BY <1>3, <3>1, <3>2, <4>2, GrantCounts
      <4> HIDE DEF u, v
      <4> QED
        BY <1>4, <2>4, <2>5, <3>1, <3>2, <3>3, <3>4, <4>1, <4>3 DEF v
    <3>5. CASE k \in {key, Total}
      <4>1. bulkUsed'[k].bytes = b + n /\ b + n <= q /\ bulkUsed'[k].day = YearDay(at)
        BY <2>1, <2>2, <2>3, <2>9, <3>3, <3>5
      <4>2. carried[k][day] \in Nat /\ carried[k][day] <= (1 + late) * q
        BY <1>4, <3>1, <3>2
      <4>3. /\ cD <= (late + 1) * q /\ carried[k][day] + n <= (1 + (late + 1)) * q
            /\ u = b => cD + n <= late * q + (b + n) /\ cD + n <= (1 + late) * q
            /\ \A x \in Nat : x <= (1 + late) * q => x <= (1 + (late + 1)) * q
        BY <1>2, <1>3, <3>1, <3>2, <4>1, <4>2, GrantCounts
      <4>4. CASE day < DayOf(now)
        <5>1. carried'[k][DayOf(now)] = cD /\ late' = late + 1
          BY <1>4, <2>4, <2>5, <3>5, <4>4
        <5>2. (late + 1) * q \in Nat
          BY <1>3, <3>1, Product
        <5>3. carried'[k][DayOf(now)] <= late' * q + v
          <6> DEFINE w == (late + 1) * q
          <6>1. w \in Nat /\ cD <= w
            BY <4>3, <5>2
          <6>2. late' * q = w
            BY <5>1, Zenon
          <6> HIDE DEF w, cD, v
          <6>3. cD <= w + v
            BY <3>1, <6>1
          <6> QED
            BY <5>1, <6>2, <6>3
        <5>4. \A d \in 0..DayOf(MaxTime) : carried'[k][d] <= (1 + late') * q
          BY <2>4, <3>1, <3>2, <3>5, <4>3, <5>1
        <5> QED
          BY <3>3, <4>1, <5>3, <5>4
      <4>5. CASE day = DayOf(now)
        <5>1. u = b /\ v = b + n /\ late' = late
          BY <1>4, <1>6, <2>5, <4>1, <4>5
        <5>2. carried'[k][DayOf(now)] = cD + n
          BY <2>4, <3>5, <4>5
        <5>3. carried'[k][DayOf(now)] <= late' * q + v
          BY <4>3, <5>1, <5>2
        <5>4. \A d \in 0..DayOf(MaxTime) : carried'[k][d] <= (1 + late') * q
          BY <2>4, <3>2, <3>5, <4>3, <4>5, <5>1, <5>2
        <5> QED
          BY <3>3, <4>1, <5>3, <5>4
      <4> QED
        BY <1>4, <4>4, <4>5
    <3> QED
      BY <3>4, <3>5, Zenon
  <2>10. Counted'
    BY <1>1, <2>8, <2>9, Zenon DEF Counted, Limited, Quota
  <2>11. BulkQuotaHolds'
    BY <2>9, Numbers DEF BulkQuotaHolds, Limited, Quota
  <2> QED
    BY <2>6, <2>7, <2>10, <2>11, Zenon DEF QuotaInv
<1>9. QED
  BY <1>7, <1>8, Zenon DEF tcpBulk, consumeBulk, storeVars

----------------------------------------------------------------------------
(* The theorems. *)

\* The invariant holds at the start.
LEMMA InitInv ==
    ASSUME Init
    PROVE  QuotaInv
<1>1. /\ now \in Nat /\ now <= MaxTime /\ late = 0
      /\ sessRate = [k \in Addrs |-> <<>>] /\ attemptRate = [k \in Addrs |-> <<>>]
      /\ granted = [w \in {"session", "attempt"} |-> [k \in Addrs |-> <<>>]]
      /\ bulkUsed = [k \in Keys |-> NoUse]
      /\ carried = [k \in Keys |-> [d \in 0..DayOf(MaxTime) |-> 0]]
  <2>1. load.boot \in 0..MaxTime
    BY QuotasConstants, Zenon DEF Init
  <2> QED
    BY <2>1, Numbers DEF Init, newStore, Keys
<1>2. NoUse \in [day : Nat, bytes : Nat] /\ NoUse.bytes = 0 /\ NoUse.day = 0
  BY Zenon DEF NoUse
<1>3. caller \in [Callers -> Calling] /\ \A c \in Callers : caller[c].pc # "asking"
  BY Zenon DEF Init, Calling, Idle
<1>4. DayOf(now) \in 0..DayOf(MaxTime)
  BY <1>1, Days
<1> HIDE DEF NoUse
<1>5. QuotaTypes
  BY <1>1, <1>2, <1>3 DEF QuotaTypes
<1>6. Timely
  BY <1>3, Zenon DEF Timely
<1>7. Rates
  <2>1. Tracks(<<>>, <<>>, SessPerMin, Minute, now) /\ Tracks(<<>>, <<>>, AttPer10Min, TenMinutes, now)
    BY DEF Tracks, Spread
  <2> QED
    BY <1>1, <2>1, Zenon DEF Rates
<1>8. \A k \in Keys : /\ Quota(k) \in Nat /\ late * Quota(k) = 0 /\ (1 + late) * Quota(k) = Quota(k)
                      /\ bulkUsed[k].bytes = 0
                      /\ \A d \in 0..DayOf(MaxTime) : carried[k][d] = 0
  BY <1>1, <1>2, Numbers DEF Quota
<1>9. Counted
  BY <1>4, <1>8 DEF Counted
<1>10. BulkQuotaHolds
  BY <1>8 DEF BulkQuotaHolds, Quota
<1> QED
  BY <1>5, <1>6, <1>7, <1>9, <1>10 DEF QuotaInv

\* Every step keeps the invariant.
LEMMA NextInv ==
    ASSUME QuotaInv, [Next]_quotaVars
    PROVE  QuotaInv'
<1>1. CASE UNCHANGED quotaVars
  BY <1>1, Zenon DEF quotaVars, storeVars, QuotaInv, QuotaTypes, Timely, Rates, Counted, BulkQuotaHolds
<1>2. CASE Next
  BY <1>2, AskInv, handleSessionInv, handleAttemptInv, tcpBulkInv, CollectInv, TickInv DEF Next
<1> QED
  BY <1>1, <1>2, Zenon

\* The inductive invariant.
THEOREM QuotaInvariant == Spec => []QuotaInv
  BY InitInv, NextInv, PTL DEF Spec

\* allowSession, allowAttempt: any limit + 1 granted calls of a rate key take more than the
\* window's length less a stall, in real time, however callers overtake one another.
THEOREM RatesAlwaysHold == Spec => []RatesHold
<1>1. QuotaInv => RatesHold
  BY Zenon DEF QuotaInv, Rates, Tracks, RatesHold
<1> QED
  BY <1>1, QuotaInvariant, PTL

\* consumeBulk: a day carries at most its quota, and once more for every late grant.
THEOREM BulkQuotaAlwaysHolds == Spec => []BulkQuotaHolds
<1>1. QuotaInv => BulkQuotaHolds
  BY Zenon DEF QuotaInv
<1> QED
  BY <1>1, QuotaInvariant, PTL
=============================================================================
