--------------------------- MODULE CollectProofs ---------------------------
(***************************************************************************)
(* What holds of the cycle for every set of readers, every content of      *)
(* their sources, every interval and every delay.                          *)
(***************************************************************************)
EXTENDS Collect, FiniteSetTheorems, SequenceTheorems, WellFoundedInduction, TLAPS

-----------------------------------------------------------------------------
(* The cpu reader.                                                         *)

\* The state of the reader is that of the counters it read last, and the samples
\* up to there add up.
CpuInv ==
    /\ CpuTypeOK
    /\ seen.busy <= stat.busy
    /\ prev_busy >= 0 => prev_busy = seen.busy /\ prev_total = Total(seen)
    /\ prev_busy < 0 => accounted = 0 /\ dropped = 0
    /\ BusyAccounted
    /\ PercentExplained

\* Before the first pass nothing is accounted for.
LEMMA CpuInitial == CpuInit => CpuInv
<1> SUFFICES ASSUME CpuInit PROVE CpuInv
  OBVIOUS
<1>1. /\ stat \in Counters /\ seen = stat /\ prev_busy = -1 /\ prev_total = -1
      /\ sample = [busy |-> 0, total |-> 0] /\ first = stat.busy /\ accounted = 0
      /\ dropped = 0 /\ back = FALSE
  BY CpuAssumption DEF CpuInit, NoSample
<1>2. CpuTypeOK /\ seen.busy <= stat.busy
  <2>0. back \in BOOLEAN
    BY <1>1, Zenon
  <2>1. sample \in [busy : Int, total : Nat]
    BY <1>1
  <2>2. /\ stat.busy \in Nat /\ prev_busy \in Int /\ prev_total \in Int
        /\ accounted \in Int /\ dropped \in Int
    BY <1>1 DEF Counters
  <2> QED
    BY <1>1, <2>0, <2>1, <2>2 DEF CpuTypeOK
<1>3. BusyAccounted /\ PercentExplained
  BY <1>1 DEF BusyAccounted, PercentExplained
<1> QED
  BY <1>1, <1>2, <1>3 DEF CpuInv

\* Ticks of the kernel, passes and failing passes keep the account of cpu_read.
LEMMA CpuPreserved == ASSUME CpuInv, CpuNext \/ UNCHANGED cpu PROVE CpuInv'
<1> USE DEF CpuInv, CpuTypeOK, Counters
<1>1. ASSUME NEW a \in Advance, CpuTicks(a) PROVE CpuInv'
  <2>1. a.busy \in Nat /\ a.idle \in Int /\ a.iowait \in Int
    BY CpuAssumption
  <2>2. stat' \in Counters /\ stat.busy <= stat'.busy
    BY <1>1, <2>1 DEF CpuTicks
  <2>3. UNCHANGED <<prev_busy, prev_total, sample, seen, first, accounted, dropped, back>>
    BY <1>1 DEF CpuTicks, cpu_hist
  <2> QED
    BY <2>2, <2>3 DEF BusyAccounted, PercentExplained, Total
<1>2. CASE CpuRead
  <2> DEFINE emits == prev_busy >= 0 /\ Total(stat) - prev_total > 0
  <2>1. /\ Total(stat) \in Nat /\ Quiet(stat) \in Nat /\ Quiet(seen) \in Nat /\ Total(seen) \in Nat
        /\ Total(stat) = stat.busy + Quiet(stat) /\ Total(seen) = seen.busy + Quiet(seen)
    BY DEF Total, Quiet
  <2>2. CASE emits
    <3>1. /\ sample' = [busy |-> stat.busy - prev_busy, total |-> Total(stat) - prev_total]
          /\ prev_busy' = stat.busy /\ prev_total' = Total(stat) /\ stat' = stat /\ seen' = stat
          /\ back' = (Quiet(stat) < Quiet(seen)) /\ first' = first
          /\ accounted' = accounted + (stat.busy - prev_busy) /\ dropped' = dropped
      BY <1>2, <2>1, <2>2 DEF CpuRead, Account
    <3>2. PercentExplained'
      <4>1. CASE Quiet(stat) < Quiet(seen)
        BY <3>1, <4>1 DEF PercentExplained
      <4>2. CASE ~(Quiet(stat) < Quiet(seen))
        <5>1. sample'.busy = stat.busy - seen.busy /\ sample'.total = Total(stat) - Total(seen)
          BY <2>2, <3>1
        <5>2. 0 <= sample'.busy /\ sample'.busy <= sample'.total
          BY <2>1, <4>2, <5>1
        <5> QED
          BY <5>2 DEF PercentExplained
      <4> QED
        BY <4>1, <4>2
    <3>3. BusyAccounted'
      BY <2>2, <3>1 DEF BusyAccounted
    <3> QED
      BY <2>1, <2>2, <3>1, <3>2, <3>3 DEF Total
  <2>3. CASE ~emits
    <3>1. /\ sample' = NoSample
          /\ prev_busy' = stat.busy /\ prev_total' = Total(stat) /\ stat' = stat /\ seen' = stat
          /\ back' = (Quiet(stat) < Quiet(seen))
      BY <1>2, <2>3 DEF CpuRead, Account
    <3>2. CASE prev_busy < 0
      <4>1. first' = stat.busy /\ accounted' = accounted /\ dropped' = dropped
        BY <1>2, <3>2 DEF CpuRead, Account
      <4>2. BusyAccounted' /\ PercentExplained'
        BY <3>1, <3>2, <4>1 DEF NoSample, PercentExplained, BusyAccounted
      <4> QED
        BY <2>1, <3>1, <4>1, <4>2 DEF NoSample, Total
    <3>3. CASE prev_busy >= 0
      <4>1. /\ first' = first /\ accounted' = accounted + 0
            /\ dropped' = dropped + (stat.busy - seen.busy)
        BY <1>2, <3>1, <3>3 DEF CpuRead, Account, NoSample
      <4>2. BusyAccounted' /\ PercentExplained'
        BY <3>1, <3>3, <4>1 DEF NoSample, PercentExplained, BusyAccounted
      <4> QED
        BY <2>1, <3>1, <4>1, <4>2 DEF NoSample, Total
    <3> QED
      BY <3>2, <3>3
  <2> QED
    BY <2>2, <2>3
<1>3. CASE CpuReadFails
  BY <1>3 DEF CpuReadFails, cpu_hist, NoSample, BusyAccounted, PercentExplained, Total
<1>4. CASE UNCHANGED cpu
  BY <1>4 DEF cpu, BusyAccounted, PercentExplained, Total
<1> QED
  BY <1>1, <1>2, <1>3, <1>4 DEF CpuNext

\* A step of the cycle is a step of the cpu reader or leaves it alone.
LEMMA CpuStep == [Next]_vars => CpuNext \/ UNCHANGED cpu
<1> SUFFICES ASSUME [Next]_vars PROVE CpuNext \/ UNCHANGED cpu
  OBVIOUS
<1>1. CASE Read
  BY <1>1 DEF Read, cpu_read, CpuNext
<1>2. CASE \E a \in Advance : Sleep(a)
  BY <1>2 DEF Sleep, CpuNext
<1>3. CASE Begin \/ (\E d \in Delays : Delay(d)) \/ Publish \/ Exit \/ Exited \/ UNCHANGED vars
  BY <1>3 DEF Begin, Delay, Publish, Exit, Exited, vars
<1> QED
  BY <1>1, <1>2, <1>3 DEF Next

\* Hence the account is right throughout the cycles of collect_run.
LEMMA CpuInvariant == Spec => []CpuInv
<1>1. Init => CpuInv
  BY CpuInitial DEF Init
<1>2. CpuInv /\ [Next]_vars => CpuInv'
  BY CpuStep, CpuPreserved
<1> QED
  BY <1>1, <1>2, PTL DEF Spec

\* Whatever passes fail, each tick of busy time is in exactly one sample of the cpu
\* reader, or in an interval in which the counters did not advance.
THEOREM BusyTimeAccounted == Spec => []BusyAccounted
<1>1. CpuInv => BusyAccounted
  BY DEF CpuInv
<1> QED
  BY <1>1, CpuInvariant, PTL

\* The percentage leaves 0..100 only if idle and iowait together went back.
THEOREM PercentInRange == Spec => []PercentExplained
<1>1. CpuInv => PercentExplained
  BY DEF CpuInv
<1> QED
  BY <1>1, CpuInvariant, PTL

-----------------------------------------------------------------------------
(* The heartbeat.                                                          *)

\* How old a file can be: since its update in this cycle only the seconds lost in it
\* have passed, since one in the cycle before also that cycle's and the interval.
Fresh ==
    /\ cpc \in {"read", "sleep"} => \A p \in written : age[p] <= lost
    /\ cpc = "begin" => \A p \in written : age[p] <= Interval + lost
    /\ cpc = "read" => \A p \in written_before : age[p] <= Interval + lost_before + lost

AgeInv ==
    /\ lost \in Nat /\ lost_before \in Nat
    /\ written \subseteq DOMAIN age /\ written_before \subseteq DOMAIN age
    /\ \A p \in DOMAIN age : age[p] \in Nat
    /\ Fresh /\ GapExplained

\* Time makes files older by no more than what passes.
LEMMA AgedBound ==
  ASSUME NEW d \in Nat, \A p \in DOMAIN age : age[p] \in Nat, age' = Aged(d)
  PROVE  /\ DOMAIN age' = DOMAIN age
         /\ \A p \in DOMAIN age : age'[p] \in Nat /\ age'[p] <= age[p] + d
  BY DEF Aged, Old, HEARTBEAT, STEP

\* What emit_cb does to the files, for the set of those it updates.
LEMMA Updated ==
  ASSUME NEW ms, NEW bad, emit_cb(ms, bad)
  PROVE  \E good :
           /\ age' = [p \in DOMAIN age \cup good |-> IF p \in good THEN 0 ELSE age[p]]
           /\ written' = written \cup good
           /\ gaps' = gaps \cup {p \in good \cap DOMAIN age : age[p] > HEARTBEAT}
           /\ written_before' = written_before
  BY DEF emit_cb, Update

\* Readers, delays and sleeps keep the bound on the age of the files updated.
LEMMA AgePreserved == AgeInv /\ [Next]_vars => AgeInv'
<1> SUFFICES ASSUME AgeInv, [Next]_vars PROVE AgeInv'
  OBVIOUS
<1>i. Interval \in Nat
  BY CollectAssumption
<1>1. CASE Begin
  <2>1. /\ cpc = "begin" /\ cpc' = "read" /\ written' = {} /\ written_before' = written
        /\ gaps' = {} /\ lost' = 0 /\ lost_before' = lost /\ age' = age
    BY <1>1 DEF Begin
  <2> QED
    BY <1>i, <2>1 DEF AgeInv, Fresh, GapExplained
<1>2. CASE Read
  <2>1. cpc = "read" /\ cpc' = "read" /\ lost' = lost /\ lost_before' = lost_before
    BY <1>2 DEF Read, clock
  <2>2. PICK ms, bad : emit_cb(ms, bad)
    BY <1>2 DEF Read
  <2>3. PICK good :
           /\ age' = [p \in DOMAIN age \cup good |-> IF p \in good THEN 0 ELSE age[p]]
           /\ written' = written \cup good
           /\ gaps' = gaps \cup {p \in good \cap DOMAIN age : age[p] > HEARTBEAT}
           /\ written_before' = written_before
    BY <2>2, Updated
  <2>4. /\ written' \subseteq DOMAIN age' /\ written_before' \subseteq DOMAIN age'
        /\ \A p \in DOMAIN age' : age'[p] \in Nat
    BY <2>3 DEF AgeInv
  <2>5. Fresh'
    BY <1>i, <2>1, <2>3 DEF AgeInv, Fresh
  <2>6. GapExplained'
    <3> SUFFICES ASSUME NEW p \in gaps', p \in written_before'
                 PROVE  Interval + lost_before' + lost' > 2 * STEP
      BY DEF GapExplained
    <3>1. CASE p \in gaps
      BY <2>1, <2>3, <3>1 DEF AgeInv, GapExplained
    <3>2. CASE p \notin gaps
      BY <1>i, <2>1, <2>3, <3>2 DEF AgeInv, Fresh, HEARTBEAT, STEP
    <3> QED
      BY <3>1, <3>2
  <2> QED
    BY <2>1, <2>4, <2>5, <2>6 DEF AgeInv
<1>3. ASSUME NEW d \in Delays, Delay(d) PROVE AgeInv'
  <2>1. /\ d \in Nat /\ cpc = "read" /\ cpc' = "read" /\ age' = Aged(d) /\ lost' = lost + d
        /\ UNCHANGED <<written, written_before, gaps, lost_before>>
    BY <1>3, CollectAssumption DEF Delay
  <2>2. /\ DOMAIN age' = DOMAIN age
        /\ \A p \in DOMAIN age : age[p] \in Nat /\ age'[p] \in Nat /\ age'[p] <= age[p] + d
    BY <2>1, AgedBound DEF AgeInv
  <2>3. Fresh'
    BY <1>i, <2>1, <2>2 DEF AgeInv, Fresh
  <2>4. GapExplained'
    BY <1>i, <2>1 DEF AgeInv, GapExplained, STEP
  <2> QED
    BY <2>1, <2>2, <2>3, <2>4 DEF AgeInv
<1>4. ASSUME NEW a \in Advance, Sleep(a) PROVE AgeInv'
  <2>1. /\ cpc = "sleep" /\ cpc' = "begin" /\ age' = Aged(Interval)
        /\ UNCHANGED <<written, written_before, gaps, lost, lost_before>>
    BY <1>4 DEF Sleep, clock
  <2>2. /\ DOMAIN age' = DOMAIN age
        /\ \A p \in DOMAIN age : age[p] \in Nat /\ age'[p] \in Nat /\ age'[p] <= age[p] + Interval
    BY <1>i, <2>1, AgedBound DEF AgeInv
  <2>3. Fresh' /\ GapExplained'
    BY <1>i, <2>1, <2>2 DEF AgeInv, Fresh, GapExplained
  <2> QED
    BY <2>1, <2>2, <2>3 DEF AgeInv
<1>5. CASE Publish \/ Exit \/ Exited \/ UNCHANGED vars
  <2>1. /\ UNCHANGED <<age, written, written_before, gaps, lost, lost_before>>
        /\ cpc' \in {cpc, "exited"} \/ (cpc = "read" /\ cpc' = "sleep")
    BY <1>5 DEF Publish, Exit, Exited, vars, files, clock
  <2> QED
    BY <2>1 DEF AgeInv, Fresh, GapExplained
<1> QED
  BY <1>1, <1>2, <1>3, <1>4, <1>5 DEF Next

\* Hence the bound holds throughout.
LEMMA AgeInvariant == Spec => []AgeInv
<1>1. Init => AgeInv
  BY CollectAssumption DEF Init, AgeInv, Fresh, GapExplained
<1> QED
  BY <1>1, AgePreserved, PTL DEF Spec

\* A file that was updated in the cycle before is updated in time for the heartbeat
\* unless interval and lost seconds exceed two steps: for every interval, every
\* reader and every delay.
THEOREM HeartbeatKept == Spec => []GapExplained
<1>1. AgeInv => GapExplained
  BY DEF AgeInv
<1> QED
  BY <1>1, AgeInvariant, PTL

-----------------------------------------------------------------------------
(* Numbers and sequences.                                                  *)

\* A set of numbers that is not empty has a least element.
LEMMA Least ==
  ASSUME NEW T, \A n \in T : n \in Nat, T # {}
  PROVE  \E n \in T : \A j \in T : n <= j
<1> DEFINE R == OpToRel(<, Nat)
<1>1. IsWellFoundedOn(R, Nat)
  BY NatLessThanWellFounded
<1>2. \A a, b \in Nat : a < b => <<a, b>> \in R
  BY DEF OpToRel
<1> HIDE DEF R
<1>3. T \subseteq Nat
  OBVIOUS
<1>4. PICK n \in T : \A j \in T : ~(<<j, n>> \in R)
  BY <1>1, <1>3, WFMin
<1>5. \A j \in T : j \in Nat /\ n \in Nat /\ ~(j < n)
  BY <1>2, <1>4
<1> QED
  BY <1>5

\* P[j] is the first j of the n sequences in p, one after the other.
PutTogether(S, n, p, P) ==
    /\ n \in Nat \ {0} /\ p \in Seq(Seq(S)) /\ Len(p) = n
    /\ P[0] = <<>> /\ \A j \in 1..n : P[j] = P[j - 1] \o p[j]

\* FlattenSeq puts them together.
LEMMA Flat ==
  ASSUME NEW S, NEW n, NEW p, NEW P, PutTogether(S, n, p, P) PROVE FlattenSeq(p) = P[n]
<1> USE DEF PutTogether
<1> DEFINE D(f) == f = [j \in 1..Len(p) |-> IF j = 1 THEN p[j] ELSE f[j-1] \o p[j]]
           g == CHOOSE f : D(f)
<1>1. FlattenSeq(p) = g[n]
  BY DEF FlattenSeq
<1>2. P[1] = p[1]
  <2>0. 1 \in 1..n
    OBVIOUS
  <2>1. P[1] = P[1-1] \o p[1] /\ p[1] \in Seq(S)
    BY <2>0
  <2>2. 1 - 1 = 0
    OBVIOUS
  <2> QED 
    BY <2>1, <2>2, ConcatEmptySeq
<1>3. D([j \in 1..n |-> P[j]])
  <2> DEFINE h == [j \in 1..n |-> P[j]]
  <2>1. \A j \in 1..n : j # 1 => j - 1 \in 1..n
    OBVIOUS
  <2>2. \A j \in 1..n : h[j] = IF j = 1 THEN p[j] ELSE h[j - 1] \o p[j]
    BY <1>2, <2>1
  <2> QED
    BY <2>2
<1>4. D(g)
  BY <1>3
<1> HIDE DEF g
<1>5. \A j \in 1..n : g[j] = IF j = 1 THEN p[j] ELSE g[j - 1] \o p[j]
  BY <1>4
<1> DEFINE T == {j \in 1..n : g[j] # P[j]}
<1>6. ASSUME T # {} PROVE FALSE
  <2>1. \A j \in T : j \in Nat
    OBVIOUS
  <2>2. PICK j \in T : \A l \in T : j <= l
    BY <1>6, <2>1, Least
  <2>3. CASE j = 1
    BY <1>2, <1>5, <2>3
  <2>4. CASE j # 1
    <3>1. j - 1 \in 1..n /\ ~(j <= j - 1)
      BY <2>4
    <3>2. g[j - 1] = P[j - 1]
      BY <2>2, <3>1
    <3> QED
      BY <1>5, <2>4, <3>2
  <2> QED
    BY <2>3, <2>4
<1>7. n \in 1..n /\ n \notin T
  BY <1>6
<1> QED
  BY <1>1, <1>7

\* Counting from the smallest, every number up to the size of a finite set is reached,
\* at one element.
LEMMA NthIs ==
  ASSUME NEW K, IsFiniteSet(K), \A j \in K : j \in Nat
  PROVE  /\ Cardinality(K) \in Nat
         /\ \A k \in 1..Cardinality(K) : Nth(K, k) \in K
         /\ \A a, b \in 1..Cardinality(K) : Nth(K, a) = Nth(K, b) => a = b
<1> DEFINE n == Cardinality(K)
           below(j) == {l \in K : l <= j}
           rank == [j \in K |-> Cardinality(below(j))]
<1>1. n \in Nat
  BY FS_CardinalityType
<1>2. ASSUME NEW j \in K
      PROVE  /\ IsFiniteSet(below(j)) /\ Cardinality(below(j)) \in 1..n
  <2>1. below(j) \in SUBSET K /\ j \in below(j)
    OBVIOUS
  <2> HIDE DEF below
  <2>2. IsFiniteSet(below(j)) /\ Cardinality(below(j)) <= n
    BY <2>1, FS_Subset
  <2>3. Cardinality(below(j)) \in Nat /\ Cardinality(below(j)) # 0
    BY <2>1, <2>2, FS_CardinalityType, FS_EmptySet
  <2> QED
    BY <1>1, <2>2, <2>3
<1>3. ASSUME NEW i1 \in K, NEW j \in K, i1 < j
      PROVE  Cardinality(below(i1)) # Cardinality(below(j))
  <2>1. below(i1) \in SUBSET below(j) /\ j \in below(j) /\ j \notin below(i1)
    BY <1>3
  <2>2. below(i1) # below(j)
    BY <2>1, Zenon
  <2>3. IsFiniteSet(below(j))
    BY <1>2
  <2> HIDE DEF below
  <2> QED
    BY <2>1, <2>2, <2>3, FS_Subset
<1>4. rank \in [K -> 1..n]
  BY <1>2
<1>5. \A a, b \in K : rank[a] = rank[b] => a = b
  <2> SUFFICES ASSUME NEW a \in K, NEW b \in K, a # b PROVE Cardinality(below(a)) # Cardinality(below(b))
    OBVIOUS
  <2>1. a < b \/ b < a
    OBVIOUS
  <2> QED
    BY <1>3, <2>1
<1>6. rank \in Injection(K, 1..n)
  BY <1>4, <1>5 DEF Injection, IsInjective
<1>7. IsFiniteSet(1..n) /\ Cardinality(1..n) = n
  <2>1. 1 \in Int /\ n \in Int
    BY <1>1
  <2>2. IsFiniteSet(1..n) /\ Cardinality(1..n) = IF 1 > n THEN 0 ELSE n - 1 + 1
    BY <2>1, FS_Interval
  <2> QED
    BY <1>1, <2>2
<1> HIDE DEF n, rank
<1>8. rank \in Surjection(K, 1..n)
  BY <1>6, <1>7, FS_Injection DEF n
<1>9. ASSUME NEW k \in 1..n PROVE Nth(K, k) \in K /\ Cardinality({l \in K : l <= Nth(K, k)}) = k
  <2>1. PICK j \in K : rank[j] = k
    BY <1>8 DEF Surjection
  <2>2. Cardinality({l \in K : l <= j}) = k
    BY <2>1 DEF rank
  <2> QED
    BY <2>2 DEF Nth
<1> QED
  BY <1>1, <1>9 DEF n

\* Each turn has its line and its part.
LEMMA TurnsIs ==
  ASSUME NEW K, IsFiniteSet(K), \A j \in K : j \in Nat, NEW n \in {1, 2, 3}
  PROVE  /\ n * Cardinality(K) \in Nat
         /\ \A t \in Turns(n, K) : Place(n, K, t) \in K /\ Part(n, t) \in 1..n
         /\ \A s, t \in Turns(n, K) : Place(n, K, s) = Place(n, K, t) /\ Part(n, s) = Part(n, t) => s = t
<1> DEFINE c == Cardinality(K)
<1>1. /\ c \in Nat
      /\ \A x \in 1..c : Nth(K, x) \in K
      /\ \A a, b \in 1..c : Nth(K, a) = Nth(K, b) => a = b
  BY NthIs
<1> HIDE DEF c
<1>2. n * c \in Nat
  BY <1>1
<1>3. ASSUME NEW t \in 1..(n * c)
      PROVE  (t - 1) \div n + 1 \in 1..c /\ ((t - 1) % n) + 1 \in 1..n
  <2>1. CASE n = 1
    BY <1>1, <2>1
  <2>2. CASE n = 2
    BY <1>1, <2>2
  <2>3. CASE n = 3
    BY <1>1, <2>3
  <2> QED
    BY <2>1, <2>2, <2>3
<1>4. ASSUME NEW s \in 1..(n * c), NEW t \in 1..(n * c),
             (s - 1) \div n + 1 = (t - 1) \div n + 1, ((s - 1) % n) + 1 = ((t - 1) % n) + 1
      PROVE  s = t
  <2>1. CASE n = 1
    BY <1>1, <1>4, <2>1
  <2>2. CASE n = 2
    BY <1>1, <1>4, <2>2
  <2>3. CASE n = 3
    BY <1>1, <1>4, <2>3
  <2> QED
    BY <2>1, <2>2, <2>3
<1>5. Turns(n, K) = 1..(n * c)
  BY DEF Turns, c
<1>6. \A t \in Turns(n, K) : Place(n, K, t) \in K /\ Part(n, t) \in 1..n
  BY <1>1, <1>3, <1>5 DEF Place, Part
<1>7. ASSUME NEW s \in Turns(n, K), NEW t \in Turns(n, K),
             Place(n, K, s) = Place(n, K, t), Part(n, s) = Part(n, t)
      PROVE  s = t
  <2>1. (s - 1) \div n + 1 = (t - 1) \div n + 1
    BY <1>1, <1>3, <1>5, <1>7 DEF Place
  <2> QED
    BY <1>4, <1>5, <1>7, <2>1 DEF Part
<1> QED
  BY <1>2, <1>6, <1>7 DEF c

-----------------------------------------------------------------------------
(* The metrics of a reader.                                                *)

\* A segment begins with its first name, and tells its second part.
LEMMA Segments ==
  ASSUME NEW S, NEW a, NEW b \in Seq(S), NEW c \in Seq(S)
  PROVE  /\ append_seg(a, b)[1] = a
         /\ append_seg(a, b) = append_seg(a, c) => b = c
<1> DEFINE T == S \cup {a, "-"}
           h == <<a, "-">>
<1>1. /\ h \in Seq(T) /\ Len(h) = 2 /\ h[1] = a
      /\ b \in Seq(T) /\ Len(b) \in Nat /\ c \in Seq(T) /\ Len(c) \in Nat
  OBVIOUS
<1> HIDE DEF h, T
<1>2. ASSUME NEW x \in Seq(T)
      PROVE  /\ h \o x \in Seq(T) /\ Len(h \o x) = 2 + Len(x) /\ (h \o x)[1] = a
             /\ \A j \in 1..Len(x) : (h \o x)[j + 2] = x[j]
  <2>1. /\ h \o x \in Seq(T) /\ Len(h \o x) = Len(h) + Len(x)
        /\ \A i1 \in 1..Len(h) + Len(x) : (h \o x)[i1] = IF i1 <= Len(h) THEN h[i1] ELSE x[i1 - Len(h)]
    BY <1>1, ConcatProperties
  <2>2. Len(x) \in Nat
    OBVIOUS
  <2>3. \A j \in 1..Len(x) : j + 2 \in 1..Len(h) + Len(x) /\ ~(j + 2 <= Len(h)) /\ j + 2 - Len(h) = j
    BY <1>1, <2>2
  <2>4. 1 \in 1..Len(h) + Len(x) /\ 1 <= Len(h)
    BY <1>1, <2>2
  <2>5. \A j \in 1..Len(x) : (h \o x)[j + 2] = x[j]
    BY <2>1, <2>3
  <2>6. (h \o x)[1] = a
    BY <1>1, <2>1, <2>4
  <2> QED
    BY <1>1, <2>1, <2>5, <2>6
<1>3. /\ append_seg(a, b) = (IF b = <<>> THEN <<a>> ELSE h \o b)
      /\ append_seg(a, c) = (IF c = <<>> THEN <<a>> ELSE h \o c)
  BY DEF append_seg, h
<1>4. Len(<<a>>) = 1 /\ <<a>>[1] = a
  OBVIOUS
<1>5. append_seg(a, b)[1] = a
  BY <1>1, <1>2, <1>3, <1>4
<1>6. ASSUME append_seg(a, b) = append_seg(a, c) PROVE b = c
  <2>1. CASE b = <<>>
    BY <1>1, <1>2, <1>3, <1>4, <1>6, <2>1
  <2>2. CASE c = <<>>
    BY <1>1, <1>2, <1>3, <1>4, <1>6, <2>2
  <2>3. CASE b # <<>> /\ c # <<>>
    <3>1. h \o b = h \o c
      BY <1>3, <1>6, <2>3
    <3>2. Len(b) = Len(c)
      BY <1>1, <1>2, <3>1
    <3>3. \A j \in 1..Len(b) : b[j] = c[j]
      BY <1>1, <1>2, <3>1, <3>2
    <3> QED
      BY <1>1, <3>2, <3>3, SeqEqual
  <2> QED
    BY <2>1, <2>2, <2>3
<1> QED
  BY <1>5, <1>6

\* What a reader emits: a sequence of its metrics.
OfReader(r, E) ==
    /\ Len(E) \in Nat /\ DOMAIN E = 1..Len(E) /\ E \in Seq({E[t] : t \in 1..Len(E)})
    /\ \A t \in 1..Len(E) : /\ DOMAIN E[t] = {"plugin", "pi", "type", "ti"}
                            /\ metric_to_path(E[t])[1][1] = r

\* No two of them have the same file.
NoTwins(E) == \A s, t \in 1..Len(E) : metric_to_path(E[s]) = metric_to_path(E[t]) => s = t

\* A metric's path.
LEMMA PathIs ==
  ASSUME NEW r, NEW pi, NEW ty, NEW ti
  PROVE  /\ metric_to_path(Metric(r, pi, ty, ti)) = <<append_seg(r, pi), append_seg(ty, ti)>>
         /\ metric_to_path(Metric(r, pi, ty, ti))[1] = append_seg(r, pi)
         /\ metric_to_path(Metric(r, pi, ty, ti))[2] = append_seg(ty, ti)
         /\ DOMAIN Metric(r, pi, ty, ti) = {"plugin", "pi", "type", "ti"}
  BY DEF metric_to_path, Metric

\* What makes a function the output of reader r.
LEMMA OfReaderIs ==
  ASSUME NEW r, NEW E, NEW N \in Nat, E = [t \in 1..N |-> E[t]],
         \A t \in 1..N : \E S, pi, ty, ti : pi \in Seq(S) /\ E[t] = Metric(r, pi, ty, ti)
  PROVE  OfReader(r, E) /\ Len(E) = N
<1> DEFINE M == {E[t] : t \in 1..N}
<1>1. E \in [1..N -> M]
  OBVIOUS
<1>2. E \in Seq(M) /\ Len(E) = N /\ DOMAIN E = 1..N
  <2> HIDE DEF M
  <2> QED
    BY <1>1
<1>3. ASSUME NEW t \in 1..N
      PROVE  /\ DOMAIN E[t] = {"plugin", "pi", "type", "ti"}
             /\ metric_to_path(E[t])[1][1] = r
  <2>1. PICK S, pi, ty, ti : pi \in Seq(S) /\ E[t] = Metric(r, pi, ty, ti)
    OBVIOUS
  <2>2. append_seg(r, pi)[1] = r
    BY <2>1, Segments
  <2> QED
    BY <2>1, <2>2, PathIs
<1> QED
  BY <1>2, <1>3 DEF OfReader

\* Names of one part are told.
LEMMA OneName ==
  ASSUME NEW a, NEW x, NEW y, append_seg(a, <<x>>) = append_seg(a, <<y>>) PROVE x = y
<1> DEFINE b == <<x>>
           c == <<y>>
<1>1. b \in Seq({x, y}) /\ c \in Seq({x, y}) /\ append_seg(a, b) = append_seg(a, c)
  OBVIOUS
<1> HIDE DEF b, c
<1>2. b = c
  BY <1>1, Segments
<1> QED
  BY <1>2 DEF b, c

\* A reader that has nothing to emit.
LEMMA NoneEmitted ==
  ASSUME NEW r, NEW E, E = <<>> PROVE OfReader(r, E) /\ NoTwins(E)
<1>1. Len(E) = 0 /\ DOMAIN E = 1..0 /\ \A S : E \in Seq(S)
  OBVIOUS
<1>2. \A t \in 1..0 : FALSE
  OBVIOUS
<1>3. OfReader(r, E)
  BY <1>1, <1>2 DEF OfReader
<1>4. NoTwins(E)
  BY <1>1, <1>2 DEF NoTwins
<1> QED
  BY <1>3, <1>4

\* Metrics of one plugin instance and one type, with different type instances.
Alike(r, E, N, S, pi, ty, ti) ==
    /\ N \in Nat /\ E = [t \in 1..N |-> E[t]] /\ pi \in Seq(S)
    /\ \A t \in 1..N : E[t] = Metric(r, pi, ty, ti[t])
    /\ \A s, t \in 1..N : append_seg(ty, ti[s]) = append_seg(ty, ti[t]) => s = t

\* A reader that emits such metrics.
LEMMA FewEmitted ==
  ASSUME NEW r, NEW E, NEW N, NEW S, NEW pi, NEW ty, NEW ti, Alike(r, E, N, S, pi, ty, ti)
  PROVE  OfReader(r, E) /\ NoTwins(E)
<1> USE DEF Alike
<1>1. \A t \in 1..N : \E S1, pi1, ty1, ti1 : pi1 \in Seq(S1) /\ E[t] = Metric(r, pi1, ty1, ti1)
  OBVIOUS
<1>2. OfReader(r, E) /\ Len(E) = N
  BY <1>1, OfReaderIs
<1>3. ASSUME NEW s \in 1..N, NEW t \in 1..N, metric_to_path(E[s]) = metric_to_path(E[t]) PROVE s = t
  <2>1. append_seg(ty, ti[s]) = append_seg(ty, ti[t])
    BY <1>3, PathIs
  <2> QED
    BY <2>1
<1> QED
  BY <1>2, <1>3 DEF NoTwins

\* A reader that emits one metric.
LEMMA OneEmitted ==
  ASSUME NEW r, NEW S, NEW pi \in Seq(S), NEW ty, NEW ti, NEW E, E = <<Metric(r, pi, ty, ti)>>
  PROVE  OfReader(r, E) /\ NoTwins(E)
<1> DEFINE tis == [t \in 1..1 |-> ti]
<1>1. E = [t \in 1..1 |-> E[t]] /\ E[1] = Metric(r, pi, ty, ti) /\ tis[1] = ti
  OBVIOUS
<1>2. \A t \in 1..1 : t = 1
  OBVIOUS
<1>3. \A t \in 1..1 : E[t] = Metric(r, pi, ty, tis[t])
  BY <1>1, <1>2
<1> HIDE DEF tis
<1>4. \A s, t \in 1..1 : append_seg(ty, tis[s]) = append_seg(ty, tis[t]) => s = t
  BY <1>2
<1> DEFINE N == 1
<1>5. /\ N \in Nat /\ E = [t \in 1..N |-> E[t]]
      /\ \A t \in 1..N : E[t] = Metric(r, pi, ty, tis[t])
      /\ \A s, t \in 1..N : append_seg(ty, tis[s]) = append_seg(ty, tis[t]) => s = t
  BY <1>1, <1>3, <1>4
<1> HIDE DEF N
<1>6. Alike(r, E, N, S, pi, ty, tis)
  BY <1>5 DEF Alike
<1> QED
  BY <1>6, FewEmitted

\* n metrics for each line of K, with a name of its own, and types that tell the parts.
PerLine(r, E, n, K, name, ty, ti) ==
    /\ IsFiniteSet(K) /\ (\A j \in K : j \in Nat) /\ n \in {1, 2, 3}
    /\ E = [t \in Turns(n, K) |-> E[t]]
    /\ \A t \in Turns(n, K) : E[t] = Metric(r, <<name[Place(n, K, t)]>>, ty[t], ti[t])
    /\ \A j, l \in K : name[j] = name[l] => j = l
    /\ \A s, t \in Turns(n, K) :
         append_seg(ty[s], ti[s]) = append_seg(ty[t], ti[t]) => Part(n, s) = Part(n, t) \/ n = 1

\* A reader that emits such metrics.
LEMMA LinesEmitted ==
  ASSUME NEW r, NEW E, NEW n, NEW K, NEW name, NEW ty, NEW ti, PerLine(r, E, n, K, name, ty, ti)
  PROVE  OfReader(r, E) /\ NoTwins(E)
<1> USE DEF PerLine
<1> DEFINE N == n * Cardinality(K)
<1>1. /\ N \in Nat /\ Turns(n, K) = 1..N
      /\ \A t \in Turns(n, K) : Place(n, K, t) \in K /\ Part(n, t) \in 1..n
      /\ \A s, t \in Turns(n, K) : Place(n, K, s) = Place(n, K, t) /\ Part(n, s) = Part(n, t) => s = t
  BY TurnsIs DEF Turns
<1> HIDE DEF N
<1>2. \A t \in 1..N : \E S1, pi1, ty1, ti1 : pi1 \in Seq(S1) /\ E[t] = Metric(r, pi1, ty1, ti1)
  <2> SUFFICES ASSUME NEW t \in 1..N
               PROVE  \E S1, pi1, ty1, ti1 : pi1 \in Seq(S1) /\ E[t] = Metric(r, pi1, ty1, ti1)
    OBVIOUS
  <2> DEFINE x == name[Place(n, K, t)]
             b == <<x>>
             a == ty[t]
             d == ti[t]
  <2>1. b \in Seq({x})
    OBVIOUS
  <2>2. E[t] = Metric(r, b, a, d)
    BY <1>1
  <2> HIDE DEF x, b, a, d
  <2> QED
    BY <2>1, <2>2
<1>3. OfReader(r, E) /\ Len(E) = N
  BY <1>1, <1>2, OfReaderIs
<1>4. ASSUME NEW s \in 1..N, NEW t \in 1..N, metric_to_path(E[s]) = metric_to_path(E[t]) PROVE s = t
  <2>1. /\ append_seg(r, <<name[Place(n, K, s)]>>) = append_seg(r, <<name[Place(n, K, t)]>>)
        /\ append_seg(ty[s], ti[s]) = append_seg(ty[t], ti[t])
    BY <1>1, <1>4, PathIs
  <2>2. name[Place(n, K, s)] = name[Place(n, K, t)]
    BY <2>1, OneName
  <2>3. Place(n, K, s) = Place(n, K, t)
    BY <1>1, <2>2
  <2>4. Part(n, s) = Part(n, t)
    <3>1. CASE n = 1
      BY <1>1, <3>1
    <3>2. CASE n # 1
      BY <1>1, <2>1, <3>2
    <3> QED
      BY <3>1, <3>2
  <2> QED
    BY <1>1, <2>3, <2>4
<1> QED
  BY <1>3, <1>4 DEF NoTwins

\* The readers that emit a few metrics or none.
LEMMA FewReaders ==
  ASSUME NEW c
  PROVE  /\ OfReader("memory", memory_read(c)) /\ NoTwins(memory_read(c))
         /\ OfReader("swap", swap_read(c)) /\ NoTwins(swap_read(c))
         /\ OfReader("load", load_read(c)) /\ NoTwins(load_read(c))
         /\ OfReader("uptime", uptime_read(c)) /\ NoTwins(uptime_read(c))
<1>0. <<>> \in Seq({})
  OBVIOUS
<1>1. OfReader("memory", memory_read(c)) /\ NoTwins(memory_read(c))
  <2> DEFINE names == <<"used", "cached", "buffered">>
             ti == [k \in 1..3 |-> <<names[k]>>]
             E == [k \in 1..3 |-> Metric("memory", <<>>, "percent", <<names[k]>>)]
  <2>1. memory_read(c) = <<>> \/ memory_read(c) = E
    BY DEF memory_read
  <2>2. E = [t \in 1..3 |-> E[t]] /\ \A t \in 1..3 : E[t] = Metric("memory", <<>>, "percent", ti[t])
    OBVIOUS
  <2>3. \A j, k \in 1..3 : names[j] = names[k] => j = k
    OBVIOUS
  <2>4. \A j, k \in 1..3 : append_seg("percent", ti[j]) = append_seg("percent", ti[k]) => j = k
    <3> HIDE DEF names
    <3> QED
      BY <2>3, OneName
  <2> HIDE DEF E, ti
  <2>5. OfReader("memory", E) /\ NoTwins(E)
    <3> DEFINE b == <<>>
           N == 3
           ty == "percent"
    <3>1. b \in Seq({}) /\ N \in Nat
      OBVIOUS
    <3>2. /\ E = [t \in 1..N |-> E[t]] /\ \A t \in 1..N : E[t] = Metric("memory", b, ty, ti[t])
          /\ \A j, k \in 1..N : append_seg(ty, ti[j]) = append_seg(ty, ti[k]) => j = k
      BY <2>2, <2>4
    <3> HIDE DEF b, N, ty
    <3>3. Alike("memory", E, N, {}, b, ty, ti)
      BY <3>1, <3>2 DEF Alike
    <3> QED
      BY <3>3, FewEmitted
  <2> QED
    BY <2>1, <2>5, NoneEmitted
<1>2. OfReader("swap", swap_read(c)) /\ NoTwins(swap_read(c))
  <2> DEFINE names == <<"used", "free">>
             ti == [k \in 1..2 |-> <<names[k]>>]
             E == [k \in 1..2 |-> Metric("swap", <<>>, "swap", <<names[k]>>)]
  <2>1. swap_read(c) = <<>> \/ swap_read(c) = E
    BY DEF swap_read
  <2>2. E = [t \in 1..2 |-> E[t]] /\ \A t \in 1..2 : E[t] = Metric("swap", <<>>, "swap", ti[t])
    OBVIOUS
  <2>3. \A j, k \in 1..2 : names[j] = names[k] => j = k
    OBVIOUS
  <2>4. \A j, k \in 1..2 : append_seg("swap", ti[j]) = append_seg("swap", ti[k]) => j = k
    <3> HIDE DEF names
    <3> QED
      BY <2>3, OneName
  <2> HIDE DEF E, ti
  <2>5. OfReader("swap", E) /\ NoTwins(E)
    <3> DEFINE b == <<>>
           N == 2
           ty == "swap"
    <3>1. b \in Seq({}) /\ N \in Nat
      OBVIOUS
    <3>2. /\ E = [t \in 1..N |-> E[t]] /\ \A t \in 1..N : E[t] = Metric("swap", b, ty, ti[t])
          /\ \A j, k \in 1..N : append_seg(ty, ti[j]) = append_seg(ty, ti[k]) => j = k
      BY <2>2, <2>4
    <3> HIDE DEF b, N, ty
    <3>3. Alike("swap", E, N, {}, b, ty, ti)
      BY <3>1, <3>2 DEF Alike
    <3> QED
      BY <3>3, FewEmitted
  <2> QED
    BY <2>1, <2>5, NoneEmitted
<1>3. OfReader("load", load_read(c)) /\ NoTwins(load_read(c))
  <2>1. load_read(c) = <<>> \/ load_read(c) = <<Metric("load", <<>>, "load", <<>>)>>
    BY DEF load_read
  <2> QED
    BY <1>0, <2>1, NoneEmitted, OneEmitted
<1>4. OfReader("uptime", uptime_read(c)) /\ NoTwins(uptime_read(c))
  <2>1. uptime_read(c) = <<>> \/ uptime_read(c) = <<Metric("uptime", <<>>, "uptime", <<>>)>>
    BY DEF uptime_read
  <2> QED
    BY <1>0, <2>1, NoneEmitted, OneEmitted
<1> QED
  BY <1>1, <1>2, <1>3, <1>4

\* The lines of a file are finitely many.
LEMMA FewLines ==
  ASSUME NEW N \in Nat, NEW K \in SUBSET (1..N)
  PROVE  IsFiniteSet(K) /\ \A j \in K : j \in Nat
<1>1. IsFiniteSet(1..N)
  BY FS_Interval
<1>2. IsFiniteSet(K)
  BY <1>1, FS_Subset
<1>3. \A j \in K : j \in Nat
  OBVIOUS
<1> QED
  BY <1>2, <1>3

\* Three metrics of different types for each line.
Triples(r, E, K, name, types) ==
    /\ IsFiniteSet(K) /\ \A j \in K : j \in Nat
    /\ \A j, l \in K : name[j] = name[l] => j = l
    /\ \A a, b \in 1..3 : types[a] = types[b] => a = b
    /\ E = [t \in Turns(3, K) |-> Metric(r, <<name[Place(3, K, t)]>>, types[Part(3, t)], <<>>)]

\* A reader that emits such metrics.
LEMMA ThreeTypes ==
  ASSUME NEW r, NEW E, NEW K, NEW name, NEW types, Triples(r, E, K, name, types)
  PROVE  OfReader(r, E) /\ NoTwins(E)
<1> USE DEF Triples
<1> DEFINE ty == [t \in Turns(3, K) |-> types[Part(3, t)]]
           ti == [t \in Turns(3, K) |-> <<>>]
<1>1. E = [t \in Turns(3, K) |-> E[t]]
  OBVIOUS
<1>2. \A t \in Turns(3, K) : E[t] = Metric(r, <<name[Place(3, K, t)]>>, ty[t], ti[t])
  OBVIOUS
<1>3. 3 \in {1, 2, 3} /\ \A t \in Turns(3, K) : Part(3, t) \in 1..3
  BY TurnsIs
<1>4. ASSUME NEW s \in Turns(3, K), NEW t \in Turns(3, K),
             append_seg(ty[s], ti[s]) = append_seg(ty[t], ti[t])
      PROVE  Part(3, s) = Part(3, t)
  <2>1. <<types[Part(3, s)]>> = <<types[Part(3, t)]>>
    BY <1>4 DEF append_seg
  <2>2. <<types[Part(3, s)]>>[1] = <<types[Part(3, t)]>>[1]
    BY <2>1
  <2> QED
    BY <1>3, <2>2
<1> HIDE DEF ty, ti
<1>5. PerLine(r, E, 3, K, name, ty, ti)
  BY <1>1, <1>2, <1>3, <1>4 DEF PerLine
<1> QED
  BY <1>5, LinesEmitted

\* interface.c: a file for each interface and type.
LEMMA InterfaceMetrics ==
  ASSUME "interface" \in Readers, NEW c \in Contents("interface")
  PROVE  OfReader("interface", interface_read(c)) /\ NoTwins(interface_read(c))
<1> DEFINE K == InterfaceLines(c)
           name == [j \in K |-> c.lines[j].iface]
           types == <<"if_octets", "if_packets", "if_errors">>
           E == [t \in Turns(3, K) |->
                   Metric("interface", <<name[Place(3, K, t)]>>, types[Part(3, t)], <<>>)]
<1>1. Len(c.lines) \in Nat /\ \A j, l \in K : name[j] = name[l] => j = l
  BY SourcesAssumption
<1>2. K \in SUBSET (1..Len(c.lines))
  BY <1>1 DEF InterfaceLines
<1> HIDE DEF K
<1>3. IsFiniteSet(K) /\ \A j \in K : j \in Nat
  BY <1>1, <1>2, FewLines
<1>4. \A a, b \in 1..3 : types[a] = types[b] => a = b
  OBVIOUS
<1>5. \A t \in Turns(3, K) : Place(3, K, t) \in K
  BY <1>3, TurnsIs
<1>6. interface_read(c) = <<>> \/ interface_read(c) = E
  BY <1>5 DEF interface_read, K
<1> HIDE DEF name, types
<1>7. Triples("interface", E, K, name, types)
  BY <1>1, <1>3, <1>4 DEF Triples
<1> HIDE DEF E
<1> QED
  BY <1>6, <1>7, ThreeTypes, NoneEmitted

\* disk.c: a file for each disk and type.
LEMMA DiskMetrics ==
  ASSUME "disk" \in Readers, NEW c \in Contents("disk")
  PROVE  OfReader("disk", disk_read(c)) /\ NoTwins(disk_read(c))
<1> DEFINE K == DiskLines(c)
           name == [j \in K |-> c.lines[j].name]
           types == <<"disk_ops", "disk_octets", "disk_time">>
           E == [t \in Turns(3, K) |->
                   Metric("disk", <<name[Place(3, K, t)]>>, types[Part(3, t)], <<>>)]
<1>1. Len(c.lines) \in Nat /\ \A j, l \in K : name[j] = name[l] => j = l
  BY SourcesAssumption
<1>2. K \in SUBSET (1..Len(c.lines))
  BY <1>1 DEF DiskLines
<1> HIDE DEF K
<1>3. IsFiniteSet(K) /\ \A j \in K : j \in Nat
  BY <1>1, <1>2, FewLines
<1>4. \A a, b \in 1..3 : types[a] = types[b] => a = b
  OBVIOUS
<1>5. \A t \in Turns(3, K) : Place(3, K, t) \in K
  BY <1>3, TurnsIs
<1>6. disk_read(c) = <<>> \/ disk_read(c) = E
  BY <1>5 DEF disk_read, K
<1> HIDE DEF name, types
<1>7. Triples("disk", E, K, name, types)
  BY <1>1, <1>3, <1>4 DEF Triples
<1> HIDE DEF E
<1> QED
  BY <1>6, <1>7, ThreeTypes, NoneEmitted

\* processes.c: a file for each name and type.
LEMMA ProcessMetrics ==
  ASSUME "processes" \in Readers, NEW c \in Contents("processes")
  PROVE  OfReader("processes", processes_read(c)) /\ NoTwins(processes_read(c))
<1> DEFINE K == 1..Len(c.lines)
           name == [j \in K |-> c.lines[j].comm]
           types == <<"ps_rss", "ps_cputime", "ps_count">>
           E == [t \in Turns(3, K) |->
                   Metric("processes", <<name[Place(3, K, t)]>>, types[Part(3, t)], <<>>)]
<1>1. Len(c.lines) \in Nat /\ \A j, l \in K : name[j] = name[l] => j = l
  BY SourcesAssumption
<1>2. K \in SUBSET (1..Len(c.lines))
  BY <1>1
<1> HIDE DEF K
<1>3. IsFiniteSet(K) /\ \A j \in K : j \in Nat
  BY <1>1, <1>2, FewLines
<1>4. \A a, b \in 1..3 : types[a] = types[b] => a = b
  OBVIOUS
<1>5. \A t \in Turns(3, K) : Place(3, K, t) \in K
  BY <1>3, TurnsIs
<1>6. processes_read(c) = <<>> \/ processes_read(c) = E
  BY <1>5 DEF processes_read, K
<1> HIDE DEF name, types
<1>7. Triples("processes", E, K, name, types)
  BY <1>1, <1>3, <1>4 DEF Triples
<1> HIDE DEF E
<1> QED
  BY <1>6, <1>7, ThreeTypes, NoneEmitted

\* thermal.c: a directory for each zone.
LEMMA ThermalMetrics ==
  ASSUME "thermal" \in Readers, NEW c \in Contents("thermal")
  PROVE  OfReader("thermal", thermal_read(c)) /\ NoTwins(thermal_read(c))
<1> DEFINE K == ZoneLines(c)
           name == [j \in K |-> c.lines[j].name]
           ty == [t \in Turns(1, K) |-> "temperature"]
           ti == [t \in Turns(1, K) |-> c.lines[Place(1, K, t)].type]
           E == [t \in Turns(1, K) |-> Metric("thermal", <<name[Place(1, K, t)]>>, ty[t], ti[t])]
<1>1. Len(c.lines) \in Nat /\ \A j, l \in K : name[j] = name[l] => j = l
  BY SourcesAssumption
<1>2. K \in SUBSET (1..Len(c.lines))
  BY <1>1 DEF ZoneLines
<1> HIDE DEF K
<1>3. IsFiniteSet(K) /\ \A j \in K : j \in Nat
  BY <1>1, <1>2, FewLines
<1>5. \A t \in Turns(1, K) : Place(1, K, t) \in K
  BY <1>3, TurnsIs
<1>6. thermal_read(c) = <<>> \/ thermal_read(c) = E
  BY <1>5 DEF thermal_read, K
<1>7. E = [t \in Turns(1, K) |-> E[t]]
  OBVIOUS
<1> HIDE DEF name, ty, ti
<1>8. PerLine("thermal", E, 1, K, name, ty, ti)
  BY <1>1, <1>3, <1>7 DEF PerLine
<1> HIDE DEF E
<1> QED
  BY <1>6, <1>8, LinesEmitted, NoneEmitted

\* tcpconns.c: a file for each state.
LEMMA TcpMetrics ==
  ASSUME NEW a, NEW b
  PROVE  OfReader("tcpconns", tcpconns_read(a, b)) /\ NoTwins(tcpconns_read(a, b))
<1> DEFINE K == States(a, b)
           N == Cardinality(K)
           ti == [t \in 1..N |-> <<TCP_STATE_NAMES[Place(1, K, t)]>>]
           none == <<>>
           E == [t \in 1..N |-> Metric("tcpconns", none, "tcp_connections", ti[t])]
<1>1. K \in SUBSET (1..11)
  <2>1. Len(TCP_STATE_NAMES) = 11
    BY DEF TCP_STATE_NAMES
  <2> QED
    BY <2>1 DEF States
<1> HIDE DEF K
<1>2. 11 \in Nat
  OBVIOUS
<1>3. IsFiniteSet(K) /\ \A j \in K : j \in Nat
  BY <1>1, <1>2, FewLines
<1>4. /\ N \in Nat /\ Turns(1, K) = 1..N
      /\ \A t \in 1..N : Place(1, K, t) \in K
      /\ \A s, t \in 1..N : Place(1, K, s) = Place(1, K, t) => s = t
  <2>1. 1 * Cardinality(K) = Cardinality(K) /\ Cardinality(K) \in Nat
    BY <1>3, FS_CardinalityType
  <2>2. Turns(1, K) = 1..N
    BY <2>1 DEF Turns
  <2>3. /\ \A t \in Turns(1, K) : Place(1, K, t) \in K /\ Part(1, t) \in 1..1
        /\ \A s, t \in Turns(1, K) : Place(1, K, s) = Place(1, K, t) /\ Part(1, s) = Part(1, t) => s = t
    BY <1>3, TurnsIs
  <2>4. \A s, t \in 1..1 : s = t
    OBVIOUS
  <2> HIDE DEF N
  <2> QED
    BY <2>1, <2>2, <2>3, <2>4 DEF N
<1>5. \A j, k \in 1..11 : TCP_STATE_NAMES[j] = TCP_STATE_NAMES[k] => j = k
  BY SMTT(60) DEF TCP_STATE_NAMES
<1>6. tcpconns_read(a, b) = E
  BY <1>4 DEF tcpconns_read, K
<1> HIDE DEF N
<1>7. ASSUME NEW s \in 1..N, NEW t \in 1..N,
             append_seg("tcp_connections", ti[s]) = append_seg("tcp_connections", ti[t])
      PROVE  s = t
  <2>1. TCP_STATE_NAMES[Place(1, K, s)] = TCP_STATE_NAMES[Place(1, K, t)]
    BY <1>7, OneName
  <2> QED
    BY <1>1, <1>4, <1>5, <2>1
<1>8. none \in Seq({}) /\ E = [t \in 1..N |-> E[t]]
  OBVIOUS
<1> HIDE DEF none, ti
<1>9. Alike("tcpconns", E, N, {}, none, "tcp_connections", ti)
  BY <1>4, <1>7, <1>8 DEF Alike
<1> HIDE DEF E
<1> QED
  BY <1>6, <1>9, FewEmitted

\* The mount points of absolute names.
Absolute(m) == m \in Seq(STRING) /\ m # <<>> /\ m[1] = "/"

\* The instance of an absolute mount point.
LEMMA InstanceIs ==
  ASSUME NEW m, Absolute(m)
  PROVE  /\ Len(m) \in Nat \ {0}
         /\ Len(m) = 1 => mount_to_instance(m) = <<"root">>
         /\ Len(m) > 1 => mount_to_instance(m) =
              [k \in 1..(Len(m) - 1) |-> IF m[k + 1] = "/" THEN "-" ELSE m[k + 1]]
         /\ mount_to_instance(m) \in Seq(STRING \cup {"-", "root"})
<1> DEFINE s == Tail(m)
           f == [k \in 1..(Len(m) - 1) |-> IF m[k + 1] = "/" THEN "-" ELSE m[k + 1]]
           T == STRING \cup {"-", "root"}
<1>1. m \in Seq(STRING) /\ m # <<>> /\ m[1] = "/" /\ Len(m) \in Nat \ {0}
  BY EmptySeq DEF Absolute
<1>2. s \in Seq(STRING) /\ Len(s) = Len(m) - 1 /\ \A k \in 1..Len(s) : s[k] = m[k + 1]
  BY <1>1
<1>3. s = <<>> <=> Len(m) = 1
  <2> HIDE DEF s
  <2>1. s = <<>> <=> Len(s) = 0
    BY <1>2, EmptySeq
  <2> QED
    BY <1>1, <1>2, <2>1
<1>4. mount_to_instance(m) =
        IF s = <<>> THEN <<"root">>
        ELSE [k \in 1..Len(s) |-> IF s[k] = "/" THEN "-" ELSE s[k]]
  BY <1>1 DEF mount_to_instance
<1>5. [k \in 1..Len(s) |-> IF s[k] = "/" THEN "-" ELSE s[k]] = f
  <2> HIDE DEF s
  <2> QED
    BY <1>2
<1>6. f \in [1..(Len(m) - 1) -> T]
  <2>1. \A k \in 1..(Len(m) - 1) : m[k + 1] \in STRING
    BY <1>1
  <2> QED
    BY <2>1
<1> HIDE DEF s
<1>7. f \in Seq(T)
  <2>1. Len(m) - 1 \in Nat
    BY <1>1
  <2> HIDE DEF f, T
  <2> QED
    BY <1>6, <2>1
<1>8. <<"root">> \in Seq(T)
  OBVIOUS
<1> HIDE DEF f, T
<1>9. mount_to_instance(m) = (IF Len(m) = 1 THEN <<"root">> ELSE f)
  BY <1>3, <1>4, <1>5
<1> QED
  BY <1>1, <1>7, <1>8, <1>9 DEF f, T

\* Mount points of one instance are the ones the property names.
LEMMA InstanceTells ==
  ASSUME NEW a, NEW b, Absolute(a), Absolute(b), mount_to_instance(a) = mount_to_instance(b)
  PROVE  SameInstance(a, b)
<1> DEFINE g(m) == [k \in 1..(Len(m) - 1) |-> IF m[k + 1] = "/" THEN "-" ELSE m[k + 1]]
<1>1. /\ Len(a) \in Nat \ {0} /\ Len(b) \in Nat \ {0}
      /\ Len(a) = 1 => mount_to_instance(a) = <<"root">>
      /\ Len(a) > 1 => mount_to_instance(a) = g(a)
      /\ Len(b) = 1 => mount_to_instance(b) = <<"root">>
      /\ Len(b) > 1 => mount_to_instance(b) = g(b)
  BY InstanceIs
<1>2. a \in Seq(STRING) /\ a[1] = "/" /\ b \in Seq(STRING) /\ b[1] = "/"
  BY DEF Absolute
<1>3. ASSUME NEW x, NEW y, x \in Seq(STRING), y \in Seq(STRING), x[1] = "/", y[1] = "/",
             Len(x) = 1, Len(y) \in Nat, Len(y) > 1, g(y) = <<"root">>
      PROVE  {x, y} = {<<"/">>, <<"/", "root">>}
  <2>1. DOMAIN g(y) = 1..(Len(y) - 1) /\ DOMAIN <<"root">> = 1..1
    OBVIOUS
  <2>2. Len(y) = 2
    <3>1. 1..(Len(y) - 1) = 1..1
      BY <1>3, <2>1
    <3>2. Len(y) - 1 \in 1..(Len(y) - 1)
      BY <1>3
    <3>3. Len(y) - 1 \in 1..1
      BY <3>1, <3>2, Zenon
    <3>4. Len(y) \in Nat
      BY <1>3
    <3> QED
      BY <3>3, <3>4
  <2>3. 1 \in 1..(Len(y) - 1) /\ g(y)[1] = "root"
    BY <1>3, <2>2
  <2>4. y[2] = "root"
    BY <2>3
  <2>5. y = <<"/", "root">>
    BY <1>3, <2>2, <2>4
  <2>6. x = <<"/">>
    BY <1>3
  <2> QED
    BY <2>5, <2>6, Zenon
<1>4. CASE Len(a) = 1 /\ Len(b) = 1
  BY <1>1, <1>2, <1>4 DEF SameInstance
<1>5. CASE Len(a) = 1 /\ Len(b) > 1
  <2>1. g(b) = <<"root">>
    BY <1>1, <1>5
  <2> HIDE DEF g
  <2>2. {a, b} = {<<"/">>, <<"/", "root">>}
    BY <1>1, <1>2, <1>3, <1>5, <2>1
  <2> QED
    BY <2>2 DEF SameInstance
<1>6. CASE Len(b) = 1 /\ Len(a) > 1
  <2>1. g(a) = <<"root">>
    BY <1>1, <1>6
  <2> HIDE DEF g
  <2>2. {b, a} = {<<"/">>, <<"/", "root">>}
    BY <1>1, <1>2, <1>3, <1>6, <2>1
  <2>3. {a, b} = {b, a}
    OBVIOUS
  <2> QED
    BY <2>2, <2>3 DEF SameInstance
<1>7. CASE Len(a) > 1 /\ Len(b) > 1
  <2>1. g(a) = g(b)
    BY <1>1, <1>7
  <2>2. DOMAIN g(a) = 1..(Len(a) - 1) /\ DOMAIN g(b) = 1..(Len(b) - 1)
    OBVIOUS
  <2>3. Len(a) = Len(b)
    <3>1. 1..(Len(a) - 1) = 1..(Len(b) - 1)
      BY <2>1, <2>2
    <3> QED
      BY <1>1, <1>7, <3>1
  <2>4. ASSUME NEW k \in 1..Len(a) PROVE a[k] = b[k] \/ (k > 1 /\ {a[k], b[k]} = {"/", "-"})
    <3>1. CASE k = 1
      BY <1>2, <3>1
    <3>2. CASE k > 1
      <4>1. k - 1 \in 1..(Len(a) - 1) /\ (k - 1) + 1 = k
        BY <1>1, <3>2
      <4>2. g(a)[k - 1] = g(b)[k - 1]
        BY <2>1
      <4>3. (IF a[k] = "/" THEN "-" ELSE a[k]) = (IF b[k] = "/" THEN "-" ELSE b[k])
        BY <2>3, <4>1, <4>2
      <4>4. a[k] = b[k] \/ (a[k] = "/" /\ b[k] = "-") \/ (a[k] = "-" /\ b[k] = "/")
        BY <4>3
      <4>5. {a[k], b[k]} = {"/", "-"} \/ a[k] = b[k]
        BY <4>4
      <4> QED
        BY <3>2, <4>5
    <3>3. k = 1 \/ k > 1
      BY <1>1
    <3> QED
      BY <3>1, <3>2, <3>3, Zenon
  <2> QED
    BY <2>3, <2>4, Zenon DEF SameInstance
<1>8. (Len(a) = 1 \/ Len(a) > 1) /\ (Len(b) = 1 \/ Len(b) > 1)
  <2>1. Len(a) \in Nat \ {0} /\ Len(b) \in Nat \ {0}
    BY <1>1, Zenon
  <2>2. \A x \in Nat \ {0} : x = 1 \/ x > 1
    OBVIOUS
  <2> QED
    BY <2>1, <2>2, Zenon
<1> QED
  BY <1>4, <1>5, <1>6, <1>7, <1>8, Zenon

\* Two mounts df.c cannot tell apart.
Twins(c) ==
    \E j, k \in 1..Len(c.lines) :
       /\ j # k /\ Mounted(c.lines[j]) /\ Mounted(c.lines[k])
       /\ SameInstance(c.lines[j].mount, c.lines[k].mount)

\* df.c: two metrics with the same file are of two such mounts.
LEMMA DfMetrics ==
  ASSUME "df" \in Readers, NEW c \in Contents("df")
  PROVE  OfReader("df", df_read(c)) /\ (NoTwins(df_read(c)) \/ Twins(c))
<1> DEFINE K == MountLines(c)
           N == 2 * Cardinality(K)
           words == <<"used", "free">>
           line(t) == c.lines[Place(2, K, t)]
           E == [t \in 1..N |-> Metric("df", mount_to_instance(line(t).mount), "df_complex",
                                       <<words[Part(2, t)]>>)]
<1>1. Len(c.lines) \in Nat /\ \A j \in K : Absolute(c.lines[j].mount)
  BY SourcesAssumption DEF Absolute
<1>2. K \in SUBSET (1..Len(c.lines)) /\ \A j \in K : Mounted(c.lines[j])
  BY <1>1 DEF MountLines
<1> HIDE DEF K
<1>3. IsFiniteSet(K) /\ \A j \in K : j \in Nat
  BY <1>1, <1>2, FewLines
<1>4. /\ N \in Nat /\ Turns(2, K) = 1..N
      /\ \A t \in 1..N : Place(2, K, t) \in K /\ Part(2, t) \in 1..2
      /\ \A s, t \in 1..N : Place(2, K, s) = Place(2, K, t) /\ Part(2, s) = Part(2, t) => s = t
  BY <1>3, TurnsIs DEF Turns
<1>5. df_read(c) = <<>> \/ df_read(c) = E
  <2>1. [t \in Turns(2, K) |-> Metric("df", mount_to_instance(line(t).mount), "df_complex",
                                      <<words[Part(2, t)]>>)] = E
    BY <1>4
  <2> QED
    BY <2>1 DEF df_read, K
<1> HIDE DEF N
<1>6. \A t \in 1..N : Absolute(line(t).mount) /\ Mounted(line(t)) /\ Place(2, K, t) \in 1..Len(c.lines)
  BY <1>1, <1>2, <1>4
<1>7. OfReader("df", E) /\ Len(E) = N
  <2>1. E = [t \in 1..N |-> E[t]]
    OBVIOUS
  <2>2. ASSUME NEW t \in 1..N PROVE \E S, pi, ty, ti : pi \in Seq(S) /\ E[t] = Metric("df", pi, ty, ti)
    <3> DEFINE b == mount_to_instance(line(t).mount)
               d == <<words[Part(2, t)]>>
    <3>1. E[t] = Metric("df", b, "df_complex", d)
      OBVIOUS
    <3>2. b \in Seq(STRING \cup {"-", "root"})
      BY <1>6, InstanceIs
    <3> HIDE DEF b, d, E
    <3> QED
      BY <3>1, <3>2
  <2> HIDE DEF E
  <2> QED
    BY <1>4, <2>1, <2>2, OfReaderIs
<1>8. ASSUME NEW s \in 1..N, NEW t \in 1..N, metric_to_path(E[s]) = metric_to_path(E[t]), s # t
      PROVE  Twins(c)
  <2> DEFINE a == mount_to_instance(line(s).mount)
             b == mount_to_instance(line(t).mount)
             T == STRING \cup {"-", "root"}
  <2>1. a \in Seq(T) /\ b \in Seq(T)
    BY <1>6, InstanceIs
  <2>2. /\ append_seg("df", a) = append_seg("df", b)
        /\ append_seg("df_complex", <<words[Part(2, s)]>>)
             = append_seg("df_complex", <<words[Part(2, t)]>>)
    <3>1. /\ E[s] = Metric("df", a, "df_complex", <<words[Part(2, s)]>>)
          /\ E[t] = Metric("df", b, "df_complex", <<words[Part(2, t)]>>)
      OBVIOUS
    <3> HIDE DEF a, b, E, words
    <3> QED
      BY <1>8, <3>1, PathIs
  <2>3. a = b
    <3> HIDE DEF a, b, T
    <3> QED
      BY <2>1, <2>2, Segments
  <2>4. Part(2, s) = Part(2, t)
    <3>1. words[Part(2, s)] = words[Part(2, t)]
      <4> HIDE DEF words
      <4> QED
        BY <2>2, OneName
    <3>2. \A x, y \in 1..2 : words[x] = words[y] => x = y
      OBVIOUS
    <3> HIDE DEF words
    <3> QED
      BY <1>4, <3>1, <3>2
  <2>5. Place(2, K, s) # Place(2, K, t)
    BY <1>4, <1>8, <2>4
  <2>6. SameInstance(line(s).mount, line(t).mount)
    BY <1>6, <2>3, InstanceTells
  <2> QED
    BY <1>6, <2>5, <2>6 DEF Twins
<1>9. NoTwins(E) \/ Twins(c)
  <2> HIDE DEF E
  <2> QED
    BY <1>7, <1>8 DEF NoTwins
<1> HIDE DEF E
<1> QED
  BY <1>5, <1>7, <1>9, NoneEmitted

\* The readers, by name.
LEMMA ReaderNames ==
  /\ Len(Enabled) \in Nat
  /\ Readers \subseteq {"cpu", "memory", "swap", "load", "uptime", "interface", "disk", "df",
                        "processes", "thermal", "tcpconns"}
  /\ \A a \in 1..Len(Enabled) : Enabled[a] \in Readers
  /\ \A a, b \in 1..Len(Enabled) : Enabled[a] = Enabled[b] => a = b
<1>1. /\ Enabled \in Seq({"cpu", "memory", "swap", "load", "uptime", "interface", "disk", "df",
                          "processes", "thermal", "tcpconns"})
      /\ \A a, b \in DOMAIN Enabled : Enabled[a] = Enabled[b] => a = b
  BY SourcesAssumption DEF IsInjective
<1>2. DOMAIN Enabled = 1..Len(Enabled) /\ Len(Enabled) \in Nat
  BY <1>1
<1> QED
  BY <1>1, <1>2 DEF Readers

\* What a reader emits: its own metrics, each with a file of its own but for those of
\* two mounts that df.c cannot tell apart.  Only the cpu reader looks at the sample.
LEMMA EmittedIs ==
  ASSUME NEW r \in Readers, NEW c \in Contents(r), NEW s
  PROVE  /\ OfReader(r, Emitted(r, c, s))
         /\ NoTwins(Emitted(r, c, s)) \/ (r = "df" /\ Twins(c))
         /\ r # "cpu" => \A s2 : Emitted(r, c, s2) = Emitted(r, c, s)
<1>1. CASE r = "cpu"
  <2> DEFINE b == <<"total">>
             d == <<"active">>
  <2>1. Emitted(r, c, s) = <<>> \/ Emitted(r, c, s) = <<Metric(r, b, "percent", d)>>
    BY <1>1 DEF Emitted
  <2>2. b \in Seq({"total"})
    OBVIOUS
  <2> HIDE DEF b, d
  <2> QED
    BY <1>1, <2>1, <2>2, NoneEmitted, OneEmitted
<1>2. CASE r = "memory"
  <2>1. \A s2 : Emitted(r, c, s2) = memory_read(c)
    BY <1>2 DEF Emitted
  <2> QED
    BY <1>2, <2>1, FewReaders
<1>3. CASE r = "swap"
  <2>1. \A s2 : Emitted(r, c, s2) = swap_read(c)
    BY <1>3 DEF Emitted
  <2> QED
    BY <1>3, <2>1, FewReaders
<1>4. CASE r = "load"
  <2>1. \A s2 : Emitted(r, c, s2) = load_read(c)
    BY <1>4 DEF Emitted
  <2> QED
    BY <1>4, <2>1, FewReaders
<1>5. CASE r = "uptime"
  <2>1. \A s2 : Emitted(r, c, s2) = uptime_read(c)
    BY <1>5 DEF Emitted
  <2> QED
    BY <1>5, <2>1, FewReaders
<1>6. CASE r = "interface"
  <2>1. \A s2 : Emitted(r, c, s2) = interface_read(c)
    BY <1>6 DEF Emitted
  <2> QED
    BY <1>6, <2>1, InterfaceMetrics
<1>7. CASE r = "disk"
  <2>1. \A s2 : Emitted(r, c, s2) = disk_read(c)
    BY <1>7 DEF Emitted
  <2> QED
    BY <1>7, <2>1, DiskMetrics
<1>8. CASE r = "df"
  <2>1. \A s2 : Emitted(r, c, s2) = df_read(c)
    BY <1>8 DEF Emitted
  <2> QED
    BY <1>8, <2>1, DfMetrics
<1>9. CASE r = "processes"
  <2>1. \A s2 : Emitted(r, c, s2) = processes_read(c)
    BY <1>9 DEF Emitted
  <2> QED
    BY <1>9, <2>1, ProcessMetrics
<1>10. CASE r = "thermal"
  <2>1. \A s2 : Emitted(r, c, s2) = thermal_read(c)
    BY <1>10 DEF Emitted
  <2> QED
    BY <1>10, <2>1, ThermalMetrics
<1>11. CASE r = "tcpconns"
  <2>1. \A s2 : Emitted(r, c, s2) = tcpconns_read(c.tcp, c.tcp6)
    BY <1>11 DEF Emitted
  <2> QED
    BY <1>11, <2>1, TcpMetrics
<1>12. r \in {"cpu", "memory", "swap", "load", "uptime", "interface", "disk", "df",
              "processes", "thermal", "tcpconns"}
  BY ReaderNames
<1> QED
  BY <1>1, <1>2, <1>3, <1>4, <1>5, <1>6, <1>7, <1>8, <1>9, <1>10, <1>11, <1>12

-----------------------------------------------------------------------------
(* The invariant of the cycle.                                             *)

\* A sequence of metrics.
Shaped(s) == \E S : s \in Seq(S) /\ \A m \in S : DOMAIN m = {"plugin", "pi", "type", "ti"}

\* st is what the first n readers emitted, in their order, from sources so and sample sa.
Built(n, so, sa, st) ==
    \E P : /\ P[0] = <<>> /\ P[n] = st
           /\ \A k \in 1..n : P[k] = P[k - 1] \o Emitted(Enabled[k], so[Enabled[k]], sa)

\* The state of the cycle.
StateInv ==
    /\ cpc \in {"begin", "read", "sleep", "exited"} /\ i \in 0..Len(Enabled)
    /\ DOMAIN source = Readers /\ \A r \in Readers : source[r] \in Contents(r)
    /\ odd \in 0..MaxOdd /\ cycles \in 0..MaxCycles

\* The files updated in this cycle are of readers that have run in it.
FileInv ==
    /\ \A p \in DOMAIN age : age[p] \in 0..Old
    /\ twice \subseteq written /\ gaps \subseteq written
    /\ cpc = "read" => \A p \in written : \E a \in 1..i : p[1][1] = Enabled[a]
    /\ \A p \in twice : p[1][1] = "df" /\ Twins(source["df"])

\* What is staged and shown.
ShowInv ==
    /\ Shaped(staged) /\ Shaped(published)
    /\ cpc \in {"read", "sleep"} => Built(i, source, sample, staged)
    /\ cpc = "sleep" => i = Len(Enabled) /\ published = staged

CycleInv == StateInv /\ FileInv /\ ShowInv

\* The step of a reader.
LEMMA ReadStep ==
  ASSUME StateInv, Read
  PROVE  /\ cpc = "read" /\ cpc' = "read" /\ i' = i + 1 /\ i \in Nat /\ i + 1 \in 1..Len(Enabled)
         /\ published' = published /\ cycles' = cycles /\ odd' \in 0..MaxOdd
         /\ \E c \in Contents(Enabled[i + 1]), bad \in SUBSET Int :
              /\ source' = [source EXCEPT ![Enabled[i + 1]] = c]
              /\ Update(Emitted(Enabled[i + 1], c, sample'), bad)
              /\ staged' = staged \o Emitted(Enabled[i + 1], c, sample')
              /\ Enabled[i + 1] # "cpu" => sample' = sample
<1>1. /\ cpc = "read" /\ i < Len(Enabled) /\ i' = i + 1
      /\ cpc' = cpc /\ published' = published /\ cycles' = cycles
  BY DEF Read
<1>2. i \in Nat /\ i + 1 \in 1..Len(Enabled)
  BY <1>1, ReaderNames DEF StateInv
<1> DEFINE r == Enabled[i + 1]
<1>3. PICK c \in Contents(r) :
        /\ IF r = "cpu" THEN cpu_read(c) ELSE UNCHANGED cpu
        /\ source' = [source EXCEPT ![r] = c]
        /\ \E bad \in Failing(Len(Emitted(r, c, sample'))) :
             /\ Charge((IF c = Usual[r] THEN 0 ELSE 1) + (IF bad = {} THEN 0 ELSE 1))
             /\ emit_cb(Emitted(r, c, sample'), bad)
  BY DEF Read
<1> DEFINE E == Emitted(r, c, sample')
<1>4. PICK bad \in Failing(Len(E)) :
        /\ Charge((IF c = Usual[r] THEN 0 ELSE 1) + (IF bad = {} THEN 0 ELSE 1))
        /\ emit_cb(E, bad)
  BY <1>3
<1> HIDE DEF E
<1>5. r # "cpu" => sample' = sample
  BY <1>3 DEF cpu
<1>6. bad \in SUBSET Int
  BY DEF Failing
<1>7. odd' \in 0..MaxOdd
  BY <1>4, CollectAssumption DEF Charge, StateInv
<1>8. Update(E, bad) /\ staged' = staged \o E
  BY <1>4 DEF emit_cb
<1> QED
  BY <1>1, <1>2, <1>3, <1>5, <1>6, <1>7, <1>8 DEF E

\* The updates of a reader, for the set of the files it updates.
LEMMA UpdatedBy ==
  ASSUME NEW r, NEW ms, NEW bad, Update(ms, bad), OfReader(r, ms)
  PROVE  \E good :
           /\ age' = [p \in DOMAIN age \cup good |-> IF p \in good THEN 0 ELSE age[p]]
           /\ written' = written \cup good
           /\ gaps' \subseteq gaps \cup good
           /\ \A p \in good : p[1][1] = r
           /\ \A p \in twice' : p \in twice \/ (p \in good /\ (p \in written \/ ~NoTwins(ms)))
<1> DEFINE tried == (1..Len(ms)) \ bad
           path == [k \in tried |-> metric_to_path(ms[k])]
           good == Range(path)
<1>1. /\ age' = [p \in DOMAIN age \cup good |-> IF p \in good THEN 0 ELSE age[p]]
      /\ written' = written \cup good
      /\ gaps' = gaps \cup {p \in good \cap DOMAIN age : age[p] > HEARTBEAT}
      /\ twice' = twice \cup
           {p \in good : p \in written \/ \E j, k \in tried : j < k /\ path[j] = p /\ path[k] = p}
  BY DEF Update
<1>2. \A p \in good : \E k \in 1..Len(ms) : p = metric_to_path(ms[k])
  BY DEF Range
<1>3. \A p \in good : p[1][1] = r
  BY <1>2 DEF OfReader
<1>4. ASSUME NEW j \in tried, NEW k \in tried, j < k, path[j] = path[k] PROVE ~NoTwins(ms)
  BY <1>4 DEF NoTwins
<1> HIDE DEF good, tried, path
<1>5. \A p \in twice' : p \in twice \/ (p \in good /\ (p \in written \/ ~NoTwins(ms)))
  BY <1>1, <1>4
<1>6. gaps' \subseteq gaps \cup good
  BY <1>1
<1> QED
  BY <1>1, <1>3, <1>5, <1>6

\* The state of the cycle is kept.
LEMMA StatePreserved == ASSUME StateInv, [Next]_vars PROVE StateInv'
<1>0. Len(Enabled) \in Nat /\ MaxOdd \in Nat /\ MaxCycles \in Nat
  BY ReaderNames, CollectAssumption
<1>1. CASE Begin
  <2>1. /\ cpc' = "read" /\ i' = 0 /\ cycles < MaxCycles /\ cycles' = cycles + 1
        /\ UNCHANGED <<source, odd>>
    BY <1>1 DEF Begin
  <2> QED
    BY <1>0, <2>1 DEF StateInv
<1>2. CASE Read
  <2>1. PICK c \in Contents(Enabled[i + 1]) : source' = [source EXCEPT ![Enabled[i + 1]] = c]
    BY <1>2, ReadStep
  <2>2. /\ cpc' = "read" /\ i' = i + 1 /\ i \in Nat /\ i + 1 \in 1..Len(Enabled)
        /\ cycles' = cycles /\ odd' \in 0..MaxOdd
    BY <1>2, ReadStep
  <2>3. DOMAIN source' = Readers /\ \A r \in Readers : source'[r] \in Contents(r)
    BY <2>1 DEF StateInv
  <2> QED
    BY <1>0, <2>2, <2>3 DEF StateInv
<1>3. CASE \E d \in Delays : Delay(d)
  <2>1. /\ odd + 1 <= MaxOdd /\ odd' = odd + 1 /\ UNCHANGED <<cpc, i, source, cycles>>
    BY <1>3 DEF Delay, Charge
  <2> QED
    BY <1>0, <2>1 DEF StateInv
<1>4. CASE \E a \in Advance : Sleep(a)
  <2>1. PICK a \in Advance : Sleep(a)
    BY <1>4
  <2>2. /\ cpc' = "begin" /\ UNCHANGED <<i, source, cycles>>
        /\ Charge(IF a = UsualTicks THEN 0 ELSE 1)
    BY <2>1 DEF Sleep
  <2>3. odd' \in 0..MaxOdd
    BY <1>0, <2>2 DEF Charge, StateInv
  <2> QED
    BY <2>2, <2>3 DEF StateInv
<1>5. CASE Publish \/ Exit \/ Exited \/ UNCHANGED vars
  <2>1. UNCHANGED <<i, source, odd, cycles>> /\ cpc' \in {cpc, "sleep", "exited"}
    BY <1>5 DEF Publish, Exit, Exited, vars
  <2> QED
    BY <2>1 DEF StateInv
<1> QED
  BY <1>1, <1>2, <1>3, <1>4, <1>5 DEF Next

\* Each reader has its own files.
LEMMA FilePreserved == ASSUME StateInv, FileInv, [Next]_vars PROVE FileInv'
<1>1. CASE Begin
  <2>1. /\ written' = {} /\ twice' = {} /\ gaps' = {} /\ UNCHANGED <<age, source>>
    BY <1>1 DEF Begin
  <2> QED
    BY <2>1 DEF FileInv
<1>2. CASE Read
  <2> DEFINE r == Enabled[i + 1]
  <2>1. PICK c \in Contents(r), bad \in SUBSET Int :
          source' = [source EXCEPT ![r] = c] /\ Update(Emitted(r, c, sample'), bad)
    BY <1>2, ReadStep
  <2>2. cpc = "read" /\ i' = i + 1 /\ i \in Nat /\ i + 1 \in 1..Len(Enabled)
    BY <1>2, ReadStep
  <2>3. r \in Readers /\ \A a \in 1..i : Enabled[a] # r
    <3>1. \A a \in 1..i : a \in 1..Len(Enabled) /\ a # i + 1
      BY <2>2, ReaderNames
    <3> QED
      BY <2>2, <3>1, ReaderNames
  <2> DEFINE E == Emitted(r, c, sample')
  <2>4. OfReader(r, E) /\ (NoTwins(E) \/ (r = "df" /\ Twins(c)))
    BY <2>3, EmittedIs
  <2>5. Update(E, bad)
    BY <2>1
  <2> HIDE DEF E, r
  <2>6. PICK good :
           /\ age' = [p \in DOMAIN age \cup good |-> IF p \in good THEN 0 ELSE age[p]]
           /\ written' = written \cup good
           /\ gaps' \subseteq gaps \cup good
           /\ \A p \in good : p[1][1] = r
           /\ \A p \in twice' : p \in twice \/ (p \in good /\ (p \in written \/ ~NoTwins(E)))
    BY <2>4, <2>5, UpdatedBy
  <2>7. \A p \in DOMAIN age' : age'[p] \in 0..Old
    <3>1. 0 \in 0..Old
      BY DEF Old, HEARTBEAT, STEP
    <3> QED
      BY <2>6, <3>1 DEF FileInv
  <2>8. twice' \subseteq written' /\ gaps' \subseteq written'
    BY <2>6 DEF FileInv
  <2>9. ASSUME NEW p \in written' PROVE \E a \in 1..i' : p[1][1] = Enabled[a]
    <3>1. CASE p \in written
      <4>1. PICK a \in 1..i : p[1][1] = Enabled[a]
        BY <2>2, <3>1 DEF FileInv
      <4>2. a \in 1..i'
        BY <2>2
      <4> QED
        BY <4>1, <4>2
    <3>2. CASE p \in good
      <4>1. i + 1 \in 1..i' /\ p[1][1] = Enabled[i + 1]
        BY <2>2, <2>6, <3>2 DEF r
      <4> QED
        BY <4>1
    <3> QED
      BY <2>6, <3>1, <3>2
  <2>10. ASSUME NEW p \in twice' PROVE p[1][1] = "df" /\ Twins(source'["df"])
    <3>1. \A q \in written : q[1][1] # r
      BY <2>2, <2>3 DEF FileInv
    <3>2. CASE p \in twice
      <4>1. p[1][1] = "df" /\ Twins(source["df"]) /\ r # "df"
        BY <3>1, <3>2 DEF FileInv
      <4>2. source'["df"] = source["df"]
        BY <2>1, <4>1
      <4> QED
        BY <4>1, <4>2
    <3>3. CASE p \notin twice
      <4>1. p \in good /\ p[1][1] = r /\ p \notin written
        BY <2>6, <3>1, <3>3
      <4>2. ~NoTwins(E)
        BY <2>6, <3>3, <4>1
      <4>3. r = "df" /\ Twins(c) /\ source'["df"] = c
        BY <2>1, <2>3, <2>4, <4>2 DEF StateInv
      <4> QED
        BY <4>1, <4>3
    <3> QED
      BY <3>2, <3>3
  <2> QED
    BY <2>7, <2>8, <2>9, <2>10 DEF FileInv
<1>3. ASSUME NEW d \in Nat, age' = Aged(d) PROVE \A p \in DOMAIN age' : age'[p] \in 0..Old
  BY <1>3 DEF FileInv, Aged, Old, HEARTBEAT, STEP
<1>4. CASE \E d \in Delays : Delay(d)
  <2>1. PICK d \in Delays : Delay(d)
    BY <1>4
  <2>2. d \in Nat /\ age' = Aged(d) /\ UNCHANGED <<written, twice, gaps, source, cpc, i>>
    BY <2>1, CollectAssumption DEF Delay
  <2>3. \A p \in DOMAIN age' : age'[p] \in 0..Old
    BY <1>3, <2>2
  <2> QED
    BY <2>2, <2>3 DEF FileInv
<1>5. CASE \E a \in Advance : Sleep(a)
  <2>1. PICK a \in Advance : Sleep(a)
    BY <1>5
  <2>2. /\ Interval \in Nat /\ age' = Aged(Interval) /\ cpc' = "begin"
        /\ UNCHANGED <<written, twice, gaps, source>>
    BY <2>1, CollectAssumption DEF Sleep
  <2>3. \A p \in DOMAIN age' : age'[p] \in 0..Old
    BY <1>3, <2>2
  <2> QED
    BY <2>2, <2>3 DEF FileInv
<1>6. CASE Publish \/ Exit \/ Exited \/ UNCHANGED vars
  <2>1. /\ UNCHANGED <<age, written, twice, gaps, source, i>>
        /\ cpc' \in {cpc, "sleep", "exited"}
    BY <1>6 DEF Publish, Exit, Exited, vars, files
  <2> QED
    BY <2>1 DEF FileInv
<1> QED
  BY <1>1, <1>2, <1>4, <1>5, <1>6 DEF Next

\* Metrics after metrics are metrics.
LEMMA ShapedConcat ==
  ASSUME NEW r, NEW st, NEW ms, Shaped(st), OfReader(r, ms) PROVE Shaped(st \o ms)
<1>1. PICK S : st \in Seq(S) /\ \A m \in S : DOMAIN m = {"plugin", "pi", "type", "ti"}
  BY DEF Shaped
<1> DEFINE T == {ms[t] : t \in 1..Len(ms)}
           U == S \cup T
<1>2. ms \in Seq(T) /\ \A m \in T : DOMAIN m = {"plugin", "pi", "type", "ti"}
  BY DEF OfReader
<1>3. \A m \in U : DOMAIN m = {"plugin", "pi", "type", "ti"}
  BY <1>1, <1>2
<1> HIDE DEF T
<1>4. st \in Seq(U) /\ ms \in Seq(U)
  BY <1>1, <1>2
<1> HIDE DEF U
<1>5. st \o ms \in Seq(U)
  BY <1>4, ConcatProperties
<1> QED
  BY <1>3, <1>5 DEF Shaped

\* One more reader has run.
LEMMA BuiltStep ==
  ASSUME NEW n \in Nat, n + 1 \in 1..Len(Enabled), NEW so, NEW sa, NEW sb, NEW st, Built(n, so, sa, st),
         DOMAIN so = Readers, \A r \in Readers : so[r] \in Contents(r),
         NEW c \in Contents(Enabled[n + 1]), Enabled[n + 1] # "cpu" => sb = sa
  PROVE  Built(n + 1, [so EXCEPT ![Enabled[n + 1]] = c], sb, st \o Emitted(Enabled[n + 1], c, sb))
<1> DEFINE r == Enabled[n + 1]
           so2 == [so EXCEPT ![r] = c]
           st2 == st \o Emitted(r, c, sb)
<1>1. PICK P : /\ P[0] = <<>> /\ P[n] = st
               /\ \A k \in 1..n : P[k] = P[k - 1] \o Emitted(Enabled[k], so[Enabled[k]], sa)
  BY DEF Built
<1> DEFINE Q == [k \in 0..(n + 1) |-> IF k = n + 1 THEN st2 ELSE P[k]]
<1>2. Q[0] = <<>> /\ Q[n + 1] = st2 /\ \A k \in 0..n : Q[k] = P[k]
  BY <1>1
<1>3. r \in Readers /\ so2[r] = c
  BY ReaderNames
<1>4. ASSUME NEW k \in 1..n
      PROVE  Emitted(Enabled[k], so2[Enabled[k]], sb) = Emitted(Enabled[k], so[Enabled[k]], sa)
  <2>1. k \in 1..Len(Enabled) /\ k # n + 1
    BY ReaderNames
  <2>2. Enabled[k] \in Readers /\ Enabled[k] # r
    BY <2>1, ReaderNames
  <2>3. so2[Enabled[k]] = so[Enabled[k]] /\ so[Enabled[k]] \in Contents(Enabled[k])
    BY <2>2
  <2>4. CASE Enabled[k] = "cpu"
    BY <2>2, <2>3, <2>4
  <2>5. CASE Enabled[k] # "cpu"
    BY <2>2, <2>3, <2>5, EmittedIs
  <2> QED
    BY <2>4, <2>5
<1> HIDE DEF Q, so2
<1>5. ASSUME NEW k \in 1..(n + 1) PROVE Q[k] = Q[k - 1] \o Emitted(Enabled[k], so2[Enabled[k]], sb)
  <2>1. CASE k = n + 1
    <3>1. k - 1 = n /\ n \in 0..n
      BY <2>1
    <3> QED
      BY <1>1, <1>2, <1>3, <2>1, <3>1
  <2>2. CASE k # n + 1
    <3>1. k \in 1..n /\ k \in 0..n /\ k - 1 \in 0..n
      BY <2>2
    <3> QED
      BY <1>1, <1>2, <1>4, <3>1
  <2> QED
    BY <2>1, <2>2
<1>6. Built(n + 1, so2, sb, st2)
  <2> HIDE DEF st2, r
  <2> QED
    BY <1>2, <1>5 DEF Built
<1> QED
  BY <1>6 DEF so2

\* What is staged is what the readers that have run emitted, and stays so.
LEMMA ShowPreserved == ASSUME StateInv, ShowInv, [Next]_vars PROVE ShowInv'
<1>1. CASE Begin
  <2>1. cpc' = "read" /\ i' = 0 /\ staged' = <<>> /\ published' = published
    BY <1>1 DEF Begin
  <2>2. Shaped(<<>>)
    <3> DEFINE e == <<>>
    <3>1. e \in Seq({})
      OBVIOUS
    <3> HIDE DEF e
    <3>2. Shaped(e)
      BY <3>1 DEF Shaped
    <3> QED
      BY <3>2 DEF e
  <2>3. Built(0, source', sample', <<>>)
    <3> DEFINE P == [k \in {0} |-> <<>>]
    <3>1. P[0] = <<>> /\ \A k \in 1..0 : FALSE
      OBVIOUS
    <3> HIDE DEF P
    <3> QED
      BY <3>1 DEF Built
  <2> QED
    BY <2>1, <2>2, <2>3 DEF ShowInv
<1>2. CASE Read
  <2> DEFINE r == Enabled[i + 1]
  <2>1. PICK c \in Contents(r) :
          /\ source' = [source EXCEPT ![r] = c] /\ staged' = staged \o Emitted(r, c, sample')
          /\ r # "cpu" => sample' = sample
    BY <1>2, ReadStep
  <2>2. /\ cpc = "read" /\ cpc' = "read" /\ i' = i + 1 /\ i \in Nat /\ i + 1 \in 1..Len(Enabled)
        /\ published' = published
    BY <1>2, ReadStep
  <2>3. Built(i', source', sample', staged')
    BY <2>1, <2>2, BuiltStep DEF StateInv, ShowInv
  <2>4. Shaped(staged')
    <3>1. OfReader(r, Emitted(r, c, sample'))
      BY <2>2, ReaderNames, EmittedIs
    <3> QED
      BY <2>1, <3>1, ShapedConcat DEF ShowInv
  <2> QED
    BY <2>2, <2>3, <2>4 DEF ShowInv
<1>3. CASE \E d \in Delays : Delay(d)
  <2>1. UNCHANGED <<cpc, i, source, staged, published, sample>>
    BY <1>3 DEF Delay, cpu
  <2> QED
    BY <2>1 DEF ShowInv
<1>4. CASE Publish
  <2>1. /\ cpc = "read" /\ i = Len(Enabled) /\ published' = staged /\ cpc' = "sleep"
        /\ UNCHANGED <<i, source, staged, sample>>
    BY <1>4 DEF Publish, cpu
  <2> QED
    BY <2>1 DEF ShowInv
<1>5. CASE (\E a \in Advance : Sleep(a)) \/ Exit
  <2>1. UNCHANGED <<staged, published>> /\ cpc' \in {"begin", "exited"}
    BY <1>5 DEF Sleep, Exit
  <2> QED
    BY <2>1 DEF ShowInv
<1>6. CASE Exited \/ UNCHANGED vars
  <2>1. UNCHANGED <<cpc, i, source, staged, published, sample>>
    BY <1>6 DEF Exited, vars, cpu
  <2> QED
    BY <2>1 DEF ShowInv
<1> QED
  BY <1>1, <1>2, <1>3, <1>4, <1>5, <1>6 DEF Next

\* In every cycle the files updated are those of readers that have run, and what is
\* staged is what they emitted.
THEOREM CycleInvariant == Spec => []CycleInv
<1>1. Init => CycleInv
  <2> SUFFICES ASSUME Init PROVE CycleInv
    OBVIOUS
  <2>1. /\ cpc = "begin" /\ i = 0 /\ source = [r \in Readers |-> Usual[r]] /\ staged = <<>>
        /\ published = <<>> /\ age = [p \in {} |-> 0] /\ written = {} /\ twice = {} /\ gaps = {}
        /\ odd = 0 /\ cycles = 0
    BY DEF Init
  <2>2. StateInv
    BY <2>1, ReaderNames, CollectAssumption DEF StateInv, Contents
  <2>3. FileInv
    BY <2>1 DEF FileInv
  <2>4. ShowInv
    <3>1. <<>> \in Seq({}) /\ \A m \in {} : DOMAIN m = {"plugin", "pi", "type", "ti"}
      OBVIOUS
    <3> QED
      BY <2>1, <3>1 DEF ShowInv, Shaped
  <2> QED
    BY <2>2, <2>3, <2>4 DEF CycleInv
<1>2. CycleInv /\ [Next]_vars => CycleInv'
  BY StatePreserved, FilePreserved, ShowPreserved DEF CycleInv
<1> QED
  BY <1>1, <1>2, PTL DEF Spec

\* No file gets two updates in a cycle but for two mounts whose points differ at most in
\* slashes for dashes, or are "/" and "/root".
THEOREM SharingExplained == Spec => []SharedFileExplained
<1>1. CycleInv => SharedFileExplained
  BY DEF CycleInv, FileInv, SharedFileExplained, Twins
<1> QED
  BY <1>1, CycleInvariant, PTL

\* A published snapshot has the metrics of its cycle's sources, all of them and no others.
THEOREM SnapshotAsRead == Spec => []ShownAsRead
<1>1. ASSUME CycleInv PROVE ShownAsRead
  <2> SUFFICES ASSUME cpc = "sleep"
               PROVE  published = FlattenSeq([k \in 1..Len(Enabled) |->
                                    Emitted(Enabled[k], source[Enabled[k]], sample)])
    BY DEF ShownAsRead
  <2> DEFINE n == Len(Enabled)
             em(k) == Emitted(Enabled[k], source[Enabled[k]], sample)
             p == [k \in 1..n |-> em(k)]
             S == UNION {{em(k)[t] : t \in 1..Len(em(k))} : k \in 1..n}
  <2>1. n \in Nat
    BY ReaderNames
  <2>2. PICK P : P[0] = <<>> /\ P[n] = published /\ \A k \in 1..n : P[k] = P[k - 1] \o em(k)
    BY <1>1 DEF CycleInv, ShowInv, Built
  <2>3. ASSUME NEW k \in 1..n PROVE em(k) \in Seq(S)
    <3>1. OfReader(Enabled[k], em(k))
      BY <1>1, ReaderNames, EmittedIs DEF CycleInv, StateInv
    <3> DEFINE T == {em(k)[t] : t \in 1..Len(em(k))}
    <3>2. em(k) \in Seq(T)
      BY <3>1 DEF OfReader
    <3>3. T \subseteq S
      OBVIOUS
    <3> HIDE DEF T, S, em
    <3> QED
      BY <3>2, <3>3
  <2> HIDE DEF S, em
  <2>4. p \in Seq(Seq(S)) /\ Len(p) = n /\ \A k \in 1..n : p[k] = em(k)
    <3>1. p \in [1..n -> Seq(S)]
      BY <2>3
    <3> QED
      BY <2>1, <3>1
  <2> HIDE DEF n, p
  <2>5. published = FlattenSeq(p)
    <3>1. CASE n # 0
      <4>1. \A k \in 1..n : P[k] = P[k - 1] \o p[k]
        BY <2>2, <2>4
      <4>2. PutTogether(S, n, p, P)
        BY <2>1, <2>2, <2>4, <3>1, <4>1 DEF PutTogether
      <4> QED
        BY <2>2, <4>2, Flat
    <3>2. CASE n = 0
      <4>1. FlattenSeq(p) = p
        BY <2>4, <3>2 DEF FlattenSeq
      <4>2. p = <<>>
        BY <2>4, <3>2, EmptySeq
      <4> QED
        BY <2>2, <3>2, <4>1, <4>2
    <3> QED
      BY <3>1, <3>2
  <2> QED
    BY <2>5 DEF p, n, em
<1>2. CycleInv => ShownAsRead
  BY <1>1
<1> QED
  BY <1>2, CycleInvariant, PTL

\* The variables have their types, the metrics their fields, and a file that was
\* updated has an age.
THEOREM TypeCorrect == Spec => []TypeOK
<1>1. ASSUME CpuInv, AgeInv, CycleInv PROVE TypeOK
  <2>1. ASSUME NEW s, Shaped(s), NEW k \in 1..Len(s)
        PROVE  DOMAIN s[k] = {"plugin", "pi", "type", "ti"}
    <3>1. PICK S : s \in Seq(S) /\ \A m \in S : DOMAIN m = {"plugin", "pi", "type", "ti"}
      BY <2>1 DEF Shaped
    <3>2. s[k] \in S
      BY <3>1
    <3> QED
      BY <3>1, <3>2
  <2>2. Shaped(staged) /\ Shaped(published)
    BY <1>1 DEF CycleInv, ShowInv
  <2>3. \A s \in {staged, published} : \A k \in 1..Len(s) :
          DOMAIN s[k] = {"plugin", "pi", "type", "ti"}
    BY <2>1, <2>2
  <2>4. /\ \A p \in DOMAIN age : age[p] \in 0..Old
        /\ written \cup written_before \subseteq DOMAIN age
        /\ twice \cup gaps \subseteq written /\ lost \in Nat /\ lost_before \in Nat
    BY <1>1 DEF AgeInv, CycleInv, FileInv
  <2>5. /\ cpc \in {"begin", "read", "sleep", "exited"} /\ i \in 0..Len(Enabled)
        /\ DOMAIN source = Readers /\ odd \in 0..MaxOdd /\ cycles \in 0..MaxCycles
    BY <1>1 DEF CycleInv, StateInv
  <2>6. CpuTypeOK
    BY <1>1 DEF CpuInv
  <2> QED
    BY <2>3, <2>4, <2>5, <2>6, Zenon DEF TypeOK
<1>2. CpuInv /\ AgeInv /\ CycleInv => TypeOK
  BY <1>1
<1> QED
  BY <1>2, CpuInvariant, AgeInvariant, CycleInvariant, PTL
=============================================================================
