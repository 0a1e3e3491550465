--------------------------- MODULE SnapshotProofs ---------------------------
(***************************************************************************)
(* Proofs about Snapshot for every set of metrics and addresses, every     *)
(* initial capacity, number of tags and cycle length.                      *)
(***************************************************************************)
EXTENDS Snapshot, FiniteSetTheorems, TLAPS

Elements(s) == {s[i] : i \in 1..Len(s)}

-----------------------------------------------------------------------------
(* The inductive invariant.                                                *)

\* Who is inside which critical section is what the lock says.
LockInv ==
    /\ g_lock = "collector" <=> cpc \in {"locked", "swapped"}
    /\ g_lock = "http" <=> hpc \in {"locked", "memcpy"}

\* The allocated buffers are the staged, the published and, in the middle of
\* the swap, the one in tmp.
OwnInv ==
    /\ heap = {g_staged, g_published, tmp} \ {NULL}
    /\ cpc # "swapped" => tmp = NULL /\ (g_staged # NULL => g_staged # g_published)
    /\ cpc = "swapped" => g_staged = g_published /\ (tmp # NULL => tmp # g_published)

CapInv == \A b \in heap : Len(items[b]) <= cap[b]

\* s is what is left of the emissions of h: only allocation failures lose any.
LeftOf(s, h) == Elements(s) \subseteq Elements(h.emits) /\ (h.alloc = "ok" => s = h.emits)

StagedInv == cpc \in {"collect", "locked"} => LeftOf(Contents(g_staged), cur)

PublishedInv == LeftOf(Contents(g_published), pub)

\* The scrape holds the published buffer, then a private copy of it.
ScrapeInv ==
    /\ hpc \in {"locked", "memcpy"} => p = g_published /\ seen = pub
    /\ hpc = "memcpy" => /\ p # NULL
                         /\ room = Len(items[p])
                         /\ Len(copy) <= Len(items[p])
                         /\ \A i \in 1..Len(copy) : copy[i] = items[p][i]
    /\ hpc \notin {"memcpy", "render"} => copy = <<>>
    /\ hpc = "render" => LeftOf(copy, seen)

IInv ==
    /\ TypeOK /\ LockInv /\ OwnInv /\ CapInv
    /\ StagedInv /\ PublishedInv /\ ScrapeInv /\ ScrapeExact

-----------------------------------------------------------------------------
(* Type correctness.                                                       *)

\* The tag of the next cycle is a tag.
LEMMA NextTag == ASSUME NEW t \in 0..Tags-1 PROVE (t + 1) % Tags \in 0..Tags-1
  BY ConstantsAssumption

\* A sample read in the current cycle is a sample.
LEMMA FreshSample ==
  ASSUME TypeOK, NEW m \in Metric
  PROVE  Fresh(m) \in Sample
  BY DEF TypeOK, Sample, Fresh

\* The three outcomes for the staging buffer keep the heap well typed.
LEMMA StageType ==
  ASSUME TypeOK, NEW s \in Seq(Sample), NEW c \in Nat,
         StageNew(s, c) \/ StageNone \/ StageOld(s, c)
  PROVE  /\ g_staged' \in Pointer /\ heap' \subseteq Buffer
         /\ items' \in [Buffer -> Seq(Sample)] /\ cap' \in [Buffer -> Nat]
<1>1. CASE StageNew(s, c)
  BY <1>1 DEF StageNew, TypeOK, Pointer
<1>2. CASE StageNone
  BY <1>2 DEF StageNone, TypeOK, Pointer
<1>3. CASE StageOld(s, c)
  BY <1>3 DEF StageOld, TypeOK, Pointer
<1> QED
  BY <1>1, <1>2, <1>3

\* What a rendering of s shows are elements of s.
LEMMA RenderedElements ==
  ASSUME NEW s \in Seq(Sample)
  PROVE  Rendered(s) \subseteq Elements(s) /\ Elements(s) \subseteq Sample
  BY DEF Rendered, Elements

\* Type correctness of the snapshot code is preserved by every step of both
\* threads.
LEMMA TypeStep == TypeOK /\ [Next]_vars => TypeOK'
<1> SUFFICES ASSUME TypeOK, [Next]_vars PROVE TypeOK'
  OBVIOUS
<1> USE ConstantsAssumption DEF TypeOK, History, Pointer, NoEmits, cvars, hvars, bvars
<1>1. CASE Begin
  <2>1. cycle' \in 0..Tags-1
    BY <1>1, NextTag DEF Begin
  <2>2. g_staged # NULL => cap[g_staged] \in Nat
    OBVIOUS
  <2>3. <<>> \in Seq(Sample) /\ 0 \in Nat
    OBVIOUS
  <2>4. /\ g_staged' \in Pointer /\ heap' \subseteq Buffer
        /\ items' \in [Buffer -> Seq(Sample)] /\ cap' \in [Buffer -> Nat]
    BY <1>1, <2>2, <2>3, StageType DEF Begin, StageOld
  <2>5. cur' \in History
    BY <1>1 DEF Begin
  <2> QED
    BY <1>1, <2>1, <2>4, <2>5 DEF Begin
<1>2. ASSUME NEW m \in Metric, AddStored(m) PROVE TypeOK'
  <2>1. Fresh(m) \in Sample
    BY FreshSample
  <2>2. cur' \in History
    BY <1>2, <2>1 DEF AddStored
  <2>3. <<Fresh(m)>> \in Seq(Sample) /\ InitCap \in Nat
    BY <2>1
  <2>4. g_staged # NULL =>
          /\ Append(items[g_staged], Fresh(m)) \in Seq(Sample)
          /\ cap[g_staged] \in Nat /\ Grown(cap[g_staged]) \in Nat
    BY <2>1 DEF Grown
  <2>5. /\ g_staged' \in Pointer /\ heap' \subseteq Buffer
        /\ items' \in [Buffer -> Seq(Sample)] /\ cap' \in [Buffer -> Nat]
    BY <1>2, <2>3, <2>4, StageType DEF AddStored, StageOld
  <2> QED
    BY <1>2, <2>2, <2>5 DEF AddStored
<1>3. ASSUME NEW m \in Metric, AddDropped(m) PROVE TypeOK'
  <2>1. Fresh(m) \in Sample
    BY FreshSample
  <2>2. cur' \in History
    BY <1>3, <2>1 DEF AddDropped
  <2>3. <<>> \in Seq(Sample) /\ 0 \in Nat
    OBVIOUS
  <2>4. /\ g_staged' \in Pointer /\ heap' \subseteq Buffer
        /\ items' \in [Buffer -> Seq(Sample)] /\ cap' \in [Buffer -> Nat]
    BY <1>3, <2>3, StageType DEF AddDropped
  <2> QED
    BY <1>3, <2>2, <2>4 DEF AddDropped
<1>4. CASE PublishLock
  BY <1>4 DEF PublishLock
<1>5. CASE PublishSwap
  BY <1>5 DEF PublishSwap
<1>6. CASE PublishUnlock
  BY <1>6 DEF PublishUnlock
<1>7. CASE RenderCall
  BY <1>7 DEF RenderCall
<1>8. CASE RenderLock
  BY <1>8 DEF RenderLock
<1>9. CASE RenderEmpty
  BY <1>9 DEF RenderEmpty
<1>10. CASE RenderOom
  <2>1. seen' \in History
    BY <1>10 DEF RenderOom, Failed
  <2>2. out' = NULL \/ out' \subseteq Sample
    BY <1>10 DEF RenderOom
  <2> QED
    BY <1>10, <2>1, <2>2 DEF RenderOom
<1>11. CASE RenderMalloc
  BY <1>11 DEF RenderMalloc, Contents
<1>12. CASE RenderCopy
  BY <1>12 DEF RenderCopy
<1>13. CASE RenderUnlock
  BY <1>13 DEF RenderUnlock
<1>14. CASE RenderText
  <2>1. Rendered(copy) \subseteq Sample
    BY RenderedElements
  <2>2. seen' \in History
    BY <1>14 DEF RenderText, Failed
  <2>3. out' = NULL \/ out' \subseteq Sample
    BY <1>14, <2>1 DEF RenderText
  <2> QED
    BY <1>14, <2>2, <2>3 DEF RenderText
<1>15. CASE UNCHANGED vars
  BY <1>15 DEF vars
<1> QED
  BY <1>1, <1>2, <1>3, <1>4, <1>5, <1>6, <1>7, <1>8, <1>9, <1>10, <1>11, <1>12,
     <1>13, <1>14, <1>15 DEF Next, Collector, Scraper

\* Type correctness of the snapshot code, in every reachable state.
THEOREM TypeCorrect == Spec => []TypeOK
<1>1. Init => TypeOK
  BY ConstantsAssumption DEF Init, TypeOK, Pointer, History, NoEmits
<1> QED
  BY <1>1, TypeStep, PTL DEF Spec

-----------------------------------------------------------------------------
(* Facts about sequences of samples.                                       *)

\* Appending adds one element.
LEMMA ElementsAppend ==
  ASSUME NEW s \in Seq(Sample), NEW e \in Sample
  PROVE  Elements(Append(s, e)) = Elements(s) \cup {e}
<1>1. ASSUME NEW i \in 1..Len(Append(s, e))
      PROVE  Append(s, e)[i] \in Elements(s) \cup {e}
  BY DEF Elements
<1>2. ASSUME NEW i \in 1..Len(s) PROVE s[i] \in Elements(Append(s, e))
  <2>1. i \in 1..Len(Append(s, e)) /\ s[i] = Append(s, e)[i]
    OBVIOUS
  <2> QED
    BY <2>1 DEF Elements
<1>3. e \in Elements(Append(s, e))
  <2>1. Len(s) + 1 \in 1..Len(Append(s, e)) /\ e = Append(s, e)[Len(s) + 1]
    OBVIOUS
  <2> QED
    BY <2>1 DEF Elements
<1> QED
  BY <1>1, <1>2, <1>3 DEF Elements

\* A rendering depends on the elements only, monotonically.
LEMMA RenderedMonotone ==
  ASSUME NEW s \in Seq(Sample), NEW t \in Seq(Sample),
         Elements(s) \subseteq Elements(t)
  PROVE  Rendered(s) \subseteq Rendered(t)
<1> SUFFICES ASSUME NEW i \in 1..Len(s), s[i].metric \in Ruled
             PROVE  s[i] \in Rendered(t)
  BY DEF Rendered
<1>1. PICK j \in 1..Len(t) : s[i] = t[j]
  BY DEF Elements
<1> QED
  BY <1>1 DEF Rendered

\* Storing a metric keeps the buffer what is left of the emissions...
LEMMA LeftOfStored ==
  ASSUME NEW s \in Seq(Sample), NEW h \in History, NEW e \in Sample, LeftOf(s, h)
  PROVE  LeftOf(Append(s, e), [emits |-> Append(h.emits, e), alloc |-> h.alloc])
<1>1. h.emits \in Seq(Sample)
  BY DEF History
<1>2. Elements(Append(s, e)) \subseteq Elements(Append(h.emits, e))
  BY <1>1, ElementsAppend DEF LeftOf
<1> QED
  BY <1>2 DEF LeftOf

\* ... and so does dropping it.
LEMMA LeftOfDropped ==
  ASSUME NEW s \in Seq(Sample), NEW h \in History, NEW e \in Sample, LeftOf(s, h)
  PROVE  LeftOf(s, [emits |-> Append(h.emits, e), alloc |-> "failed"])
<1>1. h.emits \in Seq(Sample)
  BY DEF History
<1>2. Elements(s) \subseteq Elements(Append(h.emits, e))
  BY <1>1, ElementsAppend DEF LeftOf
<1> QED
  BY <1>2 DEF LeftOf

\* An empty buffer is what is left when nothing was emitted.
LEMMA LeftOfNothing == LeftOf(<<>>, NoEmits)
  BY DEF LeftOf, NoEmits, Elements

-----------------------------------------------------------------------------
(* Each part of the invariant is preserved.                                *)

\* The critical sections of publish and render exclude each other.
LEMMA LockStep == TypeOK /\ LockInv /\ [Next]_vars => LockInv'
<1> SUFFICES ASSUME TypeOK, LockInv, [Next]_vars PROVE LockInv'
  OBVIOUS
<1> USE DEF TypeOK, LockInv, cvars, hvars
<1>1. CASE Begin
  BY <1>1 DEF Begin
<1>2. ASSUME NEW m \in Metric, AddStored(m) PROVE LockInv'
  BY <1>2 DEF AddStored
<1>3. ASSUME NEW m \in Metric, AddDropped(m) PROVE LockInv'
  BY <1>3 DEF AddDropped
<1>4. CASE PublishLock \/ PublishSwap \/ PublishUnlock
  BY <1>4 DEF PublishLock, PublishSwap, PublishUnlock
<1>5. CASE RenderCall \/ RenderLock \/ RenderEmpty \/ RenderOom
  BY <1>5 DEF RenderCall, RenderLock, RenderEmpty, RenderOom
<1>6. CASE RenderMalloc \/ RenderCopy \/ RenderUnlock \/ RenderText
  BY <1>6 DEF RenderMalloc, RenderCopy, RenderUnlock, RenderText
<1>7. CASE UNCHANGED vars
  BY <1>7 DEF vars
<1> QED
  BY <1>1, <1>2, <1>3, <1>4, <1>5, <1>6, <1>7 DEF Next, Collector, Scraper

\* Buffers are neither leaked nor aliased.
LEMMA OwnStep == TypeOK /\ OwnInv /\ [Next]_vars => OwnInv'
<1> SUFFICES ASSUME TypeOK, OwnInv, [Next]_vars PROVE OwnInv'
  OBVIOUS
<1> USE ConstantsAssumption DEF OwnInv, cvars, hvars, bvars
<1>1. ASSUME cpc \in {"idle", "collect"}, cpc' = "collect",
             UNCHANGED <<g_published, tmp>>, NEW s, NEW c,
             StageNew(s, c) \/ StageNone \/ StageOld(s, c)
      PROVE  OwnInv'
  <2>1. CASE StageNew(s, c)
    BY <1>1, <2>1 DEF StageNew, TypeOK, Pointer
  <2>2. CASE StageNone \/ StageOld(s, c)
    BY <1>1, <2>2 DEF StageNone, StageOld
  <2> QED
    BY <1>1, <2>1, <2>2
<1>2. CASE Begin
  BY <1>1, <1>2 DEF Begin
<1>3. ASSUME NEW m \in Metric, AddStored(m) PROVE OwnInv'
  BY <1>1, <1>3 DEF AddStored
<1>4. ASSUME NEW m \in Metric, AddDropped(m) PROVE OwnInv'
  BY <1>1, <1>4 DEF AddDropped
<1>5. CASE PublishLock \/ PublishSwap \/ PublishUnlock
  BY <1>5 DEF PublishLock, PublishSwap, PublishUnlock
<1>6. CASE Scraper
  BY <1>6 DEF Scraper, RenderCall, RenderLock, RenderEmpty, RenderOom,
              RenderMalloc, RenderCopy, RenderUnlock, RenderText
<1>7. CASE UNCHANGED vars
  BY <1>7 DEF vars
<1> QED
  BY <1>2, <1>3, <1>4, <1>5, <1>6, <1>7 DEF Next, Collector

\* A step of the scrape, and a stuttering step, touch no buffer.
LEMMA ScraperFrame ==
  ASSUME Scraper \/ UNCHANGED vars
  PROVE  UNCHANGED <<g_staged, g_published, bvars, cvars, cur, pub>>
  BY DEF Scraper, RenderCall, RenderLock, RenderEmpty, RenderOom, RenderMalloc,
         RenderCopy, RenderUnlock, RenderText, vars, cvars, bvars, hvars

\* sb_reserve grows the buffer before prom_snapshot_add stores past its end.
LEMMA CapStep == TypeOK /\ OwnInv /\ CapInv /\ [Next]_vars => CapInv'
<1> SUFFICES ASSUME TypeOK, OwnInv, CapInv, [Next]_vars PROVE CapInv'
  OBVIOUS
<1> USE ConstantsAssumption DEF CapInv, bvars
<1>1. ASSUME NEW s \in Seq(Sample), NEW c \in Nat, Len(s) <= c,
             StageNew(s, c) \/ StageOld(s, c)
      PROVE  CapInv'
  <2>1. CASE StageNew(s, c)
    BY <1>1, <2>1 DEF StageNew, TypeOK
  <2>2. CASE StageOld(s, c)
    BY <1>1, <2>2 DEF StageOld, TypeOK, Pointer
  <2> QED
    BY <1>1, <2>1, <2>2
<1>2. CASE StageNone
  BY <1>2 DEF StageNone
<1>3. g_staged # NULL => /\ items[g_staged] \in Seq(Sample)
                         /\ cap[g_staged] \in Nat
                         /\ Len(items[g_staged]) <= cap[g_staged]
  BY DEF TypeOK, Pointer, OwnInv
<1>4. CASE Begin
  <2>1. <<>> \in Seq(Sample) /\ Len(<<>>) = 0
    OBVIOUS
  <2>2. CASE StageOld(<<>>, cap[g_staged])
    <3>1. cap[g_staged] \in Nat /\ Len(<<>>) <= cap[g_staged]
      BY <1>3, <2>1, <2>2 DEF StageOld
    <3> QED
      BY <1>1, <2>1, <2>2, <3>1
  <2>3. CASE StageNew(<<>>, 0)
    <3>1. 0 \in Nat /\ Len(<<>>) <= 0
      BY <2>1
    <3> QED
      BY <1>1, <2>1, <2>3, <3>1
  <2> QED
    BY <1>2, <1>4, <2>2, <2>3 DEF Begin
<1>5. ASSUME NEW m \in Metric, AddStored(m) PROVE CapInv'
  <2> DEFINE s == Append(items[g_staged], Fresh(m))
             c == IF Len(items[g_staged]) >= cap[g_staged]
                  THEN Grown(cap[g_staged]) ELSE cap[g_staged]
  <2>1. Fresh(m) \in Sample
    BY FreshSample
  <2>2. CASE StageOld(s, c)
    <3>1. s \in Seq(Sample) /\ Len(s) = Len(items[g_staged]) + 1
      BY <1>3, <2>1, <2>2 DEF StageOld
    <3>2. c \in Nat /\ Len(s) <= c
      BY <1>3, <2>2, <3>1 DEF StageOld, Grown
    <3> HIDE DEF s, c
    <3> QED
      BY <1>1, <2>2, <3>1, <3>2
  <2>3. CASE StageNew(<<Fresh(m)>>, InitCap)
    <3>1. <<Fresh(m)>> \in Seq(Sample) /\ Len(<<Fresh(m)>>) <= InitCap
      BY <2>1
    <3> QED
      BY <1>1, <2>3, <3>1
  <2> QED
    BY <1>5, <2>2, <2>3 DEF AddStored
<1>6. ASSUME NEW m \in Metric, AddDropped(m) PROVE CapInv'
  <2>1. CASE StageNew(<<>>, 0)
    <3>1. <<>> \in Seq(Sample) /\ 0 \in Nat /\ Len(<<>>) <= 0
      OBVIOUS
    <3> QED
      BY <1>1, <2>1, <3>1
  <2> QED
    BY <1>2, <1>6, <2>1 DEF AddDropped
<1>7. CASE PublishLock \/ PublishSwap \/ PublishUnlock
  BY <1>7 DEF PublishLock, PublishSwap, PublishUnlock
<1>8. CASE Scraper \/ UNCHANGED vars
  BY <1>8, ScraperFrame
<1> QED
  BY <1>4, <1>5, <1>6, <1>7, <1>8 DEF Next, Collector

\* What a change of the staging buffer does to the two snapshots.
LEMMA StageContents ==
  ASSUME TypeOK, OwnInv, cpc # "swapped", UNCHANGED g_published, NEW s, NEW c,
         StageNew(s, c) \/ StageOld(s, c)
  PROVE  Contents(g_staged)' = s /\ Contents(g_published)' = Contents(g_published)
<1> USE ConstantsAssumption DEF TypeOK, Pointer, OwnInv, Contents
<1>1. CASE StageNew(s, c)
  BY <1>1 DEF StageNew
<1>2. CASE StageOld(s, c)
  BY <1>2 DEF StageOld
<1> QED
  BY <1>1, <1>2

\* A stored metric is appended to the staged snapshot, whether or not the
\* staging buffer had to be allocated or to grow.
LEMMA StoredContents ==
  ASSUME TypeOK, OwnInv, NEW m \in Metric, AddStored(m)
  PROVE  Contents(g_staged)' = Append(Contents(g_staged), Fresh(m))
<1>1. CASE g_staged = NULL
  <2>1. StageNew(<<Fresh(m)>>, InitCap)
    BY <1>1 DEF AddStored, StageOld
  <2>2. Contents(g_staged)' = <<Fresh(m)>>
    BY <2>1, StageContents DEF AddStored
  <2>3. Contents(g_staged) = <<>>
    BY <1>1 DEF Contents
  <2> QED
    BY <2>2, <2>3
<1>2. CASE g_staged # NULL
  <2> DEFINE c == IF Len(items[g_staged]) >= cap[g_staged]
                  THEN Grown(cap[g_staged]) ELSE cap[g_staged]
  <2>1. StageOld(Append(items[g_staged], Fresh(m)), c)
    BY <1>2 DEF AddStored, StageNew
  <2> HIDE DEF c
  <2>2. Contents(g_staged)' = Append(items[g_staged], Fresh(m))
    BY <2>1, StageContents DEF AddStored
  <2> QED
    BY <1>2, <2>2 DEF Contents
<1> QED
  BY <1>1, <1>2

\* A dropped metric leaves the staged snapshot as it was.
LEMMA DroppedContents ==
  ASSUME TypeOK, OwnInv, NEW m \in Metric, AddDropped(m)
  PROVE  Contents(g_staged)' = Contents(g_staged)
<1>1. CASE StageNew(<<>>, 0)
  BY <1>1, StageContents DEF AddDropped, StageNew, Contents
<1> QED
  BY <1>1 DEF AddDropped, StageNone, Contents

\* A begin empties the staging buffer, an add stores or drops.
LEMMA StagedStep == TypeOK /\ OwnInv /\ StagedInv /\ [Next]_vars => StagedInv'
<1> SUFFICES ASSUME TypeOK, OwnInv, StagedInv, [Next]_vars PROVE StagedInv'
  OBVIOUS
<1> USE DEF StagedInv
<1>1. Contents(g_staged) \in Seq(Sample)
  BY DEF Contents, TypeOK, Pointer
<1>2. cur \in History
  BY DEF TypeOK
<1>3. CASE Begin
  <2>1. Contents(g_staged)' = <<>>
    <3>1. CASE StageNone
      BY <3>1 DEF StageNone, Contents
    <3> QED
      BY <1>3, <3>1, StageContents DEF Begin
  <2> QED
    BY <1>3, <2>1, LeftOfNothing DEF Begin
<1>4. ASSUME NEW m \in Metric, AddStored(m) PROVE StagedInv'
  <2>1. Fresh(m) \in Sample
    BY FreshSample
  <2>2. LeftOf(Append(Contents(g_staged), Fresh(m)), cur')
    BY <1>1, <1>2, <1>4, <2>1, LeftOfStored DEF AddStored
  <2>3. Contents(g_staged)' = Append(Contents(g_staged), Fresh(m))
    BY <1>4, StoredContents
  <2> QED
    BY <2>2, <2>3
<1>5. ASSUME NEW m \in Metric, AddDropped(m) PROVE StagedInv'
  <2>1. Fresh(m) \in Sample
    BY FreshSample
  <2>2. LeftOf(Contents(g_staged), cur')
    BY <1>1, <1>2, <1>5, <2>1, LeftOfDropped DEF AddDropped
  <2>3. Contents(g_staged)' = Contents(g_staged)
    BY <1>5, DroppedContents
  <2> QED
    BY <2>2, <2>3
<1>6. CASE PublishLock
  BY <1>6 DEF PublishLock, bvars, Contents
<1>7. CASE PublishSwap \/ PublishUnlock
  BY <1>7 DEF PublishSwap, PublishUnlock
<1>8. CASE Scraper \/ UNCHANGED vars
  BY <1>8, ScraperFrame DEF bvars, cvars, Contents
<1> QED
  BY <1>3, <1>4, <1>5, <1>6, <1>7, <1>8 DEF Next, Collector

\* The collection thread touches the staging buffer only, which before the swap
\* is not the published one.
LEMMA CollectFrame ==
  ASSUME TypeOK, OwnInv, Begin \/ \E m \in Metric : AddStored(m) \/ AddDropped(m)
  PROVE  /\ Contents(g_published)' = Contents(g_published)
         /\ UNCHANGED <<g_lock, g_published, tmp, hvars, pub, seen>>
<1>1. cpc # "swapped" /\ UNCHANGED <<g_lock, g_published, tmp, hvars, pub, seen>>
  BY DEF Begin, AddStored, AddDropped, cvars
<1>2. \/ \E s, c : StageNew(s, c) \/ StageOld(s, c)
      \/ UNCHANGED <<g_staged, heap, items, cap>>
  BY DEF Begin, AddStored, AddDropped, StageNone
<1>3. CASE UNCHANGED <<g_staged, heap, items, cap>>
  BY <1>1, <1>3 DEF Contents
<1> QED
  BY <1>1, <1>2, <1>3, StageContents

\* The published snapshot is what is left of one cycle's emissions: it changes
\* at the swap only.
LEMMA PublishedStep ==
  TypeOK /\ OwnInv /\ StagedInv /\ PublishedInv /\ [Next]_vars => PublishedInv'
<1> SUFFICES ASSUME TypeOK, OwnInv, StagedInv, PublishedInv, [Next]_vars
             PROVE  PublishedInv'
  OBVIOUS
<1> USE DEF PublishedInv
<1>1. CASE Begin \/ \E m \in Metric : AddStored(m) \/ AddDropped(m)
  BY <1>1, CollectFrame
<1>2. CASE PublishSwap
  BY <1>2 DEF PublishSwap, StagedInv, Contents, bvars
<1>3. CASE PublishLock \/ PublishUnlock
  BY <1>3 DEF PublishLock, PublishUnlock, Contents, bvars
<1>4. CASE Scraper \/ UNCHANGED vars
  BY <1>4, ScraperFrame DEF Contents, bvars
<1> QED
  BY <1>1, <1>2, <1>3, <1>4 DEF Next, Collector

\* While prom_render holds the lock, the published snapshot stands still.
LEMMA CollectorFrame ==
  ASSUME TypeOK, LockInv, OwnInv, Collector
  PROVE  /\ UNCHANGED <<hvars, seen>>
         /\ hpc \in {"locked", "memcpy"} =>
              /\ Contents(g_published)' = Contents(g_published)
              /\ UNCHANGED <<g_published, pub>>
<1>1. CASE Begin \/ \E m \in Metric : AddStored(m) \/ AddDropped(m)
  BY <1>1, CollectFrame
<1>2. CASE PublishLock \/ PublishUnlock
  BY <1>2 DEF PublishLock, PublishUnlock, Contents, bvars
<1>3. CASE PublishSwap
  <2>1. hpc \notin {"locked", "memcpy"}
    BY <1>3 DEF PublishSwap, LockInv
  <2> QED
    BY <1>3, <2>1 DEF PublishSwap
<1> QED
  BY <1>1, <1>2, <1>3 DEF Collector

\* The memcpy copies the snapshot that was published when the lock was taken.
LEMMA ScrapeStep ==
  TypeOK /\ LockInv /\ OwnInv /\ PublishedInv /\ ScrapeInv /\ [Next]_vars => ScrapeInv'
<1> SUFFICES ASSUME TypeOK, LockInv, OwnInv, PublishedInv, ScrapeInv, [Next]_vars
             PROVE  ScrapeInv'
  OBVIOUS
<1> USE DEF ScrapeInv, hvars, bvars
<1>1. CASE Collector
  <2>1. UNCHANGED <<hpc, p, room, copy, out, seen>>
    BY <1>1, CollectorFrame
  <2>2. hpc \in {"locked", "memcpy"} => UNCHANGED <<g_published, pub>>
    BY <1>1, CollectorFrame
  <2>3. hpc = "memcpy" => items'[p] = items[p]
    BY <1>1, CollectorFrame, <2>1, <2>2 DEF Contents
  <2> QED
    BY <2>1, <2>2, <2>3
<1>2. CASE RenderCall \/ RenderLock \/ RenderEmpty \/ RenderOom
  BY <1>2 DEF RenderCall, RenderLock, RenderEmpty, RenderOom
<1>3. CASE RenderMalloc
  BY <1>3 DEF RenderMalloc, Contents, TypeOK, Pointer
<1>4. CASE RenderCopy
  <2> DEFINE e == items[p][Len(copy) + 1]
  <2>1. items[p] \in Seq(Sample) /\ copy \in Seq(Sample)
    BY <1>4 DEF RenderCopy, TypeOK, Pointer
  <2>2. Len(copy) + 1 \in 1..Len(items[p]) /\ e \in Sample
    BY <1>4, <2>1 DEF RenderCopy
  <2>3. Len(copy') = Len(copy) + 1 /\ copy' = Append(copy, e)
    BY <1>4, <2>1, <2>2 DEF RenderCopy
  <2>4. \A i \in 1..Len(copy') : copy'[i] = items[p][i]
    BY <1>4, <2>1, <2>2, <2>3 DEF RenderCopy
  <2> QED
    BY <1>4, <2>1, <2>2, <2>3, <2>4 DEF RenderCopy
<1>5. CASE RenderUnlock
  <2>1. items[p] \in Seq(Sample) /\ copy \in Seq(Sample)
    BY <1>5 DEF RenderUnlock, TypeOK, Pointer
  <2>2. copy = items[p]
    BY <1>5, <2>1 DEF RenderUnlock
  <2>3. LeftOf(copy, seen)
    BY <1>5, <2>2 DEF RenderUnlock, PublishedInv, Contents
  <2> QED
    BY <1>5, <2>3 DEF RenderUnlock
<1>6. CASE RenderText
  BY <1>6 DEF RenderText
<1>7. CASE UNCHANGED vars
  BY <1>7 DEF vars
<1> QED
  BY <1>1, <1>2, <1>3, <1>4, <1>5, <1>6, <1>7 DEF Next, Scraper

\* Each return of prom_render answers from the cycle it looked at.
LEMMA ExactStep ==
  /\ TypeOK /\ LockInv /\ OwnInv /\ PublishedInv /\ ScrapeInv /\ ScrapeExact
  /\ [Next]_vars
  => ScrapeExact'
<1> SUFFICES ASSUME TypeOK, LockInv, OwnInv, PublishedInv, ScrapeInv, ScrapeExact,
                    [Next]_vars
             PROVE  ScrapeExact'
  OBVIOUS
<1> USE DEF ScrapeExact, hvars
<1>1. CASE Collector
  BY <1>1, CollectorFrame
<1>2. CASE RenderEmpty
  <2>1. Elements(<<>>) = {} /\ Rendered(<<>>) = {}
    BY DEF Elements, Rendered
  <2>2. LeftOf(<<>>, seen)
    BY <1>2 DEF RenderEmpty, ScrapeInv, PublishedInv
  <2>3. seen.alloc = "ok" => Rendered(seen.emits) = {}
    BY <2>1, <2>2 DEF LeftOf
  <2> QED
    BY <1>2, <2>3 DEF RenderEmpty
<1>3. CASE RenderOom
  BY <1>3 DEF RenderOom, Failed
<1>4. CASE RenderText
  <2>1. copy \in Seq(Sample) /\ seen.emits \in Seq(Sample) /\ LeftOf(copy, seen)
    BY <1>4 DEF RenderText, ScrapeInv, TypeOK, History
  <2>2. Rendered(copy) \subseteq Rendered(seen.emits)
    BY <2>1, RenderedMonotone DEF LeftOf
  <2>3. seen.alloc = "ok" => Rendered(copy) = Rendered(seen.emits)
    BY <2>1 DEF LeftOf
  <2> QED
    BY <1>4, <2>2, <2>3 DEF RenderText, Failed
<1>5. CASE RenderCall \/ RenderLock \/ RenderMalloc \/ RenderCopy \/ RenderUnlock
  BY <1>5 DEF RenderCall, RenderLock, RenderMalloc, RenderCopy, RenderUnlock
<1>6. CASE UNCHANGED vars
  BY <1>6 DEF vars
<1> QED
  BY <1>1, <1>2, <1>3, <1>4, <1>5, <1>6 DEF Next, Scraper

-----------------------------------------------------------------------------
(* The theorems.                                                           *)

\* The invariant of the two threads, the lock and the buffers is inductive.
THEOREM Invariant == Spec => []IInv
<1>1. Init => IInv
  <2> SUFFICES ASSUME Init PROVE IInv
    OBVIOUS
  <2>1. TypeOK
    BY ConstantsAssumption DEF Init, TypeOK, Pointer, History, NoEmits
  <2>2. LockInv /\ OwnInv /\ CapInv
    BY DEF Init, LockInv, OwnInv, CapInv
  <2>3. StagedInv /\ PublishedInv
    BY LeftOfNothing DEF Init, StagedInv, PublishedInv, Contents
  <2>4. ScrapeInv /\ ScrapeExact
    BY DEF Init, ScrapeInv, ScrapeExact
  <2> QED
    BY <2>1, <2>2, <2>3, <2>4 DEF IInv
<1>2. IInv /\ [Next]_vars => IInv'
  BY TypeStep, LockStep, OwnStep, CapStep, StagedStep, PublishedStep, ScrapeStep,
     ExactStep DEF IInv
<1> QED
  BY <1>1, <1>2, PTL DEF Spec

\* prom_snapshot_add and the memcpy of prom_render stay inside their arrays.
THEOREM MemorySafety == Spec => []MemorySafe
<1>1. IInv => MemorySafe
  BY DEF IInv, MemorySafe, CapInv, ScrapeInv, OwnInv
<1> QED
  BY <1>1, Invariant, PTL

\* prom_snapshot_publish recycles: two buffers at most, never aliased, no leak.
THEOREM Ownership == Spec => []BuffersOwned
<1>1. IInv => BuffersOwned
  <2> SUFFICES ASSUME IInv PROVE Cardinality(heap) <= 2
    BY DEF IInv, BuffersOwned, OwnInv
  <2>1. PICK a, b : heap \subseteq {a, b}
    BY DEF IInv, OwnInv, TypeOK
  <2>2. IsFiniteSet({a, b}) /\ Cardinality({a, b}) <= 2
    <3>1. IsFiniteSet({b}) /\ Cardinality({b}) = 1
      BY FS_Singleton
    <3>2. {a, b} = {b} \cup {a}
      OBVIOUS
    <3>3. IsFiniteSet({b} \cup {a})
          /\ Cardinality({b} \cup {a}) = IF a \in {b} THEN Cardinality({b})
                                                     ELSE Cardinality({b}) + 1
      BY <3>1, FS_AddElement
    <3> QED
      BY <3>1, <3>2, <3>3
  <2> QED
    BY <2>1, <2>2, FS_Subset, FS_CardinalityType
<1> QED
  BY <1>1, Invariant, PTL

\* A scrape shows one published cycle, all of it unless memory ran out.
THEOREM Exactness == Spec => []ScrapeExact
<1>1. IInv => ScrapeExact
  BY DEF IInv
<1> QED
  BY <1>1, Invariant, PTL

\* The buffer a scrape may be reading is never written.
THEOREM Immutability == Spec => PublishedImmutable
<1>1. IInv /\ [Next]_vars =>
        [g_published # NULL /\ g_published' = g_published
           => items'[g_published] = items[g_published]]_vars
  <2> SUFFICES ASSUME IInv, Next, g_published # NULL, g_published' = g_published
               PROVE  items'[g_published] = items[g_published]
    OBVIOUS
  <2>1. CASE Begin \/ \E m \in Metric : AddStored(m) \/ AddDropped(m)
    BY <2>1, CollectFrame DEF IInv, Contents
  <2>2. CASE PublishLock \/ PublishSwap \/ PublishUnlock
    BY <2>2 DEF PublishLock, PublishSwap, PublishUnlock, bvars
  <2>3. CASE Scraper
    BY <2>3, ScraperFrame DEF bvars
  <2> QED
    BY <2>1, <2>2, <2>3 DEF Next, Collector
<1> QED
  BY <1>1, Invariant, PTL DEF Spec, PublishedImmutable

\* The swap under g_lock and the copy under g_lock implement one atomic
\* snapshot: publish takes effect at the swap, a scrape at the lock.
THEOREM Refinement == Spec => ImplementsAtomic
<1>1. Init => Atomic!Init
  BY DEF Init, Atomic!Init, Contents
<1>2. IInv /\ [Next]_vars => [Atomic!Next]_(Atomic!vars)
  <2> SUFFICES ASSUME IInv, [Next]_vars PROVE [Atomic!Next]_(Atomic!vars)
    OBVIOUS
  <2> USE DEF cvars, hvars, bvars
  <2>1. TypeOK /\ LockInv /\ OwnInv /\ ScrapeInv
    BY DEF IInv
  <2>2. ASSUME Begin \/ \E m \in Metric : AddStored(m) \/ AddDropped(m)
        PROVE  UNCHANGED <<Contents(g_published), hpc, p, copy, out,
                           IF hpc \in {"locked", "memcpy"} THEN Contents(p) ELSE copy>>
    <3>1. UNCHANGED <<Contents(g_published), g_published, hpc, p, copy, out>>
      BY <2>1, <2>2, CollectFrame
    <3>2. hpc \in {"locked", "memcpy"} => p = g_published
      BY <2>1 DEF ScrapeInv
    <3> QED
      BY <3>1, <3>2
  <2>3. CASE Begin
    <3>1. Contents(g_staged)' = <<>>
      <4>1. CASE StageNone
        BY <4>1 DEF StageNone, Contents
      <4> QED
        BY <2>1, <2>3, <4>1, StageContents DEF Begin
    <3>2. Atomic!Begin
      BY <2>2, <2>3, <3>1 DEF Begin, Atomic!Begin
    <3> QED
      BY <3>2 DEF Atomic!Next
  <2>4. ASSUME NEW m \in Metric, AddStored(m) PROVE [Atomic!Next]_(Atomic!vars)
    <3>1. Contents(g_staged)' = Append(Contents(g_staged), Fresh(m))
      BY <2>1, <2>4, StoredContents
    <3>2. cpc = "collect" /\ cpc' = "collect" /\ cycle' = cycle
      BY <2>4 DEF AddStored
    <3>3. Atomic!Add(m)
      BY <2>2, <2>4, <3>1, <3>2 DEF Atomic!Add, Fresh
    <3> QED
      BY <3>3 DEF Atomic!Next
  <2>5. ASSUME NEW m \in Metric, AddDropped(m) PROVE UNCHANGED Atomic!vars
    <3>1. Contents(g_staged)' = Contents(g_staged)
      BY <2>1, <2>5, DroppedContents
    <3>2. cpc = "collect" /\ cpc' = "collect" /\ cycle' = cycle
      BY <2>5 DEF AddDropped
    <3> QED
      BY <2>2, <2>5, <3>1, <3>2 DEF Atomic!vars
  <2>6. CASE PublishLock
    BY <2>6 DEF PublishLock, Contents, Atomic!vars
  <2>7. CASE PublishSwap
    <3>1. hpc \notin {"locked", "memcpy"}
      BY <2>1, <2>7 DEF PublishSwap, LockInv
    <3>2. Atomic!Publish
      BY <2>7, <3>1 DEF PublishSwap, Contents, Atomic!Publish
    <3> QED
      BY <3>2 DEF Atomic!Next
  <2>8. CASE PublishUnlock
    BY <2>8 DEF PublishUnlock, Contents, Atomic!vars
  <2>9. CASE RenderCall \/ RenderMalloc \/ RenderCopy
    BY <2>9 DEF RenderCall, RenderMalloc, RenderCopy, Contents, Atomic!vars
  <2>10. CASE RenderLock
    <3>1. Atomic!Look
      BY <2>10 DEF RenderLock, Contents, Atomic!Look
    <3> QED
      BY <3>1 DEF Atomic!Next
  <2>11. CASE RenderEmpty \/ RenderOom
    <3>1. copy = <<>> /\ copy' = <<>>
      BY <2>1, <2>11 DEF RenderEmpty, RenderOom, ScrapeInv
    <3>2. out' = NULL \/ out' = {}
      BY <2>11 DEF RenderEmpty, RenderOom
    <3>3. Atomic!Answer
      BY <2>11, <3>1, <3>2 DEF RenderEmpty, RenderOom, Contents, Atomic!Answer
    <3> QED
      BY <3>3 DEF Atomic!Next
  <2>12. CASE RenderUnlock
    <3>1. copy = items[p]
      BY <2>1, <2>12 DEF RenderUnlock, ScrapeInv, TypeOK, Pointer
    <3>2. Contents(p) = copy
      BY <2>1, <2>12, <3>1 DEF RenderUnlock, ScrapeInv, Contents
    <3> QED
      BY <2>12, <3>2 DEF RenderUnlock, Contents, Atomic!vars
  <2>13. CASE RenderText
    <3>1. Rendered(copy) = Atomic!Rendered(copy)
      BY DEF Rendered, Atomic!Rendered
    <3>2. out' = NULL \/ out' \in SUBSET Atomic!Rendered(copy)
      BY <2>13, <3>1 DEF RenderText
    <3>3. Atomic!Answer
      BY <2>13, <3>2 DEF RenderText, Contents, Atomic!Answer
    <3> QED
      BY <3>3 DEF Atomic!Next
  <2>14. CASE UNCHANGED vars
    BY <2>14 DEF vars, Contents, Atomic!vars
  <2> QED
    BY <2>3, <2>4, <2>5, <2>6, <2>7, <2>8, <2>9, <2>10, <2>11, <2>12, <2>13, <2>14
       DEF Next, Collector, Scraper
<1> QED
  BY <1>1, <1>2, Invariant, PTL DEF Spec, ImplementsAtomic, Atomic!Spec
=============================================================================
