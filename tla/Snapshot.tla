------------------------------ MODULE Snapshot ------------------------------
(***************************************************************************)
(* The metric snapshot of prom.c: the collection thread fills g_staged     *)
(* (prom_snapshot_begin, prom_snapshot_add) and swaps it with g_published  *)
(* under g_lock (prom_snapshot_publish); the HTTP thread copies            *)
(* g_published under the same lock and renders the copy (prom_render).     *)
(* Every allocation may fail.  One step is one access to shared state, so  *)
(* the two threads interleave inside publish and inside the memcpy.        *)
(***************************************************************************)
EXTENDS Naturals, Sequences, FiniteSets

CONSTANTS
    Metric,     \* what a reader can emit: a (plugin, instance, type, ...) name
    Ruled,      \* the metrics that have a row in RULES
    Buffer,     \* the addresses calloc can return for a snap_buf_t
    NULL,       \* the null pointer
    InitCap,    \* first capacity of a buffer (32 in sb_reserve)
    Tags,       \* number of distinct cycle tags
    MaxAdds     \* bound: metrics emitted in one cycle

ASSUME ConstantsAssumption ==
    /\ Ruled \subseteq Metric
    /\ NULL \notin Buffer
    /\ InitCap \in Nat \ {0}
    /\ Tags \in Nat \ {0}
    /\ MaxAdds \in Nat

VARIABLES
    g_lock,      \* "free", "collector" or "http"
    g_staged,    \* buffer being filled, or NULL
    g_published, \* buffer served to scrapes, or NULL
    heap,        \* the snap_buf_t currently allocated
    items,       \* items[b]: the first count entries of buffer b
    cap,         \* cap[b]: entries allocated for buffer b
    \* the collection thread
    cpc,         \* "idle", "collect", "locked", "swapped"
    tmp,         \* prom_snapshot_publish's local
    cycle,       \* tag of the current cycle (stands for its values)
    \* the HTTP thread inside prom_render
    hpc,         \* "idle", "wait", "locked", "memcpy", "render", "done"
    p,           \* the published buffer it copies
    room,        \* entries malloc'd for copy
    copy,        \* entries copied so far
    out,         \* samples of the text returned, or NULL
    \* history: what the readers emitted, and whether an allocation failed
    cur,         \* for the cycle being collected
    pub,         \* for the cycle published last
    seen         \* for the cycle the scrape answers from

cvars == <<cpc, tmp, cycle>>
hvars == <<hpc, p, room, copy, out>>
bvars == <<heap, items, cap>>
vars  == <<g_lock, g_staged, g_published, bvars, cvars, hvars, cur, pub, seen>>

Sample == [metric : Metric, cycle : 0..Tags-1]
History == [emits : Seq(Sample), alloc : {"ok", "failed"}]
Pointer == Buffer \cup {NULL}
NoEmits == [emits |-> <<>>, alloc |-> "ok"]
Failed(h) == [emits |-> h.emits, alloc |-> "failed"]

\* The samples render_to_dstring shows: find_rule skips a metric without a rule.
Rendered(s) == {s[i] : i \in {j \in 1..Len(s) : s[j].metric \in Ruled}}

\* What a snapshot pointer holds; a null one holds nothing.
Contents(b) == IF b = NULL THEN <<>> ELSE items[b]

TypeOK ==
    /\ g_lock \in {"free", "collector", "http"}
    /\ g_staged \in Pointer /\ g_published \in Pointer
    /\ heap \subseteq Buffer
    /\ items \in [Buffer -> Seq(Sample)]
    /\ cap \in [Buffer -> Nat]
    /\ cpc \in {"idle", "collect", "locked", "swapped"}
    /\ tmp \in Pointer
    /\ cycle \in 0..Tags-1
    /\ hpc \in {"idle", "wait", "locked", "memcpy", "render", "done"}
    /\ p \in Pointer /\ (hpc = "memcpy" => p # NULL)
    /\ room \in Nat
    /\ copy \in Seq(Sample)
    /\ out = NULL \/ out \subseteq Sample
    /\ cur \in History /\ pub \in History /\ seen \in History

Init ==
    /\ g_lock = "free"
    /\ g_staged = NULL /\ g_published = NULL
    /\ heap = {} /\ items = [b \in Buffer |-> <<>>] /\ cap = [b \in Buffer |-> 0]
    /\ cpc = "idle" /\ tmp = NULL /\ cycle = 0
    /\ hpc = "idle" /\ p = NULL /\ room = 0 /\ copy = <<>> /\ out = {}
    /\ cur = NoEmits /\ pub = NoEmits /\ seen = NoEmits

-----------------------------------------------------------------------------
(* The collection thread.                                                  *)

\* sb_new succeeds: a zeroed buffer becomes the staging buffer; its contents
\* and capacity are then s and c.
StageNew(s, c) ==
    /\ g_staged = NULL
    /\ \E b \in Buffer \ heap :
          /\ g_staged' = b
          /\ heap' = heap \cup {b}
          /\ items' = [items EXCEPT ![b] = s]
          /\ cap' = [cap EXCEPT ![b] = c]

\* sb_new fails.
StageNone ==
    /\ g_staged = NULL
    /\ UNCHANGED <<g_staged, heap, items, cap>>

\* The staging buffer exists; its contents and capacity become s and c.
StageOld(s, c) ==
    /\ g_staged # NULL
    /\ items' = [items EXCEPT ![g_staged] = s]
    /\ cap' = [cap EXCEPT ![g_staged] = c]
    /\ UNCHANGED <<g_staged, heap>>

\* Mutant: the recycled buffer keeps its count.
BeginNoReset ==
    /\ cpc = "idle"
    /\ cpc' = "collect"
    /\ cycle' = (cycle + 1) % Tags
    /\ cur' = NoEmits
    /\ StageOld(items[g_staged], cap[g_staged]) \/ StageNew(<<>>, 0) \/ StageNone
    /\ UNCHANGED <<g_lock, g_published, tmp, hvars, pub, seen>>

\* prom_snapshot_begin: have a staging buffer if possible, and empty it.
Begin ==
    /\ cpc = "idle"
    /\ cpc' = "collect"
    /\ cycle' = (cycle + 1) % Tags
    /\ cur' = NoEmits
    /\ StageOld(<<>>, cap[g_staged]) \/ StageNew(<<>>, 0) \/ StageNone
    /\ UNCHANGED <<g_lock, g_published, tmp, hvars, pub, seen>>

\* Mutant: the capacity stops growing after the first allocation.
GrownOnce(c) == IF c = 0 THEN InitCap ELSE c

\* sb_reserve for one more entry: the capacity starts at InitCap and doubles.
Grown(c) == IF c = 0 THEN InitCap ELSE 2 * c

\* The sample of m that copy_metric stores in this cycle.
Fresh(m) == [metric |-> m, cycle |-> cycle]

\* prom_snapshot_add, the metric fits or the buffer could grow.
AddStored(m) ==
    /\ cpc = "collect" /\ Len(cur.emits) < MaxAdds
    /\ cur' = [emits |-> Append(cur.emits, Fresh(m)), alloc |-> cur.alloc]
    /\ \/ StageOld(Append(items[g_staged], Fresh(m)),
                   IF Len(items[g_staged]) >= cap[g_staged]
                   THEN Grown(cap[g_staged]) ELSE cap[g_staged])
       \/ StageNew(<<Fresh(m)>>, InitCap)
    /\ UNCHANGED <<g_lock, g_published, cvars, hvars, pub, seen>>

\* prom_snapshot_add drops the metric: calloc failed, or the realloc of
\* sb_reserve failed, on a fresh buffer or on a full one.
AddDropped(m) ==
    /\ cpc = "collect" /\ Len(cur.emits) < MaxAdds
    /\ cur' = [emits |-> Append(cur.emits, Fresh(m)), alloc |-> "failed"]
    /\ \/ StageNone
       \/ StageNew(<<>>, 0)
       \/ /\ g_staged # NULL /\ Len(items[g_staged]) >= cap[g_staged]
          /\ UNCHANGED <<g_staged, heap, items, cap>>
    /\ UNCHANGED <<g_lock, g_published, cvars, hvars, pub, seen>>

\* Mutant: publish does not wait for the lock.
PublishLockNoWait ==
    /\ cpc = "collect"
    /\ cpc' = "locked" /\ g_lock' = "collector"
    /\ UNCHANGED <<g_staged, g_published, bvars, tmp, cycle, hvars, cur, pub, seen>>

\* prom_snapshot_publish: lock; swap the pointers; unlock.
PublishLock ==
    /\ cpc = "collect" /\ g_lock = "free"
    /\ cpc' = "locked" /\ g_lock' = "collector"
    /\ UNCHANGED <<g_staged, g_published, bvars, tmp, cycle, hvars, cur, pub, seen>>

PublishSwap ==
    /\ cpc = "locked"
    /\ cpc' = "swapped"
    /\ tmp' = g_published
    /\ g_published' = g_staged
    /\ pub' = cur
    /\ UNCHANGED <<g_lock, g_staged, bvars, cycle, hvars, cur, seen>>

\* Mutant: the old buffer is forgotten.
PublishUnlockLeak ==
    /\ cpc = "swapped"
    /\ cpc' = "idle" /\ g_lock' = "free"
    /\ g_staged' = NULL /\ tmp' = NULL
    /\ UNCHANGED <<g_published, bvars, cycle, hvars, cur, pub, seen>>

\* Mutant: the staging pointer is left on the published buffer.
PublishUnlockAlias ==
    /\ cpc = "swapped"
    /\ cpc' = "idle" /\ g_lock' = "free" /\ tmp' = NULL
    /\ UNCHANGED <<g_staged, g_published, bvars, cycle, hvars, cur, pub, seen>>

PublishUnlock ==
    /\ cpc = "swapped"
    /\ cpc' = "idle" /\ g_lock' = "free"
    /\ g_staged' = tmp /\ tmp' = NULL
    /\ UNCHANGED <<g_published, bvars, cycle, hvars, cur, pub, seen>>

-----------------------------------------------------------------------------
(* The HTTP thread, inside prom_render.                                    *)

\* A scrape calls prom_render and waits for the lock.
RenderCall ==
    /\ hpc \in {"idle", "done"}
    /\ hpc' = "wait"
    /\ UNCHANGED <<g_lock, g_staged, g_published, bvars, cvars, p, room, copy, out, cur, pub, seen>>

RenderLock ==
    /\ hpc = "wait" /\ g_lock = "free"
    /\ hpc' = "locked" /\ g_lock' = "http"
    /\ p' = g_published /\ out' = {} /\ seen' = pub
    /\ UNCHANGED <<g_staged, g_published, bvars, cvars, room, copy, cur, pub>>

\* Mutant: this early return keeps the lock.
RenderEmptyLocked ==
    /\ hpc = "locked" /\ Contents(p) = <<>>
    /\ hpc' = "done"
    /\ p' = NULL /\ out' = {}
    /\ UNCHANGED <<g_lock, g_staged, g_published, bvars, cvars, room, copy, cur, pub, seen>>

\* No snapshot or an empty one: unlock and return "".
RenderEmpty ==
    /\ hpc = "locked" /\ Contents(p) = <<>>
    /\ hpc' = "done" /\ g_lock' = "free"
    /\ p' = NULL /\ out' = {}
    /\ UNCHANGED <<g_staged, g_published, bvars, cvars, room, copy, cur, pub, seen>>

\* Mutant: the out-of-memory return keeps the lock.
RenderOomLocked ==
    /\ hpc = "locked"
    /\ hpc' = "done"
    /\ p' = NULL /\ out' = {}
    /\ seen' = Failed(seen)
    /\ UNCHANGED <<g_lock, g_staged, g_published, bvars, cvars, room, copy, cur, pub>>

\* No memory for the copy: unlock and return "".  With or without a copy to
\* make, NULL is returned when malloc(1) fails.
RenderOom ==
    /\ hpc = "locked"
    /\ hpc' = "done" /\ g_lock' = "free"
    /\ p' = NULL
    /\ \/ out' = NULL
       \/ out' = {} /\ Contents(p) # <<>>
    /\ seen' = Failed(seen)
    /\ UNCHANGED <<g_staged, g_published, bvars, cvars, room, copy, cur, pub>>

\* Mutant: no test for a missing snapshot.
RenderMallocUnchecked ==
    /\ hpc = "locked"
    /\ hpc' = "memcpy"
    /\ room' = Len(Contents(p))
    /\ UNCHANGED <<g_lock, g_staged, g_published, bvars, cvars, p, copy, out, cur, pub, seen>>

RenderMalloc ==
    /\ hpc = "locked" /\ Contents(p) # <<>>
    /\ hpc' = "memcpy"
    /\ room' = Len(items[p])
    /\ UNCHANGED <<g_lock, g_staged, g_published, bvars, cvars, p, copy, out, cur, pub, seen>>

\* The memcpy moves p->count entries, one step each.
RenderCopy ==
    /\ hpc = "memcpy" /\ Len(copy) < Len(items[p])
    /\ copy' = Append(copy, items[p][Len(copy) + 1])
    /\ UNCHANGED <<g_lock, g_staged, g_published, bvars, cvars, hpc, p, room, out, cur, pub, seen>>

RenderUnlock ==
    /\ hpc = "memcpy" /\ Len(copy) >= Len(items[p])
    /\ hpc' = "render" /\ g_lock' = "free"
    /\ p' = NULL
    /\ UNCHANGED <<g_staged, g_published, bvars, cvars, room, copy, out, cur, pub, seen>>

\* render_to_dstring on the private copy, which is then freed.  A failed realloc
\* of the text drops appends; if the first one fails the text is "" or NULL.
RenderText ==
    /\ hpc = "render"
    /\ hpc' = "done" /\ copy' = <<>> /\ room' = 0
    /\ \/ out' = Rendered(copy) /\ seen' = seen
       \/ /\ out' = NULL \/ out' \in SUBSET Rendered(copy)
          /\ seen' = Failed(seen)
    /\ UNCHANGED <<g_lock, g_staged, g_published, bvars, cvars, p, cur, pub>>

-----------------------------------------------------------------------------
Collector ==
    \/ Begin
    \/ \E m \in Metric : AddStored(m) \/ AddDropped(m)
    \/ PublishLock \/ PublishSwap \/ PublishUnlock

Scraper ==
    \/ RenderCall \/ RenderLock \/ RenderEmpty \/ RenderOom
    \/ RenderMalloc \/ RenderCopy \/ RenderUnlock \/ RenderText

Next == Collector \/ Scraper

Spec == Init /\ [][Next]_vars

\* Each thread keeps running.  A cycle ends because the readers scan finite
\* files; g_lock is given in the end to a thread that keeps asking for it: the
\* holder copies a finite array, and between two acquisitions the collection
\* thread sleeps and the HTTP thread waits for a client.  New scrapes are the
\* clients' choice and get no fairness.
Fairness ==
    /\ WF_vars(Begin) /\ SF_vars(PublishLock)
    /\ WF_vars(PublishSwap) /\ WF_vars(PublishUnlock)
    /\ SF_vars(RenderLock)
    /\ WF_vars(RenderEmpty \/ RenderOom \/ RenderMalloc \/ RenderCopy)
    /\ WF_vars(RenderUnlock) /\ WF_vars(RenderText)

LiveSpec == Spec /\ Fairness

-----------------------------------------------------------------------------
(* Properties.                                                             *)

\* No entry is written past the end of a buffer: prom_snapshot_add stores only
\* below the capacity sb_reserve really obtained, and the memcpy of prom_render
\* moves exactly as many entries as were malloc'd, all of the published buffer.
MemorySafe ==
    /\ \A b \in heap : Len(items[b]) <= cap[b]
    /\ hpc = "memcpy" => /\ p = g_published /\ p \in heap
                         /\ room = Len(items[p]) /\ Len(copy) <= room

\* The swap of prom_snapshot_publish recycles the old buffer: the two pointers
\* never alias outside the swap, and no buffer is lost to a leak.
BuffersOwned ==
    /\ heap = {g_staged, g_published, tmp} \ {NULL}
    /\ cpc # "swapped" /\ g_staged # NULL => g_staged # g_published
    /\ Cardinality(heap) <= 2

\* A scrape shows samples of ONE cycle, the one published when prom_render took
\* the lock, and all of them unless an allocation failed in that cycle or in
\* that scrape: no leftovers of a reused buffer, no mixture of two cycles.
ScrapeExact ==
    hpc = "done" =>
        /\ out # NULL => out \subseteq Rendered(seen.emits)
        /\ seen.alloc = "ok" => out = Rendered(seen.emits)

\* The collection thread never writes into the buffer being served.
PublishedImmutable ==
    [][g_published # NULL /\ g_published' = g_published
         => items'[g_published] = items[g_published]]_vars

\* Every scrape gets its answer: each return path of prom_render unlocks g_lock.
ScrapeAnswered == hpc = "wait" ~> hpc = "done"

\* A scrape cannot keep the collection thread from publishing.
CycleCompletes == cpc = "collect" ~> cpc = "idle"

\* The buffers, the swap and the copy implement one atomic snapshot.  A publish
\* takes effect at the swap, a scrape at the lock.
Atomic == INSTANCE AtomicSnapshot WITH
    phase   <- IF cpc \in {"collect", "locked"} THEN "collect" ELSE "idle",
    staged  <- IF cpc \in {"collect", "locked"} THEN Contents(g_staged) ELSE <<>>,
    visible <- Contents(g_published),
    scrape  <- IF hpc \in {"locked", "memcpy", "render"} THEN "answering" ELSE "idle",
    view    <- IF hpc \in {"locked", "memcpy"} THEN Contents(p) ELSE copy,
    answer  <- out

\* The specification AtomicSnapshot is implemented.
ImplementsAtomic == Atomic!Spec
=============================================================================
