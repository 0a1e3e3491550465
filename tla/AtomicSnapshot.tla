--------------------------- MODULE AtomicSnapshot ---------------------------
(***************************************************************************)
(* What the metric snapshot of prom.c promises to its two users, with no   *)
(* buffers, pointers or lock: the collection thread builds one snapshot    *)
(* per cycle and makes it visible in ONE step, and a scrape answers from   *)
(* the snapshot that was visible at ONE instant of the scrape.  A failed   *)
(* allocation may cost samples, never mix samples of different cycles.     *)
(***************************************************************************)
EXTENDS Naturals, Sequences

CONSTANTS
    Metric,     \* what a reader can emit: a (plugin, instance, type, ...) name
    Ruled,      \* the metrics that have a row in RULES; the others are skipped
    Tags,       \* number of distinct cycle tags (cycles are numbered modulo it)
    NULL        \* the C null pointer, here "no answer"

VARIABLES
    phase,      \* "idle" between two cycles, "collect" inside one
    cycle,      \* the tag of the current cycle
    staged,     \* what the current cycle has collected so far
    visible,    \* the last snapshot published
    scrape,     \* "idle", or "answering" once its instant is chosen
    view,       \* the snapshot the scrape answers from
    answer      \* the samples of the answer, or NULL

vars == <<phase, cycle, staged, visible, scrape, view, answer>>

\* A deep-copied sample; its value is represented by the cycle it was read in.
Sample == [metric : Metric, cycle : 0..Tags-1]

\* The samples a rendering of the snapshot s shows.
Rendered(s) == {s[i] : i \in {j \in 1..Len(s) : s[j].metric \in Ruled}}

Init ==
    /\ phase = "idle" /\ cycle = 0 /\ staged = <<>> /\ visible = <<>>
    /\ scrape = "idle" /\ view = <<>> /\ answer = {}

Begin ==
    /\ phase = "idle"
    /\ phase' = "collect"
    /\ cycle' = (cycle + 1) % Tags
    /\ staged' = <<>>
    /\ UNCHANGED <<visible, scrape, view, answer>>

\* A metric is added to the snapshot of this cycle, or lost to a failed
\* allocation (a stuttering step).
Add(m) ==
    /\ phase = "collect"
    /\ staged' = Append(staged, [metric |-> m, cycle |-> cycle])
    /\ UNCHANGED <<phase, cycle, visible, scrape, view, answer>>

Publish ==
    /\ phase = "collect"
    /\ phase' = "idle"
    /\ visible' = staged
    /\ staged' = <<>>
    /\ UNCHANGED <<cycle, scrape, view, answer>>

Look ==
    /\ scrape = "idle"
    /\ scrape' = "answering"
    /\ view' = visible
    /\ answer' = {}
    /\ UNCHANGED <<phase, cycle, staged, visible>>

\* Allocation failures shorten the answer, down to a null pointer.
Answer ==
    /\ scrape = "answering"
    /\ scrape' = "idle"
    /\ answer' = NULL \/ answer' \in SUBSET Rendered(view)
    /\ view' = <<>>
    /\ UNCHANGED <<phase, cycle, staged, visible>>

Next == Begin \/ (\E m \in Metric : Add(m)) \/ Publish \/ Look \/ Answer

Spec == Init /\ [][Next]_vars
=============================================================================
