----------------------------- MODULE CpuReader -----------------------------
(***************************************************************************)
(* readers/cpu.c: the one reader that keeps state.  It shows the share of  *)
(* busy time between two passes, from counters of the kernel of which idle *)
(* and iowait may go back.  The ten fields of the line are three counters  *)
(* here: busy is the sum of the eight that are neither idle nor iowait.    *)
(***************************************************************************)
EXTENDS Integers

CONSTANTS
    Boot,    \* the counters when the collector starts
    Advance  \* what the kernel may add to them between two passes

Counters == [busy : Nat, idle : Nat, iowait : Nat]

ASSUME CpuAssumption ==
    Boot \subseteq Counters /\ Advance \subseteq [busy : Nat, idle : Int, iowait : Int]

VARIABLES
    stat,       \* the counters of the "cpu " line
    prev_busy,  \* of the last pass that could read them, -1 before
    prev_total,
    sample,     \* what the last pass emitted, the quotient busy / total
    seen,       \* history: the counters at the last pass that could read them
    first,      \* history: busy when the reader was primed
    accounted,  \* history: busy time in all samples
    dropped,    \* history: busy time between passes that gave no sample
    back        \* history: whether idle + iowait went back before the last pass

cpu == <<stat, prev_busy, prev_total, sample, seen, first, accounted, dropped, back>>
cpu_hist == <<seen, first, accounted, dropped, back>>

Total(s) == s.busy + s.idle + s.iowait
Quiet(s) == s.idle + s.iowait

\* A sample has a positive total.
NoSample == [busy |-> 0, total |-> 0]

CpuTypeOK ==
    /\ stat \in Counters /\ seen \in Counters
    /\ prev_busy \in Int /\ prev_total \in Int
    /\ sample \in [busy : Int, total : Nat]
    /\ first \in Nat /\ accounted \in Int /\ dropped \in Int
    /\ back \in BOOLEAN

CpuInit ==
    /\ stat \in Boot /\ seen = stat
    /\ prev_busy = -1 /\ prev_total = -1 /\ sample = NoSample
    /\ first = stat.busy /\ accounted = 0 /\ dropped = 0 /\ back = FALSE

\* The kernel counts on.
CpuTicks(a) ==
    /\ stat.idle + a.idle >= 0 /\ stat.iowait + a.iowait >= 0
    /\ stat' = [busy |-> stat.busy + a.busy, idle |-> stat.idle + a.idle,
                iowait |-> stat.iowait + a.iowait]
    /\ UNCHANGED <<prev_busy, prev_total, sample, cpu_hist>>

\* The histories of a pass that reads the counters.
Account ==
    /\ seen' = stat /\ back' = (Quiet(stat) < Quiet(seen))
    /\ IF prev_busy < 0
       THEN first' = stat.busy /\ UNCHANGED <<accounted, dropped>>
       ELSE /\ accounted' = accounted + sample'.busy
            /\ dropped' = IF sample'.total > 0 THEN dropped
                          ELSE dropped + (stat.busy - seen.busy)
            /\ UNCHANGED first

\* Mutant: iowait is taken for busy time.
CpuReadIowait ==
    /\ sample' = IF prev_busy >= 0 /\ Total(stat) - prev_total > 0
                 THEN [busy |-> Total(stat) - stat.idle - prev_busy,
                       total |-> Total(stat) - prev_total]
                 ELSE NoSample
    /\ prev_busy' = Total(stat) - stat.idle /\ prev_total' = Total(stat)
    /\ Account
    /\ UNCHANGED stat

\* Mutant: a sample even if time has not advanced.
CpuReadAlways ==
    /\ sample' = IF prev_busy >= 0
                 THEN [busy |-> stat.busy - prev_busy, total |-> Total(stat) - prev_total]
                 ELSE NoSample
    /\ prev_busy' = stat.busy /\ prev_total' = Total(stat)
    /\ Account
    /\ UNCHANGED stat

\* cpu_read when the line is there: a sample if there was a pass before and time
\* has advanced, and the state of the next pass in any case.
CpuRead ==
    /\ sample' = IF prev_busy >= 0 /\ Total(stat) - prev_total > 0
                 THEN [busy |-> stat.busy - prev_busy, total |-> Total(stat) - prev_total]
                 ELSE NoSample
    /\ prev_busy' = stat.busy /\ prev_total' = Total(stat)
    /\ Account
    /\ UNCHANGED stat

\* Mutant: a line that was not found is taken for one of zeros.
CpuReadFailsZero ==
    /\ sample' = NoSample
    /\ prev_busy' = 0 /\ prev_total' = 0
    /\ UNCHANGED <<stat, cpu_hist>>

\* The file or the line is missing, or the line has less than four numbers.
CpuReadFails ==
    /\ sample' = NoSample
    /\ UNCHANGED <<stat, prev_busy, prev_total, cpu_hist>>

CpuNext == (\E a \in Advance : CpuTicks(a)) \/ CpuRead \/ CpuReadFails

-----------------------------------------------------------------------------
(* Properties.                                                             *)

\* Whatever passes fail in between, every tick of busy time since the first pass
\* is in exactly one sample, but for those of passes in which the sum of all
\* counters had not advanced.
BusyAccounted == prev_busy >= 0 => seen.busy = first + accounted + dropped

\* The percentage is one, unless idle + iowait went back between the passes.
PercentExplained ==
    sample.total > 0 => (0 <= sample.busy /\ sample.busy <= sample.total) \/ back
=============================================================================
