------------------------------ MODULE Processes ------------------------------
(***************************************************************************)
(* readers/processes.c: one pass over /proc that opens three files of each *)
(* process, comm, stat and statm, and adds what it read to the slot of     *)
(* that name.  Processes start, run, change their name and end between any *)
(* two of these reads, and their numbers are used again.  The CPU time     *)
(* stands for all the sums of a slot but the number of processes.          *)
(***************************************************************************)
EXTENDS Integers, FiniteSets

CONSTANTS
    NPids,    \* process numbers are 1..NPids
    Comm,     \* process names
    NULL,     \* no process, no sample
    MaxComms, \* slots of the table (MAX_COMMS, 256)
    MaxCpu,   \* bound: CPU time of a process
    MaxSkips  \* bound: living processes a pass cannot read

ASSUME ConstantsAssumption ==
    /\ NPids \in Nat /\ NULL \notin Comm
    /\ MaxComms \in Nat \ {0} /\ MaxCpu \in Nat /\ MaxSkips \in Nat

VARIABLES
    \* /proc
    name,        \* name[p]: the comm of process p, NULL if there is none
    cpu,         \* cpu[p]: its utime
    \* processes_read
    pc,          \* "idle", "readdir", "comm", "stat", "statm", "emit"
    pid,         \* the entry of /proc being read
    comm,        \* its name
    utime,       \* its CPU time
    proc_count,  \* proc_count[c]: processes added to slot c (0: no slot)
    utime_sum,   \* utime_sum[c]: their CPU time
    ps_cputime,  \* ps_cputime[c]: the counter emitted last, NULL if there is none
    \* history of this pass
    alive,       \* processes that have been there since opendir
    named,       \* ... under the same name
    touched,     \* touched[c]: process numbers that have borne the name c
    gone,        \* names that a process has given up, by its end or otherwise
    skipped,     \* living processes passed over that have kept their name since
    upto,        \* upto[c][n]: CPU time in slot c of the entries up to n
    gone_before, \* gone and upto of the pass before
    upto_before

proc  == <<name, cpu>>
agg   == <<proc_count, utime_sum>>
seen  == <<alive, named, touched, gone, skipped>>
before == <<gone_before, upto_before>>
vars  == <<proc, pc, pid, comm, utime, agg, ps_cputime, seen, upto, before>>

Pid == 1..NPids
Slots == {c \in Comm : proc_count[c] > 0}
Called(c) == {p \in Pid : name[p] = c}

\* Those that bore the name c throughout the pass and could be read.
Kept(c) == (Called(c) \cap named) \ skipped

TypeOK ==
    /\ name \in [Pid -> Comm \cup {NULL}] /\ cpu \in [Pid -> 0..MaxCpu]
    /\ pc \in {"idle", "readdir", "comm", "stat", "statm", "emit"}
    /\ pid \in 0..NPids
    /\ comm \in Comm \cup {NULL} /\ utime \in 0..MaxCpu
    /\ proc_count \in [Comm -> Nat] /\ utime_sum \in [Comm -> Nat]
    /\ Cardinality(Slots) <= MaxComms
    /\ ps_cputime \in [Comm -> Nat \cup {NULL}]
    /\ named \subseteq alive /\ alive \subseteq Pid
    /\ touched \in [Comm -> SUBSET Pid]
    /\ gone \subseteq Comm /\ gone_before \subseteq Comm /\ skipped \subseteq Pid
    /\ upto \in [Comm -> [0..NPids -> Nat]] /\ upto_before \in [Comm -> [0..NPids -> Nat]]

Init ==
    /\ name \in [Pid -> Comm \cup {NULL}] /\ cpu = [p \in Pid |-> 0]
    /\ pc = "idle" /\ pid = 0 /\ comm = NULL /\ utime = 0
    /\ proc_count = [c \in Comm |-> 0] /\ utime_sum = [c \in Comm |-> 0]
    /\ ps_cputime = [c \in Comm |-> NULL]
    /\ alive = {} /\ named = {} /\ touched = [c \in Comm |-> {}]
    /\ gone = {} /\ gone_before = {} /\ skipped = {}
    /\ upto = [c \in Comm |-> [n \in 0..NPids |-> 0]] /\ upto_before = upto

-----------------------------------------------------------------------------
(* The processes.                                                          *)

Reader == <<pc, pid, comm, utime, agg, ps_cputime, upto, before>>

Fork(p, c) ==
    /\ name[p] = NULL
    /\ name' = [name EXCEPT ![p] = c] /\ cpu' = [cpu EXCEPT ![p] = 0]
    /\ touched' = [touched EXCEPT ![c] = @ \cup {p}]
    /\ UNCHANGED <<Reader, alive, named, gone, skipped>>

Work(p) ==
    /\ name[p] # NULL /\ cpu[p] < MaxCpu
    /\ cpu' = [cpu EXCEPT ![p] = @ + 1]
    /\ UNCHANGED <<name, Reader, seen>>

\* exec, or a process that sets its own name; the CPU time goes with it.
Rename(p, c) ==
    /\ name[p] \notin {NULL, c}
    /\ name' = [name EXCEPT ![p] = c]
    /\ named' = named \ {p} /\ skipped' = skipped \ {p}
    /\ touched' = [touched EXCEPT ![c] = @ \cup {p}]
    /\ gone' = gone \cup {name[p]}
    /\ UNCHANGED <<cpu, Reader, alive>>

Exit(p) ==
    /\ name[p] # NULL
    /\ name' = [name EXCEPT ![p] = NULL]
    /\ alive' = alive \ {p} /\ named' = named \ {p} /\ skipped' = skipped \ {p}
    /\ gone' = gone \cup {name[p]}
    /\ UNCHANGED <<cpu, Reader, touched>>

-----------------------------------------------------------------------------
(* processes_read.                                                         *)

\* opendir; the table is empty.
Open ==
    /\ pc = "idle"
    /\ pc' = "readdir" /\ pid' = 0
    /\ proc_count' = [c \in Comm |-> 0] /\ utime_sum' = [c \in Comm |-> 0]
    /\ alive' = {p \in Pid : name[p] # NULL} /\ named' = alive'
    /\ touched' = [c \in Comm |-> Called(c)]
    /\ gone' = {} /\ gone_before' = gone /\ skipped' = {}
    /\ upto' = [c \in Comm |-> [n \in 0..NPids |-> 0]] /\ upto_before' = upto
    /\ UNCHANGED <<proc, comm, utime, ps_cputime>>

\* readdir returns the processes in the order of their numbers; one that was
\* not there all the time may be missing from the listing.
ReadDir ==
    /\ pc = "readdir" /\ pid < NPids
    /\ pid' = pid + 1
    /\ pc' = "comm" \/ (pid + 1 \notin alive /\ pc' = "readdir")
    /\ UNCHANGED <<proc, comm, utime, agg, ps_cputime, seen, upto, before>>

ReadDirEnd ==
    /\ pc = "readdir" /\ pid = NPids
    /\ pc' = "emit"
    /\ UNCHANGED <<proc, pid, comm, utime, agg, ps_cputime, seen, upto, before>>

\* The process has ended and its files are gone: continue with the next entry.
Vanished ==
    /\ pc \in {"comm", "stat", "statm"} /\ name[pid] = NULL
    /\ pc' = "readdir"
    /\ UNCHANGED <<proc, pid, comm, utime, agg, ps_cputime, seen, upto, before>>

\* The process is there, but its file cannot be opened, read or parsed, or its
\* name is empty: continue with the next entry.
ReadFails ==
    /\ pc \in {"comm", "stat", "statm"} /\ name[pid] # NULL
    /\ Cardinality(skipped) < MaxSkips
    /\ pc' = "readdir" /\ skipped' = skipped \cup {pid}
    /\ UNCHANGED <<proc, pid, comm, utime, agg, ps_cputime, alive, named, touched, gone, upto, before>>

ReadComm ==
    /\ pc = "comm" /\ name[pid] # NULL
    /\ pc' = "stat" /\ comm' = name[pid]
    /\ UNCHANGED <<proc, pid, utime, agg, ps_cputime, seen, upto, before>>

ReadStat ==
    /\ pc = "stat" /\ name[pid] # NULL
    /\ pc' = "statm" /\ utime' = cpu[pid]
    /\ UNCHANGED <<proc, pid, comm, agg, ps_cputime, seen, upto, before>>

\* What is added to a slot, and the sums up to this entry and the later ones.
Add(c, t) ==
    /\ proc_count' = [proc_count EXCEPT ![c] = @ + 1]
    /\ utime_sum' = [utime_sum EXCEPT ![c] = @ + t]
    /\ upto' = [upto EXCEPT ![c] = [n \in 0..NPids |-> IF n < pid THEN upto[c][n]
                                                                  ELSE upto[c][n] + t]]

\* Mutant: the table is not checked for room.
ReadStatmUnbounded ==
    /\ pc = "statm" /\ name[pid] # NULL
    /\ pc' = "readdir"
    /\ Add(comm, utime)
    /\ UNCHANGED <<proc, pid, comm, utime, ps_cputime, seen, before>>

\* Mutant: a full table also turns away the names that have a slot.
ReadStatmFull ==
    /\ pc = "statm" /\ name[pid] # NULL
    /\ pc' = "readdir"
    /\ IF Cardinality(Slots) < MaxComms
       THEN Add(comm, utime)
       ELSE UNCHANGED <<agg, upto>>
    /\ UNCHANGED <<proc, pid, comm, utime, ps_cputime, seen, before>>

\* The process is added to the slot agg_lookup finds or allocates for its name;
\* without a free slot it is left out.
ReadStatm ==
    /\ pc = "statm" /\ name[pid] # NULL
    /\ pc' = "readdir"
    /\ IF comm \in Slots \/ Cardinality(Slots) < MaxComms
       THEN Add(comm, utime)
       ELSE UNCHANGED <<agg, upto>>
    /\ UNCHANGED <<proc, pid, comm, utime, ps_cputime, seen, before>>

\* Mutant: the CPU time of the process read last is emitted for every name.
EmitLast ==
    /\ pc = "emit"
    /\ pc' = "idle"
    /\ ps_cputime' = [c \in Comm |-> IF c \in Slots THEN utime ELSE NULL]
    /\ UNCHANGED <<proc, pid, comm, utime, agg, seen, upto, before>>

\* ps_rss, ps_cputime and ps_count of every slot.
Emit ==
    /\ pc = "emit"
    /\ pc' = "idle"
    /\ ps_cputime' = [c \in Comm |-> IF c \in Slots THEN utime_sum[c] ELSE NULL]
    /\ UNCHANGED <<proc, pid, comm, utime, agg, seen, upto, before>>

Kernel ==
    \E p \in Pid : Work(p) \/ Exit(p) \/ (\E c \in Comm : Fork(p, c) \/ Rename(p, c))

Read ==
    \/ Open \/ ReadDir \/ ReadDirEnd \/ Vanished \/ ReadFails
    \/ ReadComm \/ ReadStat \/ ReadStatm \/ Emit

Next == Kernel \/ Read

Spec == Init /\ [][Next]_vars

-----------------------------------------------------------------------------
(* Properties.                                                             *)

\* ps_count, though read while processes come and go: at least those that bore
\* the name throughout the pass and could be read, at most those that ever bore
\* it; and no name is missing that such a process kept, unless the table is full.
CountBounded ==
    pc = "emit" =>
      \A c \in Comm :
        /\ c \in Slots => /\ Cardinality(Kept(c)) <= proc_count[c]
                          /\ proc_count[c] <= Cardinality(touched[c])
        /\ Kept(c) # {} /\ c \notin Slots => Cardinality(Slots) = MaxComms

\* From one pass to the next the counter of a name does not go back, unless one
\* of its processes ended or changed its name since the earlier pass began, or
\* the later pass could not read one.
RegressExplained ==
    [][\A c \in Comm :
          ps_cputime[c] # NULL /\ ps_cputime'[c] # NULL /\ ps_cputime'[c] < ps_cputime[c]
            => c \in gone \cup gone_before \cup {name[p] : p \in skipped}]_vars

\* prom.h promises "correct gauge/counter semantics", and ps_cputime is a DERIVE
\* shown as a counter: a counter never goes back.
CounterMonotone ==
    [][\A c \in Comm :
          ps_cputime[c] # NULL /\ ps_cputime'[c] # NULL => ps_cputime'[c] >= ps_cputime[c]]_vars
=============================================================================
