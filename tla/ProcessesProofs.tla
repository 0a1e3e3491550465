-------------------------- MODULE ProcessesProofs --------------------------
(***************************************************************************)
(* The pass of the processes reader, for any number of processes, names    *)
(* and slots.                                                              *)
(***************************************************************************)
EXTENDS Processes, FiniteSetTheorems, TLAPS

Reading == {"comm", "stat", "statm"}

\* The entries of /proc that are done with.
DoneUpTo == IF pc \in Reading THEN pid - 1 ELSE pid

\* Whether a process called c would be counted.
Room(c) == c \in Slots \/ Cardinality(Slots) < MaxComms

\* The process being read, and what the histories know of the processes.
PassInv ==
    /\ IsFiniteSet(Slots)
    /\ pc \in Reading => pid \in Pid
    /\ pc = "emit" => pid = NPids
    /\ pc \in {"stat", "statm"} => /\ comm \in Comm /\ pid \in touched[comm]
                                   /\ pid \in named => name[pid] = comm
    /\ \A p \in alive : name[p] # NULL
    /\ pc # "idle" => \A p \in Pid : name[p] # NULL => p \in touched[name[p]]

\* The counts are between those who stayed and those who were there, entry by
\* entry; a name for which there is room has missed nobody so far.
CountInv ==
    pc # "idle" => \A c \in Comm :
      /\ proc_count[c] <= Cardinality(touched[c] \cap (1..DoneUpTo))
      /\ Room(c) => Cardinality(Kept(c) \cap (1..DoneUpTo)) <= proc_count[c]

\* The partial sums end in the sum of the slot, and that is what was emitted.
SumInv ==
    /\ \A c \in Comm : upto[c][0] = 0
    /\ pc # "idle" => \A c \in Comm : \A n \in DoneUpTo..NPids : upto[c][n] = utime_sum[c]
    /\ \A c \in Comm : ps_cputime[c] # NULL =>
          ps_cputime[c] = IF pc = "idle" THEN upto[c][NPids] ELSE upto_before[c][NPids]

\* What entry n added to u[c] is at most t.
AddsAtMost(u, c, n, t) == u[c][n] <= u[c][n - 1] + t

\* What this pass counted for a name that nobody gave up is still there.
KeptInv ==
    /\ \A c \in Comm \ gone : \A n \in Pid :
          AddsAtMost(upto, c, n, 0) \/ (name[n] = c /\ AddsAtMost(upto, c, n, cpu[n]))
    /\ pc \in {"stat", "statm"} /\ comm \notin gone =>
          name[pid] = comm /\ (pc = "statm" => utime <= cpu[pid])

\* The names of which nobody is missing.
Stable == Comm \ (gone \cup gone_before \cup {name[p] : p \in skipped})

\* So is what the pass before counted, and this one does not miss it.
BeforeInv ==
    pc # "idle" => \A c \in Stable :
      /\ \A n \in Pid : \/ AddsAtMost(upto_before, c, n, 0)
                        \/ n \in alive /\ name[n] = c /\ AddsAtMost(upto_before, c, n, cpu[n])
      /\ pc \in {"stat", "statm"} =>
           \/ AddsAtMost(upto_before, c, pid, 0)
           \/ comm = c /\ (pc = "statm" => AddsAtMost(upto_before, c, pid, utime))
      /\ Room(c) => upto_before[c][DoneUpTo] <= utime_sum[c]

IInv == TypeOK /\ PassInv /\ CountInv /\ SumInv /\ KeptInv /\ BeforeInv

-----------------------------------------------------------------------------
(* What the actions do to the slots and to the histories.                  *)

\* A process that is counted opens its slot or finds it open.
LEMMA SlotsAfterAdd ==
  ASSUME TypeOK, NEW c \in Comm, NEW t \in Nat, Add(c, t)
  PROVE  Slots' = Slots \cup {c}
  BY DEF TypeOK, Add, Slots

\* The table is never fuller than it may be.
LEMMA SlotsBounded ==
  ASSUME TypeOK, PassInv, ReadStatm
  PROVE  /\ IsFiniteSet(Slots') /\ Cardinality(Slots') <= MaxComms
         /\ Slots \subseteq Slots' /\ Slots' \subseteq Slots \cup {comm}
         /\ Cardinality(Slots) \in Nat /\ Cardinality(Slots') \in Nat
         /\ Cardinality(Slots) <= Cardinality(Slots')
         /\ Room(comm) => Add(comm, utime) /\ Slots' = Slots \cup {comm}
         /\ ~Room(comm) => UNCHANGED <<proc_count, utime_sum, upto>> /\ Slots' = Slots
<1>0. comm \in Comm /\ utime \in Nat /\ IsFiniteSet(Slots) /\ Cardinality(Slots) <= MaxComms
  BY DEF TypeOK, PassInv, ReadStatm
<1>1. Cardinality(Slots) \in Nat
  BY <1>0, FS_CardinalityType
<1>2. CASE Room(comm)
  <2>1. Add(comm, utime)
    BY <1>2 DEF ReadStatm, Room
  <2>2. Slots' = Slots \cup {comm}
    BY <2>1, <1>0, SlotsAfterAdd
  <2>3. /\ IsFiniteSet(Slots')
        /\ Cardinality(Slots') = IF comm \in Slots THEN Cardinality(Slots) ELSE Cardinality(Slots) + 1
    BY <1>0, <2>2, FS_AddElement
  <2> QED
    BY <1>0, <1>1, <1>2, <2>1, <2>2, <2>3, ConstantsAssumption DEF Room
<1>3. CASE ~Room(comm)
  <2>1. UNCHANGED <<proc_count, utime_sum, upto>>
    BY <1>3 DEF ReadStatm, Room, agg
  <2>2. Slots' = Slots
    BY <2>1 DEF Slots
  <2> QED
    BY <1>0, <1>1, <1>3, <2>1, <2>2
<1> QED
  BY <1>2, <1>3

\* The slots change when a process is counted and when a pass begins, at no other
\* time.
LEMMA SlotsElsewhere ==
  ASSUME TypeOK, [Next]_vars, ~ReadStatm, ~Open
  PROVE  Slots' = Slots /\ UNCHANGED <<proc_count, utime_sum, upto, upto_before, gone_before>>
<1>1. UNCHANGED <<proc_count, utime_sum, upto, upto_before, gone_before>>
  BY DEF Next, Kernel, Read, Fork, Work, Rename, Exit, ReadDir, ReadDirEnd, Vanished, ReadFails, ReadComm,
         ReadStat, Emit, vars, agg, before, Reader
<1> QED
  BY <1>1 DEF Slots

-----------------------------------------------------------------------------
(* Types.                                                                  *)

\* The kernel and the reader keep the types, and the table its size.
LEMMA TypeStep == ASSUME TypeOK, PassInv, [Next]_vars PROVE TypeOK'
<1> USE ConstantsAssumption
<1>1. ASSUME NEW p \in Pid, NEW c \in Comm, Fork(p, c) \/ Rename(p, c) PROVE TypeOK'
  <2>1. UNCHANGED Reader /\ Slots' = Slots
    BY <1>1 DEF Fork, Rename, Reader, agg, Slots
  <2>2. name' \in [Pid -> Comm \cup {NULL}]
    BY <1>1, ZenonT(30) DEF Fork, Rename, TypeOK
  <2>5. cpu' \in [Pid -> 0..MaxCpu]
    <3>1. 0 \in 0..MaxCpu /\ cpu \in [Pid -> 0..MaxCpu]
      BY DEF TypeOK
    <3>2. cpu' = cpu \/ cpu' = [cpu EXCEPT ![p] = 0]
      BY <1>1 DEF Fork, Rename
    <3> QED
      BY <3>1, <3>2
  <2>3. touched' \in [Comm -> SUBSET Pid]
    <3>1. touched' = [touched EXCEPT ![c] = touched[c] \cup {p}] /\ touched \in [Comm -> SUBSET Pid]
      BY <1>1 DEF Fork, Rename, TypeOK
    <3>2. touched[c] \cup {p} \in SUBSET Pid
      BY <3>1
    <3> QED
      BY <3>1, <3>2
  <2>4. /\ alive' \subseteq Pid /\ named' \subseteq alive' /\ gone' \subseteq Comm
        /\ skipped' \subseteq Pid
    BY <1>1, SMTT(30) DEF Fork, Rename, TypeOK
  <2> QED
    BY <2>1, <2>2, <2>3, <2>4, <2>5 DEF TypeOK, Reader, agg, before
<1>2. ASSUME NEW p \in Pid, Work(p) \/ Exit(p) PROVE TypeOK'
  <2>1. UNCHANGED Reader /\ Slots' = Slots
    BY <1>2 DEF Work, Exit, Reader, agg, Slots
  <2>2. name' \in [Pid -> Comm \cup {NULL}]
    BY <1>2 DEF Work, Exit, TypeOK
  <2>3. cpu' \in [Pid -> 0..MaxCpu]
    <3>1. cpu \in [Pid -> 0..MaxCpu] /\ cpu[p] \in 0..MaxCpu
      BY DEF TypeOK
    <3>2. cpu' = cpu \/ (cpu[p] < MaxCpu /\ cpu' = [cpu EXCEPT ![p] = cpu[p] + 1])
      BY <1>2 DEF Work, Exit
    <3>3. cpu[p] < MaxCpu => cpu[p] + 1 \in 0..MaxCpu
      BY <3>1
    <3> QED
      BY <3>1, <3>2, <3>3
  <2>4. /\ alive' \subseteq Pid /\ named' \subseteq alive' /\ gone' \subseteq Comm
        /\ skipped' \subseteq Pid
        /\ touched' = touched
    BY <1>2 DEF Work, Exit, TypeOK, seen
  <2> QED
    BY <2>1, <2>2, <2>3, <2>4 DEF TypeOK, Reader, agg, before
<1>3. CASE Open
  <2>1. Slots' = {} /\ proc_count' \in [Comm -> Nat] /\ utime_sum' \in [Comm -> Nat]
    BY <1>3 DEF Open, Slots
  <2>2. Cardinality(Slots') <= MaxComms
    BY <2>1, FS_EmptySet
  <2>3. /\ alive' \subseteq Pid /\ named' \subseteq alive' /\ gone' \subseteq Comm
        /\ skipped' \subseteq Pid
        /\ touched' \in [Comm -> SUBSET Pid] /\ gone_before' \subseteq Comm
    BY <1>3 DEF Open, Called, TypeOK
  <2>4. upto' \in [Comm -> [0..NPids -> Nat]] /\ upto_before' \in [Comm -> [0..NPids -> Nat]]
    BY <1>3 DEF Open, TypeOK
  <2>5. /\ UNCHANGED <<name, cpu, comm, utime, ps_cputime>> /\ pc' = "readdir"
        /\ pid' \in 0..NPids
    BY <1>3 DEF Open, proc
  <2> QED
    BY <2>1, <2>2, <2>3, <2>4, <2>5 DEF TypeOK
<1>4. CASE ReadDir \/ ReadDirEnd \/ Vanished \/ ReadFails \/ ReadComm \/ ReadStat
  <2>1. /\ UNCHANGED <<name, cpu, proc_count, utime_sum, ps_cputime, alive, named, touched, gone,
                       upto, gone_before, upto_before>>
        /\ Slots' = Slots
    BY <1>4 DEF ReadDir, ReadDirEnd, Vanished, ReadFails, ReadComm, ReadStat, proc, agg, seen, before, Slots
  <2>2. /\ pc' \in {"idle", "readdir", "comm", "stat", "statm", "emit"} /\ pid' \in 0..NPids
        /\ comm' \in Comm \cup {NULL} /\ utime' \in 0..MaxCpu
    <3>1. /\ NPids \in Nat /\ pid \in 0..NPids /\ comm \in Comm \cup {NULL} /\ utime \in 0..MaxCpu
          /\ pc \in {"idle", "readdir", "comm", "stat", "statm", "emit"}
          /\ pc \in Reading => pid \in Pid /\ name[pid] \in Comm \cup {NULL} /\ cpu[pid] \in 0..MaxCpu
      BY DEF TypeOK, PassInv, Pid
    <3>2. CASE ReadDir
      BY <3>1, <3>2 DEF ReadDir
    <3>3. CASE ReadDirEnd \/ Vanished \/ ReadFails
      BY <3>1, <3>3 DEF ReadDirEnd, Vanished, ReadFails
    <3>4. CASE ReadComm
      BY <3>1, <3>4 DEF ReadComm, Reading
    <3>5. CASE ReadStat
      BY <3>1, <3>5 DEF ReadStat, Reading
    <3> QED
      BY <1>4, <3>2, <3>3, <3>4, <3>5
  <2>3. skipped' \subseteq Pid
    BY <1>4 DEF ReadDir, ReadDirEnd, Vanished, ReadFails, ReadComm, ReadStat, seen, TypeOK, PassInv,
                Reading
  <2> QED
    BY <2>1, <2>2, <2>3 DEF TypeOK
<1>5. CASE ReadStatm
  <2>0. comm \in Comm /\ utime \in Nat /\ pid \in 0..NPids
    BY <1>5 DEF ReadStatm, TypeOK, PassInv
  <2>1. /\ proc_count' \in [Comm -> Nat] /\ utime_sum' \in [Comm -> Nat]
        /\ upto' \in [Comm -> [0..NPids -> Nat]]
    <3>1. CASE Add(comm, utime)
      <4>1. [n \in 0..NPids |-> IF n < pid THEN upto[comm][n] ELSE upto[comm][n] + utime]
              \in [0..NPids -> Nat]
        BY <2>0 DEF TypeOK
      <4> QED
        BY <2>0, <3>1, <4>1 DEF Add, TypeOK
    <3>2. CASE UNCHANGED <<agg, upto>>
      BY <3>2 DEF TypeOK, agg
    <3> QED
      BY <1>5, <3>1, <3>2 DEF ReadStatm
  <2>2. Cardinality(Slots') <= MaxComms
    BY <1>5, SlotsBounded
  <2>3. /\ UNCHANGED <<name, cpu, pid, comm, utime, ps_cputime, alive, named, touched, gone,
                       skipped, gone_before, upto_before>>
        /\ pc' = "readdir"
    BY <1>5 DEF ReadStatm, proc, seen, before
  <2> QED
    BY <2>1, <2>2, <2>3 DEF TypeOK
<1>6. CASE Emit
  <2>1. ps_cputime' \in [Comm -> Nat \cup {NULL}]
    BY <1>6 DEF Emit, TypeOK
  <2>2. /\ UNCHANGED <<name, cpu, pid, comm, utime, proc_count, utime_sum, alive, named, touched,
                       gone, skipped, upto, gone_before, upto_before>>
        /\ pc' = "idle" /\ Slots' = Slots
    BY <1>6 DEF Emit, proc, agg, seen, before, Slots
  <2> QED
    BY <2>1, <2>2 DEF TypeOK
<1>7. CASE UNCHANGED vars
  <2>1. Slots' = Slots
    BY <1>7 DEF vars, agg, Slots
  <2> QED
    BY <1>7, <2>1 DEF TypeOK, vars, proc, agg, seen, before
<1> QED
  BY <1>1, <1>2, <1>3, <1>4, <1>5, <1>6, <1>7 DEF Next, Kernel, Read

-----------------------------------------------------------------------------
(* The process being read.                                                 *)

\* The slots stay finite.
LEMMA SlotsFinite == ASSUME TypeOK, PassInv, [Next]_vars PROVE IsFiniteSet(Slots')
<1>1. CASE ReadStatm
  BY <1>1, SlotsBounded
<1>2. CASE Open
  <2>1. Slots' = {}
    BY <1>2 DEF Open, Slots
  <2> QED
    BY <2>1, FS_EmptySet
<1> QED
  BY <1>1, <1>2, SlotsElsewhere DEF PassInv

\* What the histories and the reader know of the processes stays true.
LEMMA PassStep == ASSUME TypeOK, PassInv, [Next]_vars PROVE PassInv'
<1>0. IsFiniteSet(Slots')
  BY SlotsFinite
<1> USE ConstantsAssumption
<1>1. ASSUME NEW p \in Pid, NEW c \in Comm, Fork(p, c) \/ Rename(p, c) PROVE PassInv'
  <2>1. /\ name' = [name EXCEPT ![p] = c] /\ touched' = [touched EXCEPT ![c] = touched[c] \cup {p}]
        /\ UNCHANGED <<pc, pid, comm>> /\ alive' = alive
        /\ named' \subseteq named /\ p \notin named'
    BY <1>1 DEF Fork, Rename, Reader, TypeOK, PassInv
  <2>2. pc \in {"stat", "statm"} => /\ comm \in Comm /\ pid \in touched'[comm]
                                    /\ pid \in named' => name'[pid] = comm
    BY <2>1 DEF PassInv, TypeOK
  <2>3. \A q \in alive : name'[q] # NULL
    BY <2>1 DEF PassInv, TypeOK
  <2>4. pc # "idle" => \A q \in Pid : name'[q] # NULL => q \in touched'[name'[q]]
    BY <2>1 DEF PassInv, TypeOK
  <2> QED
    BY <1>0, <2>1, <2>2, <2>3, <2>4 DEF PassInv
<1>2. ASSUME NEW p \in Pid, Work(p) \/ Exit(p) PROVE PassInv'
  <2>1. /\ name' = name \/ (name' = [name EXCEPT ![p] = NULL] /\ p \notin alive' /\ p \notin named')
        /\ UNCHANGED <<pc, pid, comm, touched>>
        /\ alive' \subseteq alive /\ named' \subseteq named
    BY <1>2 DEF Work, Exit, Reader, seen
  <2>2. pc \in {"stat", "statm"} => /\ comm \in Comm /\ pid \in touched'[comm]
                                    /\ pid \in named' => name'[pid] = comm
    BY <2>1 DEF PassInv, TypeOK
  <2>3. \A q \in alive' : name'[q] # NULL
    BY <2>1 DEF PassInv, TypeOK
  <2>4. pc # "idle" => \A q \in Pid : name'[q] # NULL => q \in touched'[name'[q]]
    BY <2>1 DEF PassInv, TypeOK
  <2> QED
    BY <1>0, <2>1, <2>2, <2>3, <2>4 DEF PassInv
<1>3. CASE Open
  <2>1. \A q \in Pid : name[q] # NULL => name[q] \in Comm /\ q \in touched'[name[q]]
    BY <1>3 DEF Open, Called, TypeOK
  <2> QED
    BY <1>0, <1>3, <2>1 DEF Open, PassInv, proc, Reading
<1>4. CASE ReadDir \/ ReadDirEnd \/ Vanished \/ ReadFails
  <2>1. /\ UNCHANGED <<name, alive, named, touched>> /\ pc # "idle"
        /\ pc' \in {"readdir", "comm", "emit"} /\ (pc' = "emit" => pid' = NPids)
    BY <1>4 DEF ReadDir, ReadDirEnd, Vanished, ReadFails, proc, seen
  <2>2. pc' \in Reading => pid' \in Pid
    BY <1>4, SMTT(30) DEF ReadDir, ReadDirEnd, Vanished, ReadFails, Reading, TypeOK, Pid
  <2> QED
    BY <1>0, <2>1, <2>2 DEF PassInv
<1>5. CASE ReadComm
  <2>1. /\ pid \in Pid /\ name[pid] \in Comm /\ pid \in touched[name[pid]]
        /\ comm' = name[pid] /\ pc' = "stat"
        /\ UNCHANGED <<name, pid, alive, named, touched>>
    BY <1>5 DEF ReadComm, PassInv, Reading, TypeOK, proc, seen
  <2> QED
    BY <1>0, <1>5, <2>1 DEF ReadComm, PassInv, Reading
<1>6. CASE ReadStat \/ ReadStatm \/ Emit
  BY <1>0, <1>6 DEF ReadStat, ReadStatm, Emit, PassInv, Reading, proc, seen
<1>7. CASE UNCHANGED vars
  BY <1>0, <1>7 DEF vars, proc, seen, PassInv
<1> QED
  BY <1>1, <1>2, <1>3, <1>4, <1>5, <1>6, <1>7 DEF Next, Kernel, Read

-----------------------------------------------------------------------------
(* Counting.                                                               *)

\* Sets of processes have a size, and larger ones are no smaller.
LEMMA Larger ==
  ASSUME NEW S, NEW T \in SUBSET S, S \subseteq Pid
  PROVE  /\ IsFiniteSet(S) /\ IsFiniteSet(T)
         /\ Cardinality(S) \in Nat /\ Cardinality(T) \in Nat /\ Cardinality(T) <= Cardinality(S)
<1>1. IsFiniteSet(Pid)
  BY FS_Interval, ConstantsAssumption DEF Pid
<1>2. IsFiniteSet(S)
  BY <1>1, FS_Subset
<1> QED
  BY <1>2, FS_Subset, FS_CardinalityType

\* The same with one process more.
LEMMA OneMore ==
  ASSUME NEW S, S \subseteq Pid, NEW x \in Pid, x \notin S
  PROVE  Cardinality(S \cup {x}) = Cardinality(S) + 1
  BY Larger, FS_AddElement

\* The entries done with change when the reader goes on to the next one.
LEMMA DoneType ==
  ASSUME TypeOK, PassInv
  PROVE  DoneUpTo \in 0..NPids
  BY ConstantsAssumption DEF TypeOK, PassInv, DoneUpTo, Reading, Pid

\* While the reader does not finish an entry, processes that bore a name only become
\* more, and those that kept it only fewer.
LEMMA CountsHold ==
  ASSUME TypeOK, CountInv, pc # "idle", UNCHANGED proc_count, Slots' = Slots,
         DoneUpTo \in 0..NPids, DoneUpTo' = DoneUpTo, TypeOK',
         \A c \in Comm : /\ touched[c] \subseteq touched'[c]
                         /\ Kept(c)' \subseteq Kept(c)
  PROVE  CountInv'
<1> SUFFICES ASSUME NEW c \in Comm
             PROVE  /\ proc_count[c] <= Cardinality(touched'[c] \cap (1..DoneUpTo))
                    /\ Room(c) => Cardinality(Kept(c)' \cap (1..DoneUpTo)) <= proc_count[c]
  BY DEF CountInv, Room
<1>0. 1..DoneUpTo \subseteq Pid
  BY ConstantsAssumption DEF Pid
<1>1. /\ touched[c] \cap (1..DoneUpTo) \subseteq touched'[c] \cap (1..DoneUpTo)
      /\ Kept(c)' \cap (1..DoneUpTo) \subseteq Kept(c) \cap (1..DoneUpTo)
      /\ touched'[c] \cap (1..DoneUpTo) \subseteq Pid /\ Kept(c) \cap (1..DoneUpTo) \subseteq Pid
  BY <1>0, Zenon
<1>2. /\ Cardinality(touched[c] \cap (1..DoneUpTo)) <= Cardinality(touched'[c] \cap (1..DoneUpTo))
      /\ Cardinality(touched[c] \cap (1..DoneUpTo)) \in Nat
      /\ Cardinality(touched'[c] \cap (1..DoneUpTo)) \in Nat
  BY <1>1, Larger
<1>3. /\ Cardinality(Kept(c)' \cap (1..DoneUpTo))
           <= Cardinality(Kept(c) \cap (1..DoneUpTo))
      /\ Cardinality(Kept(c) \cap (1..DoneUpTo)) \in Nat
      /\ Cardinality(Kept(c)' \cap (1..DoneUpTo)) \in Nat
  BY <1>1, Larger
<1>4. /\ proc_count[c] \in Nat
      /\ proc_count[c] <= Cardinality(touched[c] \cap (1..DoneUpTo))
      /\ Room(c) => Cardinality(Kept(c) \cap (1..DoneUpTo)) <= proc_count[c]
  BY DEF CountInv, TypeOK
<1> QED
  BY <1>2, <1>3, <1>4

\* The next entry: it is counted under the name comm, or it did not keep a name.
LEMMA CountStep == ASSUME TypeOK, PassInv, CountInv, [Next]_vars, TypeOK' PROVE CountInv'
<1> USE ConstantsAssumption
<1>0. DoneUpTo \in 0..NPids
  BY DoneType
<1>1. ASSUME NEW p \in Pid, NEW c \in Comm, Fork(p, c) \/ Rename(p, c), pc # "idle" PROVE CountInv'
  <2>1. /\ UNCHANGED <<proc_count, pc, pid>> /\ Slots' = Slots /\ DoneUpTo' = DoneUpTo
        /\ name' = [name EXCEPT ![p] = c] /\ touched' = [touched EXCEPT ![c] = touched[c] \cup {p}]
    BY <1>1 DEF Fork, Rename, Reader, agg, Slots, DoneUpTo
  <2>2. /\ named' \subseteq named /\ p \notin named'
        /\ skipped' = skipped \/ skipped' = skipped \ {p}
    BY <1>1 DEF Fork, Rename, TypeOK, PassInv
  <2>3. \A d \in Comm : touched[d] \subseteq touched'[d]
    BY <2>1 DEF TypeOK
  <2>4. \A d \in Comm : Kept(d)' \subseteq Kept(d)
    <3> SUFFICES ASSUME NEW d \in Comm, NEW q \in Kept(d)' PROVE q \in Kept(d)
      OBVIOUS
    <3>1. q \in Pid /\ name'[q] = d /\ q \in named' /\ q \notin skipped'
      BY DEF Kept, Called
    <3>2. q # p /\ q \in named /\ q \notin skipped
      BY <2>2, <3>1
    <3>3. name[q] = d
      BY <2>1, <3>1, <3>2 DEF TypeOK
    <3> QED
      BY <3>1, <3>2, <3>3 DEF Kept, Called
  <2> QED
    BY <1>0, <1>1, <2>1, <2>3, <2>4, CountsHold
<1>2. ASSUME NEW p \in Pid, Work(p) \/ Exit(p), pc # "idle" PROVE CountInv'
  <2>1. /\ UNCHANGED <<proc_count, pc, pid, touched>> /\ Slots' = Slots /\ DoneUpTo' = DoneUpTo
        /\ name' = name \/ name' = [name EXCEPT ![p] = NULL]
        /\ named' \subseteq named
        /\ skipped' = skipped \/ (skipped' = skipped \ {p} /\ p \notin named')
    BY <1>2 DEF Work, Exit, Reader, agg, seen, Slots, DoneUpTo
  <2>2. \A d \in Comm : /\ touched[d] \subseteq touched'[d]
                        /\ Kept(d)' \subseteq Kept(d)
    BY <2>1 DEF Kept, Called, TypeOK
  <2> QED
    BY <1>0, <1>2, <2>1, <2>2, CountsHold
<1>3. CASE Open
  <2>1. DoneUpTo' = 0 /\ \A c \in Comm : proc_count'[c] = 0
    BY <1>3 DEF Open, DoneUpTo, Reading
  <2>2. 1..0 = {}
    OBVIOUS
  <2>3. \A S : S \cap (1..0) = {} /\ Cardinality(S \cap (1..0)) = 0
    BY <2>2, FS_EmptySet
  <2>4. \A S, T : Cardinality(S \cap T \cap (1..0)) = 0
    BY <2>3
  <2> QED
    BY <2>1, <2>3, <2>4 DEF CountInv
<1>4. CASE UNCHANGED <<proc_count, name, named, touched, skipped>> /\ Slots' = Slots /\ DoneUpTo' = DoneUpTo /\ pc # "idle"
  <2>1. \A d \in Comm : /\ touched[d] \subseteq touched'[d]
                        /\ Kept(d)' \subseteq Kept(d)
    BY <1>4 DEF Kept, Called
  <2> QED
    BY <1>0, <1>4, <2>1, CountsHold
<1>5. ASSUME Vanished \/ ReadFails \/ ReadDir PROVE CountInv'
  <2>1. /\ UNCHANGED <<proc_count, name, named, touched>> /\ Slots' = Slots /\ pc # "idle"
        /\ pid \in 0..NPids /\ skipped \subseteq skipped'
    BY <1>5 DEF Vanished, ReadFails, ReadDir, proc, agg, seen, Slots, TypeOK
  <2>2. \A c \in Comm : touched[c] \subseteq touched'[c] /\ Kept(c)' \subseteq Kept(c)
    BY <2>1 DEF Kept, Called
  <2> SUFFICES ASSUME DoneUpTo' # DoneUpTo PROVE CountInv'
    BY <1>0, <2>1, <2>2, CountsHold
  <2>3. /\ DoneUpTo' = DoneUpTo + 1 /\ DoneUpTo' \in Pid
        /\ name[DoneUpTo'] = NULL \/ DoneUpTo' \notin named \/ DoneUpTo' \in skipped'
    <3>1. CASE Vanished \/ ReadFails
      <4>1. /\ pid \in Pid /\ DoneUpTo = pid - 1 /\ DoneUpTo' = pid
            /\ name[pid] = NULL \/ pid \in skipped'
        BY <3>1 DEF Vanished, ReadFails, DoneUpTo, Reading, PassInv
      <4> QED
        BY <4>1 DEF Pid
    <3>2. CASE ReadDir
      <4>1. DoneUpTo = pid /\ pid < NPids /\ pid' = pid + 1 /\ pc' \in {"comm", "readdir"}
        BY <3>2 DEF ReadDir, DoneUpTo, Reading
      <4>2. pc' = "readdir" /\ DoneUpTo' = pid + 1
        BY <2>1, <4>1 DEF DoneUpTo, Reading
      <4>3. pid + 1 \notin alive
        BY <3>2, <4>2 DEF ReadDir
      <4> QED
        BY <2>1, <4>1, <4>2, <4>3 DEF Pid, TypeOK
    <3> QED
      BY <1>5, <3>1, <3>2
  <2>4. 1..DoneUpTo' = (1..DoneUpTo) \cup {DoneUpTo'} /\ 1..DoneUpTo' \subseteq Pid
    BY <1>0, <2>3 DEF Pid
  <2> SUFFICES ASSUME NEW c \in Comm
               PROVE  /\ proc_count[c] <= Cardinality(touched[c] \cap (1..DoneUpTo'))
                      /\ Room(c) => Cardinality(Kept(c)' \cap (1..DoneUpTo')) <= proc_count[c]
    BY <2>1 DEF CountInv, Room
  <2>5. DoneUpTo' \notin Kept(c)'
    BY <2>1, <2>3 DEF Kept, Called
  <2>6. /\ Kept(c)' \cap (1..DoneUpTo') \subseteq Kept(c) \cap (1..DoneUpTo)
        /\ Kept(c) \cap (1..DoneUpTo) \subseteq Pid
        /\ touched[c] \cap (1..DoneUpTo) \subseteq touched[c] \cap (1..DoneUpTo')
        /\ touched[c] \cap (1..DoneUpTo') \subseteq Pid
    BY <2>2, <2>4, <2>5, Zenon
  <2>7. /\ Cardinality(touched[c] \cap (1..DoneUpTo)) <= Cardinality(touched[c] \cap (1..DoneUpTo'))
        /\ Cardinality(touched[c] \cap (1..DoneUpTo)) \in Nat
        /\ Cardinality(touched[c] \cap (1..DoneUpTo')) \in Nat
    BY <2>6, Larger
  <2>8. /\ Cardinality(Kept(c)' \cap (1..DoneUpTo')) <= Cardinality(Kept(c) \cap (1..DoneUpTo))
        /\ Cardinality(Kept(c)' \cap (1..DoneUpTo')) \in Nat
        /\ Cardinality(Kept(c) \cap (1..DoneUpTo)) \in Nat
    BY <2>6, Larger
  <2>9. /\ proc_count[c] <= Cardinality(touched[c] \cap (1..DoneUpTo)) /\ proc_count[c] \in Nat
        /\ Room(c) => Cardinality(Kept(c) \cap (1..DoneUpTo)) <= proc_count[c]
    BY <2>1 DEF CountInv, TypeOK
  <2> QED
    BY <2>7, <2>8, <2>9
<1>6. CASE ReadStatm
  <2>1. /\ UNCHANGED <<name, named, touched, skipped>> /\ pid \in Pid /\ DoneUpTo = pid - 1 /\ DoneUpTo' = pid
        /\ comm \in Comm /\ pid \in touched[comm] /\ (pid \in named => name[pid] = comm)
        /\ utime \in Nat /\ pc # "idle"
    BY <1>6 DEF ReadStatm, proc, seen, PassInv, DoneUpTo, Reading, TypeOK, Pid
  <2>2. 1..pid = (1..(pid - 1)) \cup {pid} /\ 1..pid \subseteq Pid /\ pid \notin 1..(pid - 1)
    BY <2>1 DEF Pid
  <2>3. /\ Slots \subseteq Slots' /\ Slots' \subseteq Slots \cup {comm}
        /\ Cardinality(Slots) \in Nat /\ Cardinality(Slots') \in Nat
        /\ Cardinality(Slots) <= Cardinality(Slots')
        /\ Room(comm) => Add(comm, utime) /\ Slots' = Slots \cup {comm}
        /\ ~Room(comm) => UNCHANGED proc_count /\ Slots' = Slots
    BY <1>6, SlotsBounded
  <2> SUFFICES ASSUME NEW c \in Comm
               PROVE  /\ proc_count'[c] <= Cardinality(touched[c] \cap (1..pid))
                      /\ Room(c)' => Cardinality(Kept(c) \cap (1..pid)) <= proc_count'[c]
    BY <2>1 DEF CountInv, Kept, Called
  <2> DEFINE T == touched[c] \cap (1..(pid - 1))
             N == Kept(c) \cap (1..(pid - 1))
  <2>4. T \subseteq Pid /\ N \subseteq Pid /\ pid \notin T /\ pid \notin N
    BY <2>2
  <2>5. /\ Cardinality(T \cup {pid}) = Cardinality(T) + 1 /\ Cardinality(N \cup {pid}) = Cardinality(N) + 1
        /\ Cardinality(T) \in Nat /\ Cardinality(N) \in Nat
    <3> HIDE DEF T, N
    <3> QED
      BY <2>1, <2>4, OneMore, Larger
  <2>6. /\ touched[c] \cap (1..pid) = IF pid \in touched[c] THEN T \cup {pid} ELSE T
        /\ Kept(c) \cap (1..pid)
             = IF pid \in Kept(c) THEN N \cup {pid} ELSE N
    BY <2>2
  <2>7. /\ proc_count[c] <= Cardinality(T) /\ (Room(c) => Cardinality(N) <= proc_count[c])
        /\ proc_count[c] \in Nat
    BY <2>1 DEF CountInv, TypeOK
  <2>8. pid \in Kept(c) => c = comm
    BY <2>1 DEF Kept, Called
  <2> DEFINE t == Cardinality(touched[c] \cap (1..pid))
             n == Cardinality(Kept(c) \cap (1..pid))
  <2>9. /\ t = IF pid \in touched[c] THEN Cardinality(T) + 1 ELSE Cardinality(T)
        /\ n = IF pid \in Kept(c) THEN Cardinality(N) + 1 ELSE Cardinality(N)
    BY <2>5, <2>6
  <2> HIDE DEF T, N, t, n
  <2>10. CASE c = comm /\ Room(comm)
    <3>1. proc_count'[c] = proc_count[c] + 1
      BY <2>1, <2>3, <2>10 DEF Add, TypeOK
    <3>2. pid \in touched[c] /\ Room(c)
      BY <2>1, <2>10
    <3>3. proc_count'[c] <= t /\ n <= proc_count'[c]
      BY <2>5, <2>7, <2>9, <3>1, <3>2
    <3> QED
      BY <3>3 DEF t, n
  <2>11. CASE c = comm /\ ~Room(comm)
    <3>1. proc_count'[c] = proc_count[c] /\ ~Room(c)'
      BY <2>1, <2>3, <2>11 DEF Room
    <3>2. proc_count'[c] <= t
      BY <2>5, <2>7, <2>9, <3>1
    <3> QED
      BY <3>1, <3>2 DEF t
  <2>12. CASE c # comm
    <3>1. proc_count'[c] = proc_count[c]
      BY <2>1, <2>3, <2>12 DEF Add, TypeOK
    <3>2. Room(c)' => Room(c)
      BY <2>3, <2>12, ConstantsAssumption DEF Room
    <3>3. proc_count'[c] <= t /\ (Room(c) => n <= proc_count'[c])
      BY <2>5, <2>7, <2>8, <2>9, <2>12, <3>1
    <3> QED
      BY <3>2, <3>3 DEF t, n
  <2> QED
    BY <2>10, <2>11, <2>12
<1>7. CASE (ReadDirEnd \/ ReadComm \/ ReadStat)
  <2>1. UNCHANGED <<proc_count, name, named, touched, skipped>> /\ Slots' = Slots /\ DoneUpTo' = DoneUpTo /\ pc # "idle"
    BY <1>7 DEF ReadDirEnd, ReadComm, ReadStat, proc, agg, seen, Slots, DoneUpTo, Reading
  <2> QED
    BY <1>4, <2>1
<1>8. CASE Emit
  BY <1>8 DEF Emit, CountInv
<1>9. CASE UNCHANGED vars
  <2>1. UNCHANGED <<pc, proc_count, name, named, touched, skipped>> /\ Slots' = Slots /\ DoneUpTo' = DoneUpTo
    BY <1>9 DEF vars, proc, agg, seen, Slots, DoneUpTo
  <2> QED
    BY <1>4, <2>1 DEF CountInv
<1>10. CASE Kernel /\ pc = "idle"
  BY <1>10 DEF Kernel, Fork, Rename, Work, Exit, Reader, CountInv
<1> QED
  BY <1>1, <1>2, <1>3, <1>5, <1>6, <1>7, <1>8, <1>9, <1>10 DEF Next, Kernel, Read

-----------------------------------------------------------------------------
(* CPU time.                                                               *)

\* What the kernel does to a process that bears a name nobody gives up: nothing but
\* add to its CPU time.
LEMMA KernelKeeps ==
  ASSUME TypeOK, Kernel
  PROVE  /\ UNCHANGED <<pc, pid, comm, utime, proc_count, utime_sum, ps_cputime, upto, upto_before,
                        gone_before>>
         /\ gone \subseteq gone'
         /\ \A c \in Comm \ gone' : \A q \in Pid :
              name[q] = c => /\ name'[q] = c /\ cpu[q] <= cpu'[q]
                             /\ q \in alive => q \in alive'
                             /\ q \in skipped => q \in skipped'
<1> USE ConstantsAssumption
<1>1. ASSUME NEW p \in Pid, NEW d \in Comm, Fork(p, d) \/ Rename(p, d)
      PROVE  /\ UNCHANGED Reader /\ gone \subseteq gone'
             /\ \A c \in Comm \ gone' : \A q \in Pid :
                  name[q] = c => /\ name'[q] = c /\ cpu[q] <= cpu'[q]
                                 /\ q \in alive => q \in alive'
                                 /\ q \in skipped => q \in skipped'
  <2>1. /\ UNCHANGED Reader /\ gone \subseteq gone' /\ alive' = alive /\ skipped \ {p} \subseteq skipped'
        /\ name' = [name EXCEPT ![p] = d] /\ (name[p] = NULL \/ name[p] \in gone')
        /\ cpu' = cpu \/ (cpu' = [cpu EXCEPT ![p] = 0] /\ name[p] = NULL)
    BY <1>1 DEF Fork, Rename
  <2>2. \A q \in Pid : cpu[q] \in Nat
    BY DEF TypeOK
  <2>3. ASSUME NEW c \in Comm \ gone', NEW q \in Pid, name[q] = c
        PROVE  name'[q] = c /\ cpu[q] <= cpu'[q] /\ (q \in skipped => q \in skipped')
    <3>1. q # p
      BY <2>1, <2>3
    <3>2. name'[q] = c /\ cpu[q] <= cpu'[q]
      BY <2>1, <2>2, <2>3, <3>1 DEF TypeOK
    <3>3. q \in skipped => q \in skipped'
      BY <2>1, <3>1
    <3> QED
      BY <3>2, <3>3
  <2> QED
    BY <2>1, <2>3
<1>2. ASSUME NEW p \in Pid, Work(p) \/ Exit(p)
      PROVE  /\ UNCHANGED Reader /\ gone \subseteq gone'
             /\ \A c \in Comm \ gone' : \A q \in Pid :
                  name[q] = c => /\ name'[q] = c /\ cpu[q] <= cpu'[q]
                                 /\ q \in alive => q \in alive'
                                 /\ q \in skipped => q \in skipped'
  <2>1. \A q \in Pid : cpu[q] \in Nat
    BY DEF TypeOK
  <2>2. CASE Work(p)
    <3>1. /\ UNCHANGED <<Reader, gone, name, alive, skipped>> /\ cpu' = [cpu EXCEPT ![p] = cpu[p] + 1]
      BY <2>2 DEF Work, seen
    <3> QED
      BY <2>1, <3>1, SMTT(30) DEF TypeOK
  <2>3. CASE Exit(p)
    <3>1. /\ UNCHANGED <<Reader, cpu>> /\ gone' = gone \cup {name[p]}
          /\ name' = [name EXCEPT ![p] = NULL] /\ alive' = alive \ {p} /\ skipped' = skipped \ {p}
      BY <2>3 DEF Exit
    <3> QED
      BY <2>1, <3>1, SMTT(30) DEF TypeOK
  <2> QED
    BY <1>2, <2>2, <2>3
<1> QED
  BY <1>1, <1>2 DEF Kernel, Reader, agg, before

\* What counting a process does to the sums: those before its entry stay, the others
\* of its name grow by its CPU time.
LEMMA SumsAfterStatm ==
  ASSUME TypeOK, PassInv, ReadStatm, NEW c \in Comm
  PROVE  /\ pid \in Pid /\ comm \in Comm /\ utime \in Nat
         /\ ~(c = comm /\ Room(comm)) => upto'[c] = upto[c] /\ utime_sum'[c] = utime_sum[c]
         /\ c = comm /\ Room(comm) =>
              /\ utime_sum'[c] = utime_sum[c] + utime
              /\ \A n \in 0..NPids : upto'[c][n] = IF n < pid THEN upto[c][n] ELSE upto[c][n] + utime
<1>0. pid \in Pid /\ comm \in Comm /\ utime \in Nat
  BY DEF ReadStatm, PassInv, Reading, TypeOK
<1>1. CASE Room(comm)
  <2>1. Add(comm, utime)
    BY <1>1, SlotsBounded
  <2> QED
    BY <1>0, <1>1, <2>1 DEF Add, TypeOK
<1>2. CASE ~Room(comm)
  BY <1>0, <1>2, SlotsBounded
<1> QED
  BY <1>1, <1>2

\* An entry that is passed over holds no process, one that came late, or one that
\* could not be read.
LEMMA PassedOver ==
  ASSUME TypeOK, PassInv, ReadDir \/ ReadDirEnd \/ Vanished \/ ReadFails \/ ReadComm \/ ReadStat
  PROVE  /\ pc # "idle" /\ pc' # "idle" /\ Slots' = Slots
         /\ UNCHANGED <<name, cpu, proc_count, utime_sum, ps_cputime, upto, upto_before, gone,
                       gone_before, alive>>
         /\ skipped \subseteq skipped'
         /\ \/ DoneUpTo' = DoneUpTo
            \/ /\ DoneUpTo' = DoneUpTo + 1 /\ DoneUpTo' \in Pid
               /\ name[DoneUpTo'] = NULL \/ DoneUpTo' \notin alive \/ DoneUpTo' \in skipped'
<1> USE ConstantsAssumption
<1>1. /\ pc # "idle" /\ pc' # "idle" /\ Slots' = Slots
      /\ UNCHANGED <<name, cpu, proc_count, utime_sum, ps_cputime, upto, upto_before, gone,
                    gone_before, alive>>
      /\ skipped \subseteq skipped'
  BY DEF ReadDir, ReadDirEnd, Vanished, ReadFails, ReadComm, ReadStat, proc, agg, seen, before, Slots
<1>2. CASE ReadDirEnd \/ ReadComm \/ ReadStat
  <2>1. DoneUpTo' = DoneUpTo
    BY <1>2 DEF ReadDirEnd, ReadComm, ReadStat, DoneUpTo, Reading
  <2> QED
    BY <1>1, <2>1
<1>3. CASE Vanished \/ ReadFails
  <2>1. /\ pid \in Pid /\ DoneUpTo = pid - 1 /\ DoneUpTo' = pid
        /\ name[pid] = NULL \/ pid \in skipped'
    BY <1>3 DEF Vanished, ReadFails, DoneUpTo, Reading, PassInv
  <2>2. DoneUpTo' = DoneUpTo + 1
    BY <2>1 DEF Pid
  <2> QED
    BY <1>1, <2>1, <2>2
<1>4. CASE ReadDir
  <2>1. DoneUpTo = pid /\ pid \in 0..NPids /\ pid < NPids /\ pid' = pid + 1
    BY <1>4 DEF ReadDir, DoneUpTo, Reading, TypeOK
  <2>2. CASE pc' = "comm"
    <3>1. DoneUpTo' = DoneUpTo
      BY <2>1, <2>2 DEF DoneUpTo, Reading
    <3> QED
      BY <1>1, <3>1
  <2>3. CASE pid + 1 \notin alive /\ pc' = "readdir"
    <3>1. DoneUpTo' = pid + 1 /\ pid + 1 \in Pid
      BY <2>1, <2>3 DEF DoneUpTo, Reading, Pid
    <3> QED
      BY <1>1, <2>1, <2>3, <3>1
  <2> QED
    BY <1>4, <2>2, <2>3 DEF ReadDir
<1> QED
  BY <1>2, <1>3, <1>4

\* The partial sums end in the sum of the slot.
LEMMA SumStep == ASSUME TypeOK, PassInv, SumInv, [Next]_vars PROVE SumInv'
<1> USE ConstantsAssumption
<1>0. DoneUpTo \in 0..NPids
  BY DoneType
<1>1. CASE Kernel \/ UNCHANGED vars
  <2>1. UNCHANGED <<pc, pid, utime_sum, ps_cputime, upto, upto_before>>
    BY <1>1, KernelKeeps DEF vars, agg, before
  <2> QED
    BY <2>1 DEF SumInv, DoneUpTo
<1>2. CASE Open
  <2>1. /\ pc = "idle" /\ pc' = "readdir" /\ UNCHANGED ps_cputime /\ upto_before' = upto
        /\ utime_sum' = [c \in Comm |-> 0]
        /\ upto' = [c \in Comm |-> [n \in 0..NPids |-> 0]]
    BY <1>2 DEF Open
  <2>2. DoneUpTo' = 0
    BY <1>2 DEF Open, DoneUpTo, Reading
  <2>3. \A c \in Comm : \A n \in 0..NPids : upto'[c][n] = 0
    BY <2>1
  <2> QED
    BY <2>1, <2>2, <2>3 DEF SumInv
<1>3. CASE ReadDir \/ ReadDirEnd \/ Vanished \/ ReadFails \/ ReadComm \/ ReadStat
  <2>1. /\ UNCHANGED <<utime_sum, ps_cputime, upto, upto_before>> /\ pc # "idle" /\ pc' # "idle"
        /\ DoneUpTo' = DoneUpTo \/ DoneUpTo' = DoneUpTo + 1
    BY <1>3, PassedOver
  <2>2. DoneUpTo' \in Nat /\ DoneUpTo <= DoneUpTo'
    BY <1>0, <2>1
  <2>3. DoneUpTo'..NPids \subseteq DoneUpTo..NPids
    BY <1>0, <2>2
  <2> QED
    BY <2>1, <2>3 DEF SumInv
<1>4. CASE ReadStatm
  <2>1. /\ pc # "idle" /\ pc' = "readdir" /\ DoneUpTo = pid - 1 /\ DoneUpTo' = pid
        /\ UNCHANGED <<ps_cputime, upto_before>>
    BY <1>4 DEF ReadStatm, DoneUpTo, Reading, before
  <2>2. ASSUME NEW c \in Comm PROVE upto'[c][0] = 0 /\ \A n \in pid..NPids : upto'[c][n] = utime_sum'[c]
    <3>1. pid \in Pid /\ pid..NPids \subseteq (pid - 1)..NPids /\ pid..NPids \subseteq 0..NPids /\ 0 < pid
      BY <1>4, SumsAfterStatm DEF Pid
    <3>2. upto[c][0] = 0 /\ \A n \in pid..NPids : upto[c][n] = utime_sum[c]
      BY <2>1, <3>1 DEF SumInv
    <3>3. CASE ~(c = comm /\ Room(comm))
      BY <1>4, <3>2, <3>3, SumsAfterStatm
    <3>4. CASE c = comm /\ Room(comm)
      <4>1. /\ utime_sum'[c] = utime_sum[c] + utime
            /\ \A n \in 0..NPids : upto'[c][n] = IF n < pid THEN upto[c][n] ELSE upto[c][n] + utime
        BY <1>4, <3>4, SumsAfterStatm
      <4>2. upto'[c][0] = 0
        BY <3>1, <3>2, <4>1
      <4>3. \A n \in pid..NPids : n \in 0..NPids /\ ~(n < pid)
        BY <3>1 DEF Pid
      <4> QED
        BY <3>2, <4>1, <4>2, <4>3
    <3> QED
      BY <3>3, <3>4
  <2> QED
    BY <2>1, <2>2 DEF SumInv
<1>5. CASE Emit
  <2>1. /\ pc = "emit" /\ pc' = "idle" /\ UNCHANGED upto /\ DoneUpTo = NPids
        /\ ps_cputime' = [c \in Comm |-> IF c \in Slots THEN utime_sum[c] ELSE NULL]
    BY <1>5 DEF Emit, DoneUpTo, Reading, PassInv
  <2>2. \A c \in Comm : upto[c][NPids] = utime_sum[c]
    BY <2>1 DEF SumInv
  <2> QED
    BY <2>1, <2>2 DEF SumInv
<1> QED
  BY <1>1, <1>2, <1>3, <1>4, <1>5 DEF Next, Read

\* What the sums and the CPU times are.
LEMMA Times ==
  ASSUME TypeOK, NEW c \in Comm, NEW n \in Pid
  PROVE  /\ upto[c][n] \in Nat /\ upto[c][n - 1] \in Nat
         /\ upto_before[c][n] \in Nat /\ upto_before[c][n - 1] \in Nat
         /\ cpu[n] \in Nat /\ utime \in Nat /\ utime_sum[c] \in Nat
<1>1. n \in 0..NPids /\ n - 1 \in 0..NPids
  BY ConstantsAssumption DEF Pid
<1>2. upto[c] \in [0..NPids -> Nat] /\ upto_before[c] \in [0..NPids -> Nat]
  BY DEF TypeOK
<1>3. cpu[n] \in Nat /\ utime \in Nat /\ utime_sum[c] \in Nat
  BY ConstantsAssumption DEF TypeOK
<1> QED
  BY <1>1, <1>2, <1>3

\* A name that nobody gave up keeps what was counted for it.
LEMMA KeptStep == ASSUME TypeOK, PassInv, SumInv, KeptInv, [Next]_vars, TypeOK' PROVE KeptInv'
<1> USE ConstantsAssumption
<1>1. CASE Kernel
  <2>1. /\ UNCHANGED <<pc, pid, comm, utime, upto>> /\ gone \subseteq gone'
        /\ \A c \in Comm \ gone' : \A q \in Pid : name[q] = c => name'[q] = c /\ cpu[q] <= cpu'[q]
    BY <1>1, KernelKeeps
  <2>2. ASSUME NEW c \in Comm \ gone', NEW n \in Pid
        PROVE  AddsAtMost(upto, c, n, 0) \/ (name'[n] = c /\ AddsAtMost(upto, c, n, cpu'[n]))
    <3>1. upto[c][n] \in Nat /\ upto[c][n - 1] \in Nat /\ cpu[n] \in Nat /\ cpu'[n] \in Nat
      <4>1. cpu'[n] \in Nat
        BY DEF TypeOK
      <4> QED
        BY <4>1, Times
    <3>2. AddsAtMost(upto, c, n, 0) \/ (name[n] = c /\ AddsAtMost(upto, c, n, cpu[n]))
      BY <2>1 DEF KeptInv
    <3>3. name[n] = c => name'[n] = c /\ cpu[n] <= cpu'[n]
      BY <2>1
    <3> QED
      BY <3>1, <3>2, <3>3 DEF AddsAtMost
  <2>3. ASSUME pc \in {"stat", "statm"}, comm \notin gone'
        PROVE  name'[pid] = comm /\ (pc = "statm" => utime <= cpu'[pid])
    <3>1. comm \in Comm \ gone' /\ pid \in Pid /\ name[pid] = comm /\ (pc = "statm" => utime <= cpu[pid])
      BY <2>1, <2>3 DEF PassInv, KeptInv, Reading
    <3>2. name'[pid] = comm /\ cpu[pid] <= cpu'[pid]
      BY <2>1, <3>1
    <3>3. utime \in Nat /\ cpu[pid] \in Nat /\ cpu'[pid] \in Nat
      BY <3>1 DEF TypeOK
    <3> QED
      BY <3>1, <3>2, <3>3
  <2> QED
    BY <2>1, <2>2, <2>3 DEF KeptInv, AddsAtMost
<1>2. CASE Open
  <2>1. pc' = "readdir" /\ upto' = [c \in Comm |-> [n \in 0..NPids |-> 0]]
    BY <1>2 DEF Open
  <2>2. \A n \in Pid : n \in 0..NPids /\ n - 1 \in 0..NPids
    BY DEF Pid
  <2>3. \A c \in Comm : \A n \in Pid : AddsAtMost(upto', c, n, 0)
    BY <2>1, <2>2 DEF AddsAtMost
  <2> QED
    BY <2>1, <2>3 DEF KeptInv, AddsAtMost
<1>3. CASE ReadDir \/ ReadDirEnd \/ Vanished \/ ReadFails \/ ReadComm \/ ReadStat
  <2>1. UNCHANGED <<name, cpu, upto, gone>>
    BY <1>3, PassedOver
  <2>2. pc' \in {"stat", "statm"} /\ comm' \notin gone =>
          name[pid'] = comm' /\ (pc' = "statm" => utime' <= cpu[pid'])
    <3>1. CASE ReadDir \/ ReadDirEnd \/ Vanished \/ ReadFails
      BY <3>1 DEF ReadDir, ReadDirEnd, Vanished, ReadFails
    <3>2. CASE ReadComm
      BY <3>2 DEF ReadComm
    <3>3. CASE ReadStat
      <4>1. pid \in Pid /\ cpu[pid] \in Nat
        BY <3>3 DEF ReadStat, PassInv, Reading, TypeOK
      <4> QED
        BY <3>3, <4>1 DEF ReadStat, KeptInv
    <3> QED
      BY <1>3, <3>1, <3>2, <3>3
  <2> QED
    BY <2>1, <2>2 DEF KeptInv, AddsAtMost
<1>4. CASE ReadStatm
  <2>1. /\ pc = "statm" /\ pc' = "readdir" /\ UNCHANGED <<name, cpu, gone>> /\ DoneUpTo = pid - 1
    BY <1>4 DEF ReadStatm, proc, seen, DoneUpTo, Reading
  <2>2. ASSUME NEW c \in Comm \ gone, NEW n \in Pid
        PROVE  AddsAtMost(upto', c, n, 0) \/ (name[n] = c /\ AddsAtMost(upto', c, n, cpu[n]))
    <3>0. /\ pid \in Pid /\ n \in 0..NPids /\ n - 1 \in 0..NPids /\ n \in Nat /\ pid \in Nat
          /\ pid \in (pid - 1)..NPids /\ pid - 1 \in (pid - 1)..NPids
      BY <1>4, SumsAfterStatm DEF Pid
    <3>1. upto[c][n] \in Nat /\ upto[c][n - 1] \in Nat /\ cpu[n] \in Nat /\ utime \in Nat
      BY Times
    <3>2. AddsAtMost(upto, c, n, 0) \/ (name[n] = c /\ AddsAtMost(upto, c, n, cpu[n]))
      BY DEF KeptInv
    <3>3. CASE ~(c = comm /\ Room(comm))
      BY <1>4, <3>2, <3>3, SumsAfterStatm DEF AddsAtMost
    <3>4. CASE c = comm /\ Room(comm)
      <4>1. \A m \in 0..NPids : upto'[c][m] = IF m < pid THEN upto[c][m] ELSE upto[c][m] + utime
        BY <1>4, <3>4, SumsAfterStatm
      <4>2. upto'[c][n] = IF n < pid THEN upto[c][n] ELSE upto[c][n] + utime
        BY <3>0, <4>1
      <4>3. upto'[c][n - 1] = IF n - 1 < pid THEN upto[c][n - 1] ELSE upto[c][n - 1] + utime
        BY <3>0, <4>1
      <4>4. CASE n # pid
        BY <3>0, <3>1, <3>2, <4>2, <4>3, <4>4 DEF AddsAtMost
      <4>5. CASE n = pid
        <5>1. upto[c][n] = utime_sum[c] /\ upto[c][n - 1] = utime_sum[c]
          BY <2>1, <3>0, <4>5 DEF SumInv
        <5>2. name[n] = c /\ utime <= cpu[n]
          BY <2>1, <3>4, <4>5 DEF KeptInv
        <5> QED
          BY <3>0, <3>1, <4>2, <4>3, <4>5, <5>1, <5>2 DEF AddsAtMost
      <4> QED
        BY <4>4, <4>5
    <3> QED
      BY <3>3, <3>4
  <2> QED
    BY <2>1, <2>2 DEF KeptInv, AddsAtMost
<1>5. CASE Emit \/ UNCHANGED vars
  <2>1. UNCHANGED <<name, cpu, upto, gone>> /\ (pc' = "idle" \/ UNCHANGED <<pc, pid, comm, utime>>)
    BY <1>5 DEF Emit, vars, proc, seen
  <2> QED
    BY <2>1 DEF KeptInv, AddsAtMost
<1> QED
  BY <1>1, <1>2, <1>3, <1>4, <1>5 DEF Next, Read

\* What the pass before counted for such a name is counted again.
LEMMA BeforeStep ==
  ASSUME TypeOK, PassInv, SumInv, KeptInv, BeforeInv, [Next]_vars, TypeOK'
  PROVE  BeforeInv'
<1> USE ConstantsAssumption
<1>0. DoneUpTo \in 0..NPids
  BY DoneType
<1>1. CASE Kernel /\ pc # "idle"
  <2>1. /\ UNCHANGED <<pc, pid, comm, utime, utime_sum, upto_before, gone_before, proc_count>>
        /\ gone \subseteq gone'
        /\ \A c \in Comm \ gone' : \A q \in Pid :
              name[q] = c => /\ name'[q] = c /\ cpu[q] <= cpu'[q]
                             /\ q \in alive => q \in alive'
                             /\ q \in skipped => q \in skipped'
    BY <1>1, KernelKeeps
  <2>2. Slots' = Slots /\ DoneUpTo' = DoneUpTo /\ \A c : Room(c)' = Room(c)
    BY <2>1 DEF Slots, DoneUpTo, Room
  <2>3. ASSUME NEW c \in Stable' PROVE c \in Stable /\ c \in Comm \ gone'
    <3>1. c \in Comm \ gone' /\ c \notin gone_before /\ \A q \in skipped' : name'[q] # c
      BY <2>1 DEF Stable
    <3>2. \A q \in skipped : name[q] # c
      BY <2>1, <3>1 DEF TypeOK
    <3> QED
      BY <2>1, <3>1, <3>2 DEF Stable
  <2>4. ASSUME NEW c \in Stable', NEW n \in Pid
        PROVE  \/ AddsAtMost(upto_before, c, n, 0)
               \/ n \in alive' /\ name'[n] = c /\ AddsAtMost(upto_before, c, n, cpu'[n])
    <3>1. c \in Comm /\ c \in Stable /\ c \notin gone'
      BY <2>3
    <3>2. upto_before[c][n] \in Nat /\ upto_before[c][n - 1] \in Nat /\ cpu[n] \in Nat /\ cpu'[n] \in Nat
      <4>1. cpu'[n] \in Nat
        BY DEF TypeOK
      <4> QED
        BY <3>1, <4>1, Times
    <3>3. \/ AddsAtMost(upto_before, c, n, 0)
          \/ n \in alive /\ name[n] = c /\ AddsAtMost(upto_before, c, n, cpu[n])
      BY <1>1, <3>1 DEF BeforeInv
    <3>4. name[n] = c => name'[n] = c /\ cpu[n] <= cpu'[n] /\ (n \in alive => n \in alive')
      BY <2>1, <3>1
    <3> QED
      BY <3>2, <3>3, <3>4 DEF AddsAtMost
  <2>5. ASSUME NEW c \in Stable'
        PROVE  /\ pc \in {"stat", "statm"} =>
                    \/ AddsAtMost(upto_before, c, pid, 0)
                    \/ comm = c /\ (pc = "statm" => AddsAtMost(upto_before, c, pid, utime))
               /\ Room(c) => upto_before[c][DoneUpTo] <= utime_sum[c]
    BY <1>1, <2>3 DEF BeforeInv
  <2> QED
    BY <1>1, <2>1, <2>2, <2>4, <2>5 DEF BeforeInv, AddsAtMost
<1>2. CASE Open
  <2>1. /\ pc' = "readdir" /\ UNCHANGED <<name, cpu>> /\ upto_before' = upto /\ DoneUpTo' = 0
        /\ utime_sum' = [c \in Comm |-> 0] /\ alive' = {p \in Pid : name[p] # NULL}
        /\ gone' = {} /\ gone_before' = gone
    BY <1>2 DEF Open, proc, DoneUpTo, Reading
  <2>2. ASSUME NEW c \in Stable' PROVE c \in Comm \ gone
    BY <2>1 DEF Stable
  <2>3. ASSUME NEW c \in Stable', NEW n \in Pid
        PROVE  \/ AddsAtMost(upto, c, n, 0)
               \/ n \in alive' /\ name[n] = c /\ AddsAtMost(upto, c, n, cpu[n])
    <3>1. AddsAtMost(upto, c, n, 0) \/ (name[n] = c /\ AddsAtMost(upto, c, n, cpu[n]))
      BY <2>2 DEF KeptInv
    <3>2. name[n] = c => n \in alive'
      BY <2>1, <2>2
    <3> QED
      BY <3>1, <3>2
  <2>4. \A c \in Stable' : upto[c][0] <= utime_sum'[c]
    BY <2>1, <2>2 DEF SumInv
  <2> QED
    BY <2>1, <2>3, <2>4 DEF BeforeInv, AddsAtMost
<1>3. CASE ReadDir \/ ReadDirEnd \/ Vanished \/ ReadFails \/ ReadComm \/ ReadStat
  <2>1. /\ pc # "idle" /\ Slots' = Slots
        /\ UNCHANGED <<name, cpu, utime_sum, upto_before, gone, gone_before, alive>>
        /\ skipped \subseteq skipped'
        /\ \/ DoneUpTo' = DoneUpTo
           \/ /\ DoneUpTo' = DoneUpTo + 1 /\ DoneUpTo' \in Pid
              /\ name[DoneUpTo'] = NULL \/ DoneUpTo' \notin alive \/ DoneUpTo' \in skipped'
    BY <1>3, PassedOver
  <2>2. /\ Stable' \subseteq Stable /\ \A c : Room(c)' = Room(c)
        /\ \A c \in Stable' : \A p \in skipped' : name[p] # c
    BY <2>1 DEF Stable, Room
  <2>3. \A c \in Stable : \A n \in Pid :
          \/ AddsAtMost(upto_before, c, n, 0)
          \/ n \in alive /\ name[n] = c /\ AddsAtMost(upto_before, c, n, cpu[n])
    BY <2>1 DEF BeforeInv
  <2>4. ASSUME NEW c \in Stable, pc' \in {"stat", "statm"}
        PROVE  \/ AddsAtMost(upto_before, c, pid', 0)
               \/ comm' = c /\ (pc' = "statm" => AddsAtMost(upto_before, c, pid', utime'))
    <3>1. CASE ReadComm
      <4>1. pid \in Pid /\ pid' = pid /\ pc' = "stat" /\ comm' = name[pid]
        BY <3>1 DEF ReadComm, PassInv, Reading
      <4> QED
        BY <2>3, <4>1
    <3>2. CASE ReadStat
      <4>1. pid \in Pid /\ UNCHANGED <<pid, comm>> /\ pc = "stat" /\ utime' = cpu[pid]
        BY <3>2 DEF ReadStat, PassInv, Reading
      <4>2. AddsAtMost(upto_before, c, pid, 0) \/ comm = c
        BY <4>1 DEF BeforeInv
      <4> QED
        BY <2>3, <4>1, <4>2
    <3>3. CASE ReadDir \/ ReadDirEnd \/ Vanished \/ ReadFails
      BY <2>4, <3>3 DEF ReadDir, ReadDirEnd, Vanished, ReadFails
    <3> QED
      BY <1>3, <3>1, <3>2, <3>3
  <2>5. ASSUME NEW c \in Stable', Room(c) PROVE upto_before[c][DoneUpTo'] <= utime_sum[c]
    <3>1. upto_before[c][DoneUpTo] <= utime_sum[c] /\ c \in Comm /\ c \in Stable
      BY <2>1, <2>2, <2>5 DEF BeforeInv, Stable
    <3>2. CASE DoneUpTo' = DoneUpTo
      BY <3>1, <3>2
    <3>3. CASE /\ DoneUpTo' = DoneUpTo + 1 /\ DoneUpTo' \in Pid
               /\ name[DoneUpTo'] = NULL \/ DoneUpTo' \notin alive \/ DoneUpTo' \in skipped'
      <4>1. AddsAtMost(upto_before, c, DoneUpTo', 0)
        BY <2>2, <2>3, <3>1, <3>3
      <4>2. DoneUpTo' - 1 = DoneUpTo
        BY <1>0, <3>3
      <4>3. /\ upto_before[c][DoneUpTo'] \in Nat /\ upto_before[c][DoneUpTo' - 1] \in Nat
            /\ utime_sum[c] \in Nat
        BY <3>1, <3>3, Times
      <4> QED
        BY <3>1, <4>1, <4>2, <4>3 DEF AddsAtMost
    <3> QED
      BY <2>1, <3>2, <3>3
  <2> QED
    BY <2>1, <2>2, <2>3, <2>4, <2>5 DEF BeforeInv, AddsAtMost
<1>4. CASE ReadStatm
  <2>1. /\ pc = "statm" /\ pc' = "readdir" /\ DoneUpTo = pid - 1 /\ DoneUpTo' = pid
        /\ UNCHANGED <<name, cpu, alive, gone, skipped, gone_before, upto_before>>
    BY <1>4 DEF ReadStatm, proc, seen, before, DoneUpTo, Reading
  <2>2. ASSUME NEW c \in Stable, Room(c)' PROVE upto_before[c][pid] <= utime_sum'[c]
    <3>0. c \in Comm /\ pid \in Pid
      BY <1>4, SumsAfterStatm DEF Stable
    <3>1. /\ upto_before[c][pid] \in Nat /\ upto_before[c][pid - 1] \in Nat
          /\ utime_sum[c] \in Nat /\ utime \in Nat
      BY <3>0, Times
    <3>2. \/ AddsAtMost(upto_before, c, pid, 0)
          \/ comm = c /\ AddsAtMost(upto_before, c, pid, utime)
      BY <2>1 DEF BeforeInv
    <3>3. Room(c) => upto_before[c][pid - 1] <= utime_sum[c]
      BY <2>1 DEF BeforeInv
    <3>4. CASE c = comm /\ Room(comm)
      <4>1. utime_sum'[c] = utime_sum[c] + utime
        BY <1>4, <3>0, <3>4, SumsAfterStatm
      <4> QED
        BY <3>1, <3>2, <3>3, <3>4, <4>1 DEF AddsAtMost
    <3>5. CASE c = comm /\ ~Room(comm)
      BY <1>4, <2>2, <3>5, SlotsBounded DEF Room
    <3>6. CASE c # comm
      <4>1. utime_sum'[c] = utime_sum[c]
        BY <1>4, <3>0, <3>6, SumsAfterStatm
      <4>2. /\ Slots' \subseteq Slots \cup {comm} /\ Cardinality(Slots) \in Nat
            /\ Cardinality(Slots') \in Nat /\ Cardinality(Slots) <= Cardinality(Slots')
        BY <1>4, SlotsBounded
      <4>3. Room(c)
        BY <2>2, <3>6, <4>2 DEF Room
      <4> QED
        BY <3>1, <3>2, <3>3, <3>6, <4>1, <4>3 DEF AddsAtMost
    <3> QED
      BY <3>4, <3>5, <3>6
  <2>3. Stable' = Stable
    BY <2>1 DEF Stable
  <2> QED
    BY <2>1, <2>2, <2>3 DEF BeforeInv, AddsAtMost
<1>5. CASE Emit \/ (Kernel /\ pc = "idle")
  <2>1. pc' = "idle"
    BY <1>5, KernelKeeps DEF Emit
  <2> QED
    BY <2>1 DEF BeforeInv
<1>6. CASE UNCHANGED vars
  <2>1. /\ UNCHANGED <<pc, pid, name, cpu, comm, utime, utime_sum, proc_count, upto_before, gone,
                       skipped, gone_before, alive>>
    BY <1>6 DEF vars, proc, agg, seen, before
  <2> QED
    BY <2>1 DEF BeforeInv, AddsAtMost, Stable, Room, Slots, DoneUpTo
<1> QED
  BY <1>1, <1>2, <1>3, <1>4, <1>5, <1>6 DEF Next, Read

-----------------------------------------------------------------------------
(* Results.                                                                *)

\* The first pass starts from an empty table and nothing emitted.
LEMMA InitIInv == Init => IInv
<1> SUFFICES ASSUME Init PROVE IInv
  OBVIOUS
<1> USE ConstantsAssumption
<1>1. Slots = {}
  BY DEF Init, Slots
<1>2. IsFiniteSet(Slots) /\ Cardinality(Slots) = 0
  BY <1>1, FS_EmptySet
<1>3. cpu \in [Pid -> 0..MaxCpu] /\ \A n \in Pid : n \in 0..NPids /\ n - 1 \in 0..NPids
  BY DEF Init, Pid
<1>4. TypeOK
  BY <1>2, <1>3 DEF Init, TypeOK
<1>5. PassInv
  BY <1>2 DEF Init, PassInv, Reading
<1>6. SumInv
  BY DEF Init, SumInv
<1>7. KeptInv
  BY <1>3 DEF Init, KeptInv, AddsAtMost
<1>8. CountInv /\ BeforeInv
  BY DEF Init, CountInv, BeforeInv
<1> QED
  BY <1>4, <1>5, <1>6, <1>7, <1>8 DEF IInv

\* What holds between any two of the reads of a pass, whatever the processes do
\* meanwhile.
THEOREM Invariant == Spec => []IInv
<1>1. IInv /\ [Next]_vars => IInv'
  BY TypeStep, PassStep, CountStep, SumStep, KeptStep, BeforeStep DEF IInv
<1> QED
  BY <1>1, InitIInv, PTL DEF Spec

\* The table of the reader never has more slots than it may.
THEOREM TypeCorrect == Spec => []TypeOK
<1>1. IInv => TypeOK
  BY DEF IInv
<1> QED
  BY <1>1, Invariant, PTL

\* The number of processes of a name is right up to those that came, went or could
\* not be read during the pass, and only a full table loses a name otherwise.
THEOREM Counts == Spec => []CountBounded
<1>1. ASSUME IInv PROVE CountBounded
  <2> SUFFICES ASSUME pc = "emit", NEW c \in Comm
               PROVE  /\ c \in Slots => /\ Cardinality(Kept(c)) <= proc_count[c]
                                        /\ proc_count[c] <= Cardinality(touched[c])
                      /\ Kept(c) # {} /\ c \notin Slots => Cardinality(Slots) = MaxComms
    BY DEF CountBounded
  <2>1. DoneUpTo = NPids /\ touched[c] \subseteq Pid /\ Kept(c) \subseteq Pid
    BY <1>1 DEF IInv, PassInv, TypeOK, DoneUpTo, Reading, Kept, Called
  <2>2. touched[c] \cap (1..DoneUpTo) = touched[c]
    BY <2>1 DEF Pid
  <2>3. Kept(c) \cap (1..DoneUpTo) = Kept(c)
    BY <2>1, Zenon DEF Pid
  <2>4. /\ proc_count[c] <= Cardinality(touched[c])
        /\ Room(c) => Cardinality(Kept(c)) <= proc_count[c]
    BY <1>1, <2>2, <2>3 DEF IInv, CountInv
  <2>5. /\ IsFiniteSet(Kept(c)) /\ Cardinality(Kept(c)) \in Nat
        /\ IsFiniteSet(Slots) /\ Cardinality(Slots) \in Nat /\ Cardinality(Slots) <= MaxComms
    BY <1>1, <2>1, Larger, FS_CardinalityType DEF IInv, PassInv, TypeOK
  <2>6. ASSUME Kept(c) # {}, c \notin Slots PROVE Cardinality(Slots) = MaxComms
    <3>1. proc_count[c] = 0
      BY <1>1, <2>6 DEF IInv, TypeOK, Slots
    <3>2. Cardinality(Kept(c)) # 0
      BY <2>5, <2>6, FS_EmptySet
    <3>3. ~Room(c)
      BY <2>4, <2>5, <3>1, <3>2
    <3> QED
      BY <2>5, <3>3, ConstantsAssumption DEF Room
  <2> QED
    BY <2>4, <2>6 DEF Room
<1> QED
  BY <1>1, Invariant, PTL

\* The counter of a name goes back only if one of its processes ended or changed its
\* name since the earlier pass began, or could not be read by the later one.
THEOREM Regress == Spec => RegressExplained
<1> DEFINE Explained == \A c \in Comm :
          ps_cputime[c] # NULL /\ ps_cputime'[c] # NULL /\ ps_cputime'[c] < ps_cputime[c]
            => c \in gone \cup gone_before \cup {name[p] : p \in skipped}
<1>1. ASSUME IInv, [Next]_vars PROVE [Explained]_vars
  <2> USE ConstantsAssumption
  <2>0. \A c \in Comm : ps_cputime[c] # NULL => ps_cputime[c] \in Nat
    BY <1>1 DEF IInv, TypeOK
  <2>1. CASE Emit
    <3> SUFFICES ASSUME NEW c \in Comm, ps_cputime[c] # NULL, ps_cputime'[c] # NULL, c \in Stable
                 PROVE  ps_cputime[c] <= ps_cputime'[c]
      <4>1. \A c \in Comm : ps_cputime'[c] # NULL => ps_cputime'[c] \in Nat
        BY <1>1, <2>1 DEF Emit, IInv, TypeOK
      <4> QED
        BY <2>0, <4>1 DEF Stable
    <3>1. c \in Slots /\ ps_cputime'[c] = utime_sum[c]
      BY <2>1 DEF Emit
    <3>2. pc = "emit" /\ DoneUpTo = NPids
      BY <1>1, <2>1 DEF Emit, IInv, PassInv, DoneUpTo, Reading
    <3>3. ps_cputime[c] = upto_before[c][NPids]
      BY <1>1, <3>2 DEF IInv, SumInv
    <3>4. upto_before[c][NPids] <= utime_sum[c]
      BY <1>1, <3>1, <3>2 DEF IInv, BeforeInv, Room
    <3> QED
      BY <3>1, <3>3, <3>4
  <2>2. CASE ~Emit
    <3>1. ps_cputime' = ps_cputime
      BY <1>1, <2>2 DEF Next, Kernel, Read, Fork, Work, Rename, Exit, Open, ReadDir, ReadDirEnd,
                       Vanished, ReadFails, ReadComm, ReadStat, ReadStatm, vars, Reader
    <3> QED
      BY <2>0, <3>1
  <2> QED
    BY <2>1, <2>2
<1> QED
  BY <1>1, Invariant, PTL DEF Spec, RegressExplained
=============================================================================
