------------------------------ MODULE Collect ------------------------------
(***************************************************************************)
(* The cycle of collect.c with its readers: each enabled reader parses its *)
(* source and emits metrics; emit_cb hands each one to the writer, which   *)
(* updates the file of its path, and to the snapshot, published when all   *)
(* readers have run.  A source is a list of lines, a line what the parser  *)
(* gets out of it.  Values are left out (CpuReader has the one that needs  *)
(* two passes); names that are put together are sequences of their parts.  *)
(***************************************************************************)
EXTENDS CpuReader, Sequences, SequencesExt, FiniteSets

CONSTANTS
    Enabled,    \* collect_build_enabled: the readers, in their order
    Usual,      \* Usual[r]: the source of r on a normal day
    Odd,        \* Odd[r]: other contents it may have
    UsualTicks, \* the Advance of a normal interval
    Interval,   \* seconds between two cycles
    Delays,     \* seconds a cycle may lose at a time, beyond those it needs
    MaxOdd,     \* bound: unusual events
    MaxCycles   \* bound: cycles

Readers == {Enabled[k] : k \in 1..Len(Enabled)}

ASSUME CollectAssumption ==
    /\ Interval \in Nat \ {0} /\ Delays \subseteq Nat \ {0}
    /\ MaxOdd \in Nat /\ MaxCycles \in Nat
    /\ UsualTicks \in Advance
    /\ Readers \subseteq DOMAIN Usual /\ Readers \subseteq DOMAIN Odd

VARIABLES
    cpc,        \* "begin", "read", "sleep", "exited"
    i,          \* readers that have run in this cycle
    source,     \* source[r]: what r found in this cycle
    staged,     \* the metrics staged for the snapshot
    published,  \* the snapshot served
    age,        \* age[p]: seconds since the last update of file p
    written,    \* the files updated in this cycle
    written_before, \* and in the one before
    twice,      \* history: files with a second update in this cycle
    gaps,       \* history: files with an update after the heartbeat in this cycle
    lost,       \* seconds lost in this cycle
    lost_before,\* and in the one before
    odd,        \* unusual events so far
    cycles      \* cycles begun

files == <<age, written, written_before, twice, gaps>>
clock == <<lost, lost_before>>
vars == <<cpu, cpc, i, source, staged, published, files, clock, odd, cycles>>

-----------------------------------------------------------------------------
(* The readers.  A file is [open, lines]; <<>> is a null instance.         *)

Metric(plugin, pi, type, ti) == [plugin |-> plugin, pi |-> pi, type |-> type, ti |-> ti]

\* The k-th of the numbers in K.
Nth(K, k) == CHOOSE j \in K : Cardinality({l \in K : l <= j}) = k

\* n metrics for each of the lines in K, in their order: the t-th is number Part(n, t)
\* of line Place(n, K, t).
Turns(n, K) == 1..(n * Cardinality(K))
Place(n, K, t) == Nth(K, (t - 1) \div n + 1)
Part(n, t) == ((t - 1) % n) + 1

\* The number a key of meminfo has, -1 if the line is missing.
Key(file, key) ==
    LET ls == {k \in 1..Len(file.lines) : file.lines[k].key = key} IN
      IF ls = {} THEN -1 ELSE file.lines[Max(ls)].val

memory_read(file) ==
    IF file.open /\ Key(file, "MemTotal") > 0
    THEN [k \in 1..3 |-> Metric("memory", <<>>, "percent", <<<<"used", "cached", "buffered">>[k]>>)]
    ELSE <<>>

swap_read(file) ==
    IF file.open /\ Key(file, "SwapTotal") > 0
    THEN [k \in 1..2 |-> Metric("swap", <<>>, "swap", <<<<"used", "free">>[k]>>)]
    ELSE <<>>

\* n is the number of fields of the line that could be parsed.
load_read(file) ==
    IF file.open /\ \E l \in Range(file.lines) : l.n = 3
    THEN <<Metric("load", <<>>, "load", <<>>)>>
    ELSE <<>>

uptime_read(file) ==
    IF file.open /\ \E l \in Range(file.lines) : l.n = 1
    THEN <<Metric("uptime", <<>>, "uptime", <<>>)>>
    ELSE <<>>

\* After two lines of header: a name before the colon (iface is "-" without one)
\* and at least 11 numbers.
InterfaceLines(file) ==
    {j \in 3..Len(file.lines) : file.lines[j].iface \notin {"-", "lo"} /\ file.lines[j].n >= 11}

interface_read(file) ==
    LET K == InterfaceLines(file) IN
      IF file.open
      THEN [t \in Turns(3, K) |-> Metric("interface", <<file.lines[Place(3, K, t)].iface>>,
                                         <<"if_octets", "if_packets", "if_errors">>[Part(3, t)], <<>>)]
      ELSE <<>>

\* whole is what the regular expression says of the name: a disk, no partition.  A
\* failing regcomp ends the pass like a failing fopen.
DiskLines(file) == {j \in 1..Len(file.lines) : file.lines[j].n >= 9 /\ file.lines[j].whole}

disk_read(file) ==
    LET K == DiskLines(file) IN
      IF file.open
      THEN [t \in Turns(3, K) |-> Metric("disk", <<file.lines[Place(3, K, t)].name>>,
                                         <<"disk_ops", "disk_octets", "disk_time">>[Part(3, t)], <<>>)]
      ELSE <<>>

FSTYPE_DENYLIST ==
    {"proc", "sysfs", "tmpfs", "devtmpfs", "devpts", "cgroup", "cgroup2", "mqueue",
     "hugetlbfs", "fusectl", "debugfs", "configfs", "pstore", "bpf", "tracefs"}

\* A path is the sequence of its slashes, names and dashes.  The slash in front is
\* dropped, the others become dashes, and nothing becomes "root".
mount_to_instance(mount) ==
    LET src == IF mount[1] = "/" THEN Tail(mount) ELSE mount
    IN IF src = <<>> THEN <<"root">>
       ELSE [k \in 1..Len(src) |-> IF src[k] = "/" THEN "-" ELSE src[k]]

\* The lines of mounts that are shown: four fields, a type that is not denied, and
\* a mount point on which statvfs succeeds.
Mounted(l) == l.n >= 4 /\ l.fstype \notin FSTYPE_DENYLIST /\ l.statvfs = 0

MountLines(file) == {j \in 1..Len(file.lines) : Mounted(file.lines[j])}

df_read(file) ==
    LET K == MountLines(file) IN
      IF file.open
      THEN [t \in Turns(2, K) |-> Metric("df", mount_to_instance(file.lines[Place(2, K, t)].mount),
                                         "df_complex", <<<<"used", "free">>[Part(2, t)]>>)]
      ELSE <<>>

\* One line for each slot of the table that Processes fills.
processes_read(file) ==
    LET K == 1..Len(file.lines) IN
      IF file.open
      THEN [t \in Turns(3, K) |-> Metric("processes", <<file.lines[Place(3, K, t)].comm>>,
                                         <<"ps_rss", "ps_cputime", "ps_count">>[Part(3, t)], <<>>)]
      ELSE <<>>

\* An entry of the class directory; zone is the test of the prefix "thermal_zone",
\* temp the number of values parsed, type <<>> if that file is missing or empty.
ZoneLines(dir) == {j \in 1..Len(dir.lines) : dir.lines[j].zone /\ dir.lines[j].temp = 1}

thermal_read(dir) ==
    LET K == ZoneLines(dir)
        l(t) == dir.lines[Place(1, K, t)]
    IN IF dir.open
       THEN [t \in Turns(1, K) |-> Metric("thermal", <<l(t).name>>, "temperature", l(t).type)]
       ELSE <<>>

TCP_STATE_NAMES == <<"ESTABLISHED", "SYN_SENT", "SYN_RECV", "FIN_WAIT1", "FIN_WAIT2",
    "TIME_WAIT", "CLOSE", "CLOSE_WAIT", "LAST_ACK", "LISTEN", "CLOSING">>

\* net/tcp and net/tcp6 are counted together; either may be missing.  st is 0 for a
\* line whose fourth token is not a number.
States(tcp, tcp6) ==
    {st \in 1..Len(TCP_STATE_NAMES) :
       \E file \in {tcp, tcp6} : file.open /\ \E j \in 2..Len(file.lines) : file.lines[j].st = st}

tcpconns_read(tcp, tcp6) ==
    LET K == States(tcp, tcp6) IN
      [t \in Turns(1, K) |-> Metric("tcpconns", <<>>, "tcp_connections",
                                    <<TCP_STATE_NAMES[Place(1, K, t)]>>)]

\* What reader r emits from source c, given the sample of the cpu reader.
Emitted(r, c, s) ==
    CASE r = "cpu" -> IF s.total > 0
                      THEN <<Metric("cpu", <<"total">>, "percent", <<"active">>)>> ELSE <<>>
      [] r = "memory" -> memory_read(c)
      [] r = "swap" -> swap_read(c)
      [] r = "load" -> load_read(c)
      [] r = "uptime" -> uptime_read(c)
      [] r = "interface" -> interface_read(c)
      [] r = "disk" -> disk_read(c)
      [] r = "df" -> df_read(c)
      [] r = "processes" -> processes_read(c)
      [] r = "thermal" -> thermal_read(c)
      [] r = "tcpconns" -> tcpconns_read(c.tcp, c.tcp6)

\* The registry has these readers, and enables each at most once.  A source may be
\* cut short, but the kernel names an interface, a disk and a zone once in it, the
\* table of processes has a slot for each name, and a mount point is absolute.
Contents(r) == {Usual[r]} \cup Odd[r]

ASSUME SourcesAssumption ==
    /\ Enabled \in Seq({"cpu", "memory", "swap", "load", "uptime", "interface", "disk", "df",
                        "processes", "thermal", "tcpconns"})
    /\ IsInjective(Enabled)
    /\ \A r \in Readers \ {"tcpconns"} : \A c \in Contents(r) : Len(c.lines) \in Nat
    /\ "interface" \in Readers => \A c \in Contents("interface") : \A j, l \in InterfaceLines(c) :
         c.lines[j].iface = c.lines[l].iface => j = l
    /\ "disk" \in Readers => \A c \in Contents("disk") : \A j, l \in DiskLines(c) :
         c.lines[j].name = c.lines[l].name => j = l
    /\ "processes" \in Readers => \A c \in Contents("processes") : \A j, l \in 1..Len(c.lines) :
         c.lines[j].comm = c.lines[l].comm => j = l
    /\ "thermal" \in Readers => \A c \in Contents("thermal") : \A j, l \in ZoneLines(c) :
         c.lines[j].name = c.lines[l].name => j = l
    /\ "df" \in Readers => \A c \in Contents("df") : \A j \in MountLines(c) :
         c.lines[j].mount \in Seq(STRING) /\ c.lines[j].mount # <<>> /\ c.lines[j].mount[1] = "/"

-----------------------------------------------------------------------------
(* Paths and files.                                                        *)

\* "/a[-b]" of append_seg.
append_seg(a, b) == IF b = <<>> THEN <<a>> ELSE <<a, "-">> \o b

\* Mutant: the type instance is not part of the name.
metric_to_path_short(m) == <<append_seg(m.plugin, m.pi), <<m.type>>>>

\* The directory and the file below <datadir>/<host>.
metric_to_path(m) == <<append_seg(m.plugin, m.pi), append_seg(m.type, m.ti)>>

STEP == 5

\* Mutant: one step.
HEARTBEAT_short == STEP

\* The heartbeat of every data source rra_args defines.
HEARTBEAT == STEP * 2

\* The longest age that is told apart from older ones.
Old == HEARTBEAT + 1
Aged(d) == [p \in DOMAIN age |-> IF age[p] + d > Old THEN Old ELSE age[p] + d]

TypeOK ==
    /\ CpuTypeOK
    /\ cpc \in {"begin", "read", "sleep", "exited"}
    /\ i \in 0..Len(Enabled) /\ DOMAIN source = Readers
    /\ \A s \in {staged, published} : \A k \in 1..Len(s) :
          DOMAIN s[k] = {"plugin", "pi", "type", "ti"}
    /\ \A p \in DOMAIN age : age[p] \in 0..Old
    /\ written \cup written_before \subseteq DOMAIN age
    /\ twice \cup gaps \subseteq written
    /\ lost \in Nat /\ lost_before \in Nat /\ odd \in 0..MaxOdd /\ cycles \in 0..MaxCycles

Init ==
    /\ CpuInit
    /\ cpc = "begin" /\ i = 0 /\ source = [r \in Readers |-> Usual[r]]
    /\ staged = <<>> /\ published = <<>>
    /\ age = [p \in {} |-> 0] /\ written = {} /\ written_before = {}
    /\ twice = {} /\ gaps = {} /\ lost = 0 /\ lost_before = 0
    /\ odd = 0 /\ cycles = 0

\* An event that costs c of the unusual ones.
Charge(c) == odd + c <= MaxOdd /\ odd' = odd + c

-----------------------------------------------------------------------------
(* The cycle.                                                              *)

\* The next cycle: prom_snapshot_begin.
Begin ==
    /\ cpc = "begin" /\ cycles < MaxCycles
    /\ cpc' = "read" /\ i' = 0 /\ staged' = <<>> /\ cycles' = cycles + 1
    /\ written' = {} /\ written_before' = written /\ twice' = {} /\ gaps' = {}
    /\ lost' = 0 /\ lost_before' = lost
    /\ UNCHANGED <<cpu, source, published, age, odd>>

\* The updates of n metrics that fail: none, that of one file, or all of them when the
\* disk is full.
Failing(n) == {{}, 1..n} \cup {{k} : k \in 1..n}

\* The updates of the metrics ms, of which the numbers in bad fail.
Update(ms, bad) ==
    LET tried == (1..Len(ms)) \ bad
        path == [k \in tried |-> metric_to_path(ms[k])]
        good == Range(path)
    IN /\ age' = [p \in DOMAIN age \cup good |-> IF p \in good THEN 0 ELSE age[p]]
       /\ written' = written \cup good
       /\ twice' = twice \cup {p \in good : p \in written \/ \E j, k \in tried : j < k /\ path[j] = p /\ path[k] = p}
       /\ gaps' = gaps \cup {p \in good \cap DOMAIN age : age[p] > HEARTBEAT}
       /\ UNCHANGED written_before

\* Mutant: a failed write returns before the metric is staged.
emit_cb_first(ms, bad) ==
    /\ Update(ms, bad)
    /\ staged' = staged \o FlattenSeq([k \in 1..Len(ms) |-> IF k \in bad THEN <<>> ELSE <<ms[k]>>])

\* writer_write, then prom_snapshot_add whatever it returned.
emit_cb(ms, bad) ==
    /\ Update(ms, bad)
    /\ staged' = staged \o ms

\* cpu_read: the file opens and its "cpu " line has at least four numbers.
cpu_read(file) ==
    IF file.open /\ \E l \in Range(file.lines) : l.n >= 4 THEN CpuRead ELSE CpuReadFails

\* The next reader runs; its result is ignored.
Read ==
    /\ cpc = "read" /\ i < Len(Enabled)
    /\ LET r == Enabled[i + 1] IN
         \E c \in Contents(r) :
           /\ IF r = "cpu" THEN cpu_read(c) ELSE UNCHANGED cpu
           /\ source' = [source EXCEPT ![r] = c]
           /\ LET ms == Emitted(r, c, sample') IN
                \E bad \in Failing(Len(ms)) :
                  /\ Charge((IF c = Usual[r] THEN 0 ELSE 1) + (IF bad = {} THEN 0 ELSE 1))
                  /\ emit_cb(ms, bad)
    /\ i' = i + 1
    /\ UNCHANGED <<cpc, published, clock, cycles>>

\* A reader or a write takes d seconds (statvfs of a remote file system, a slow disk).
Delay(d) ==
    /\ cpc = "read" /\ Charge(1)
    /\ lost' = lost + d /\ age' = Aged(d)
    /\ UNCHANGED <<cpu, cpc, i, source, staged, published, written, written_before, twice,
                   gaps, lost_before, cycles>>

\* prom_snapshot_publish.
Publish ==
    /\ cpc = "read" /\ i = Len(Enabled)
    /\ published' = staged /\ cpc' = "sleep"
    /\ UNCHANGED <<cpu, i, source, staged, files, clock, odd, cycles>>

\* The interval passes, second by second in Lifecycle; the kernel counts a.
Sleep(a) ==
    /\ cpc = "sleep" /\ Charge(IF a = UsualTicks THEN 0 ELSE 1)
    /\ CpuTicks(a) /\ age' = Aged(Interval)
    /\ cpc' = "begin"
    /\ UNCHANGED <<i, source, staged, published, written, written_before, twice, gaps, clock,
                   cycles>>

\* g_running was cleared: the loop ends, and with it the sleep.
Exit ==
    /\ cpc \in {"begin", "sleep"}
    /\ cpc' = "exited"
    /\ UNCHANGED <<cpu, i, source, staged, published, files, clock, odd, cycles>>

Exited == cpc = "exited" /\ UNCHANGED vars

Next ==
    \/ Begin \/ Read \/ (\E d \in Delays : Delay(d)) \/ Publish
    \/ (\E a \in Advance : Sleep(a)) \/ Exit \/ Exited

Spec == Init /\ [][Next]_vars

-----------------------------------------------------------------------------
(* Properties.                                                             *)

\* The two mount points, as text, that df.c cannot tell apart.
SameInstance(a, b) ==
    \/ a = b
    \/ {a, b} = {<<"/">>, <<"/", "root">>}
    \/ /\ Len(a) = Len(b)
       /\ \A k \in 1..Len(a) : a[k] = b[k] \/ (k > 1 /\ {a[k], b[k]} = {"/", "-"})

\* No file gets two updates in a cycle (librrd refuses the second one of a second),
\* but for those of two mounts whose points differ at most in slashes for dashes, or
\* are "/" and "/root".
SharedFileExplained ==
    \A p \in twice :
      /\ p[1][1] = "df"
      /\ \E j, k \in 1..Len(source["df"].lines) :
           /\ j # k /\ Mounted(source["df"].lines[j]) /\ Mounted(source["df"].lines[k])
           /\ SameInstance(source["df"].lines[j].mount, source["df"].lines[k].mount)

\* An update comes too late for the heartbeat, and makes a hole in the graph, only
\* if the file had no update in the cycle before, or the interval and the seconds
\* lost in the two cycles exceed two steps.
GapExplained ==
    \A p \in gaps : p \notin written_before \/ Interval + lost_before + lost > 2 * STEP

\* A published snapshot has the metrics of the sources of its cycle, all of them
\* and no others, whatever the other readers and the writes came to.
ShownAsRead ==
    cpc = "sleep" =>
      published = FlattenSeq([k \in 1..Len(Enabled) |->
                                Emitted(Enabled[k], source[Enabled[k]], sample)])
=============================================================================
