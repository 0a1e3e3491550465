------------------------------ MODULE PromText -------------------------------
(***************************************************************************)
(* render_to_dstring of prom.c: the text of a scrape, line by line.  Each  *)
(* metric of the snapshot is matched with a rule, the entries are sorted   *)
(* by family, and each family is announced before its samples.  A line is  *)
(* a record; values and escaping are left out.  A failed allocation drops  *)
(* a line or spoils its labels, and the next line may succeed again.       *)
(***************************************************************************)
EXTENDS Naturals, Sequences, SequencesExt

CONSTANTS
    Emitted,     \* metrics of the readers: plugin, pi, type, ti and ds_count
    MaxMetrics,  \* bound: metrics in the snapshot
    MaxFailures  \* bound: allocations that fail

-----------------------------------------------------------------------------
(* The tables of prom.c and types.c.                                       *)

Rule(plugin, type, family, pi, ti, ds, ds_values) ==
    [plugin |-> plugin, type |-> type, family |-> family,
     pi_label |-> pi, ti_label |-> ti, ds_label |-> ds, ds_values |-> ds_values]

Traffic == <<"receive", "transmit">>
Access == <<"read", "write">>

\* Mutant: the state of a filesystem is not a label.
RULESNoState == {
    Rule("df", "df_complex", "svgd_filesystem_bytes", "fs", "-", "-", <<>>),
    Rule("load", "load", "svgd_load", "-", "-", "interval", <<"1m", "5m", "15m">>),
    Rule("interface", "if_octets", "svgd_network_bytes_total", "device", "-", "direction", Traffic) }

\* Mutant: errors are counted in the family of the temperatures.
RULESShared == {
    Rule("interface", "if_errors", "svgd_thermal_celsius", "device", "-", "direction", Traffic),
    Rule("thermal", "temperature", "svgd_thermal_celsius", "thermal_zone", "type", "-", <<>>) }

\* RULES; "-" is a null label name.
RULES == {
    Rule("cpu", "percent", "svgd_cpu_percent", "-", "mode", "-", <<>>),
    Rule("memory", "percent", "svgd_memory_percent", "-", "type", "-", <<>>),
    Rule("swap", "swap", "svgd_swap_bytes", "-", "state", "-", <<>>),
    Rule("load", "load", "svgd_load", "-", "-", "interval", <<"1m", "5m", "15m">>),
    Rule("uptime", "uptime", "svgd_uptime_seconds", "-", "-", "-", <<>>),
    Rule("interface", "if_octets", "svgd_network_bytes_total", "device", "-", "direction", Traffic),
    Rule("interface", "if_packets", "svgd_network_packets_total", "device", "-", "direction", Traffic),
    Rule("interface", "if_errors", "svgd_network_errors_total", "device", "-", "direction", Traffic),
    Rule("disk", "disk_ops", "svgd_disk_ops_total", "device", "-", "operation", Access),
    Rule("disk", "disk_octets", "svgd_disk_bytes_total", "device", "-", "operation", Access),
    Rule("disk", "disk_time", "svgd_disk_io_time_ms_total", "device", "-", "operation", Access),
    Rule("df", "df_complex", "svgd_filesystem_bytes", "fs", "state", "-", <<>>),
    Rule("processes", "ps_rss", "svgd_process_rss_bytes", "process", "-", "-", <<>>),
    Rule("processes", "ps_cputime", "svgd_process_cpu_jiffies_total", "process", "-", "mode", <<"user", "system">>),
    Rule("processes", "ps_count", "svgd_process_count", "process", "-", "kind",
         <<"processes", "threads">>),
    Rule("thermal", "temperature", "svgd_thermal_celsius", "thermal_zone", "type", "-", <<>>),
    Rule("tcpconns", "tcp_connections", "svgd_tcp_connections", "-", "state", "-", <<>>) }

Gauges(n) == [k \in 1..n |-> "GAUGE"]
Derives(n) == [k \in 1..n |-> "DERIVE"]

\* TABLE of types.c: the data sources of a type, none if it is unknown.
types_lookup(type) ==
    CASE type \in {"percent", "ps_rss", "df_complex", "uptime", "swap", "temperature",
                   "tcp_connections"} -> Gauges(1)
      [] type = "ps_count" -> Gauges(2)
      [] type = "load" -> Gauges(3)
      [] type \in {"if_octets", "if_packets", "if_errors", "disk_ops", "disk_octets",
                   "disk_time", "ps_cputime"} -> Derives(2)
      [] OTHER -> <<>>

prom_type_for(type) ==
    IF types_lookup(type) = <<>> THEN "untyped"
    ELSE IF types_lookup(type)[1] = "GAUGE" THEN "gauge" ELSE "counter"

\* At most one rule matches.
find_rule(m) == {r \in RULES : r.plugin = m.plugin /\ r.type = m.type}
RuleOf(m) == CHOOSE r \in find_rule(m) : TRUE
Family(m) == RuleOf(m).family

\* The families in the order of strcmp.
FamilyOrder == <<
    "svgd_cpu_percent", "svgd_disk_bytes_total", "svgd_disk_io_time_ms_total",
    "svgd_disk_ops_total", "svgd_filesystem_bytes", "svgd_load", "svgd_memory_percent",
    "svgd_network_bytes_total", "svgd_network_errors_total", "svgd_network_packets_total",
    "svgd_process_count", "svgd_process_cpu_jiffies_total", "svgd_process_rss_bytes",
    "svgd_swap_bytes", "svgd_tcp_connections", "svgd_thermal_celsius",
    "svgd_uptime_seconds" >>

Rank(m) == CHOOSE j \in 1..Len(FamilyOrder) : FamilyOrder[j] = Family(m)

\* A reader fills the data sources of its type, and not every one sets an instance.
ASSUME ConstantsAssumption ==
    /\ MaxMetrics \in Nat /\ MaxFailures \in Nat
    /\ \A m \in Emitted :
         /\ m \in [plugin : STRING, pi : STRING, type : STRING, ti : STRING, ds_count : Nat]
         /\ m.ds_count = Len(types_lookup(m.type))
         /\ m.plugin \in {"memory", "swap", "load", "uptime", "tcpconns"} => m.pi = "-"
         /\ m.plugin = "cpu" => m.pi = "total"
         /\ m.plugin \in {"load", "uptime", "interface", "disk", "processes"} => m.ti = "-"

-----------------------------------------------------------------------------
VARIABLES
    ms,         \* the copy of the snapshot
    e,          \* entries: the metrics that have a rule
    k,          \* index: metrics scanned, then entries printed
    di,         \* data sources of entry k+1 printed
    cur_family, \* family announced last, "-" before the first
    lines,      \* the text so far
    pc,         \* "scan", "print", "sample", "done"
    failures    \* allocations that have failed

vars == <<ms, e, k, di, cur_family, lines, pc, failures>>

TypeOK ==
    /\ \A j \in 1..Len(ms) : ms[j] \in Emitted
    /\ \A j \in 1..Len(e) : e[j] \in Emitted /\ find_rule(e[j]) # {}
    /\ k <= Len(ms) /\ (pc # "scan" => k <= Len(e))
    /\ pc = "sample" => di <= e[k + 1].ds_count
    /\ pc \in {"scan", "print", "sample", "done"} /\ failures \in 0..MaxFailures

\* prom_snapshot_add takes whatever is staged: two mounts with one instance name
\* are there twice.
Init ==
    /\ ms \in SeqOf(Emitted, MaxMetrics)
    /\ e = <<>> /\ k = 0 /\ di = 0 /\ cur_family = "-" /\ lines = <<>>
    /\ pc = "scan" /\ failures = 0

\* Mutant: a metric without a rule ends the scan.
ScanStop ==
    /\ pc = "scan" /\ k < Len(ms)
    /\ IF find_rule(ms[k + 1]) = {}
       THEN k' = Len(ms) /\ UNCHANGED e
       ELSE k' = k + 1 /\ e' = Append(e, ms[k + 1])
    /\ UNCHANGED <<ms, di, cur_family, lines, pc, failures>>

\* find_rule for the next metric; without a rule it is skipped.
Scan ==
    /\ pc = "scan" /\ k < Len(ms)
    /\ k' = k + 1
    /\ e' = IF find_rule(ms[k + 1]) = {} THEN e ELSE Append(e, ms[k + 1])
    /\ UNCHANGED <<ms, di, cur_family, lines, pc, failures>>

\* cmp_family holds of the entries of s in their order.
Sorted(s) == \A a, b \in 1..Len(s) : a < b => Rank(s[a]) <= Rank(s[b])

Arrangements(s) == {[j \in 1..Len(s) |-> s[f[j]]] :
                       f \in {g \in [1..Len(s) -> 1..Len(s)] : IsInjective(g)}}

\* Mutant: the entries are printed in the order of the snapshot.
SortNot ==
    /\ pc = "scan" /\ k = Len(ms)
    /\ pc' = "print" /\ k' = 0
    /\ UNCHANGED <<ms, e, di, cur_family, lines, failures>>

\* qsort by family; it need not be stable, so the order in a family is open.
Sort ==
    /\ pc = "scan" /\ k = Len(ms)
    /\ e' \in {s \in Arrangements(e) : Sorted(s)}
    /\ pc' = "print" /\ k' = 0
    /\ UNCHANGED <<ms, di, cur_family, lines, failures>>

Fails == failures < MaxFailures /\ failures' = failures + 1

\* No memory for the entries: no text.
ScanFails ==
    /\ pc = "scan" /\ k = 0 /\ ms # <<>>
    /\ pc' = "done" /\ Fails
    /\ UNCHANGED <<ms, e, k, di, cur_family, lines>>

\* ds_appendf: a line is appended whole, or dropped; one or all of s may be.  The
\* comment of ds_reserve calls later appends no-ops, but each asks for memory again
\* and may succeed.
Put(s) ==
    \/ lines' = lines \o s /\ UNCHANGED failures
    \/ \E j \in 1..Len(s) : lines' = lines \o RemoveAt(s, j) /\ Fails
    \/ lines' = lines /\ Fails

\* The next entry; HELP and TYPE first if its family is a new one.
PrintEntry ==
    /\ pc = "print" /\ k < Len(e)
    /\ pc' = "sample" /\ di' = 0
    /\ LET m == e[k + 1]
           f == Family(m)
       IN IF cur_family = f
          THEN UNCHANGED <<lines, failures, cur_family>>
          ELSE /\ cur_family' = f
               /\ Put(<<[kind |-> "HELP", family |-> f],
                        [kind |-> "TYPE", family |-> f, type |-> prom_type_for(m.type)]>>)
    /\ UNCHANGED <<ms, e, k>>

\* The labels of data source d of m; an empty instance gives none.
Labels(m, d) ==
    LET r == RuleOf(m) IN
      {<<r.pi_label, m.pi>> : x \in {y \in {1} : r.pi_label # "-" /\ m.pi # "-"}}
        \cup {<<r.ti_label, m.ti>> : x \in {y \in {1} : r.ti_label # "-" /\ m.ti # "-"}}
        \cup {<<r.ds_label, r.ds_values[d]>> :
                 x \in {y \in {1} : r.ds_label # "-" /\ d <= Len(r.ds_values)}}

\* One line for each data source.  Labels that did not get memory are spoiled.
Sample ==
    /\ pc = "sample" /\ di < e[k + 1].ds_count
    /\ di' = di + 1
    /\ LET m == e[k + 1]
           line == [kind |-> "sample", family |-> Family(m), labels |-> Labels(m, di + 1),
                    type |-> m.type, ds |-> di + 1]
       IN \/ Put(<<line>>)
          \/ line.labels # {} /\ Fails
             /\ lines' = Append(lines, [kind |-> "spoiled", family |-> Family(m)])
    /\ UNCHANGED <<ms, e, k, cur_family, pc>>

SampleEnd ==
    /\ pc = "sample" /\ di >= e[k + 1].ds_count
    /\ k' = k + 1 /\ pc' = "print"
    /\ UNCHANGED <<ms, e, di, cur_family, lines, failures>>

PrintEnd ==
    /\ pc = "print" /\ k >= Len(e)
    /\ pc' = "done"
    /\ UNCHANGED <<ms, e, k, di, cur_family, lines, failures>>

Done == pc = "done" /\ UNCHANGED vars

Next == Scan \/ ScanFails \/ Sort \/ PrintEntry \/ Sample \/ SampleEnd \/ PrintEnd \/ Done

Spec == Init /\ [][Next]_vars

-----------------------------------------------------------------------------
(* Properties.                                                             *)

Samples == {j \in 1..Len(lines) : lines[j].kind = "sample"}

\* The exposition format, whatever the order of the snapshot: the lines of a family
\* are one group, its HELP and TYPE come once and first.  A failed allocation may
\* leave out lines but never breaks up a group; without one, no line is missing.
FamiliesAnnounced ==
    /\ \A h, j \in 1..Len(lines) :
          h < j /\ lines[h].family = lines[j].family =>
            /\ \A l \in h..j : lines[l].family = lines[j].family
            /\ lines[j].kind # "HELP"
            /\ lines[j].kind = "TYPE" => lines[h].kind = "HELP"
    /\ failures = 0 =>
         \A j \in Samples : \A kind \in {"HELP", "TYPE"} :
            \E h \in 1..j-1 : lines[h].kind = kind /\ lines[h].family = lines[j].family

\* The TYPE of a family, taken from the first data source of its first entry, fits
\* every data source of every metric shown in it.
TypesRight ==
    failures = 0 =>
      \A j \in Samples, h \in 1..Len(lines) :
        lines[h].kind = "TYPE" /\ lines[h].family = lines[j].family =>
          lines[h].type = [GAUGE |-> "gauge", DERIVE |-> "counter"]
                             [types_lookup(lines[j].type)[lines[j].ds]]

\* Rendering makes no two series one: the labels of the rules tell apart any two
\* metrics of the readers, and the data sources of each.  A series that comes twice
\* in a scrape was staged twice, which df_read does for mounts that share a name.
SeriesDistinct ==
    failures = 0 =>
      \A i, j \in Samples :
        i # j /\ lines[i].family = lines[j].family /\ lines[i].labels = lines[j].labels =>
          \E a, b \in 1..Len(ms) :
            /\ a # b /\ ms[a] = ms[b] /\ find_rule(ms[a]) # {}
            /\ Family(ms[a]) = lines[i].family
            /\ \E d \in 1..ms[a].ds_count : Labels(ms[a], d) = lines[i].labels

\* A scrape without a failed allocation has a line for every data source of
\* every metric that has a rule.
AllShown ==
    pc = "done" /\ failures = 0 =>
      \A j \in 1..Len(ms) : \A d \in 1..ms[j].ds_count :
        find_rule(ms[j]) # {} =>
          \E l \in Samples : /\ lines[l].family = Family(ms[j])
                             /\ lines[l].labels = Labels(ms[j], d)
=============================================================================
