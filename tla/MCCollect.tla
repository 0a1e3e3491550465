----------------------------- MODULE MCCollect -----------------------------
(* The cycle for TLC: all readers, each source as usual and in the ways it  *)
(* can differ.                                                              *)
EXTENDS Collect

AllReaders == <<"cpu", "load", "uptime", "memory", "swap", "interface", "disk", "df",
                "processes", "thermal", "tcpconns">>

File(lines) == [open |-> TRUE, lines |-> lines]
NoFile == [open |-> FALSE, lines |-> <<>>]
Numbers(n) == File(<<[n |-> n]>>)

Meminfo(total, swap) ==
    File(<<[key |-> "MemTotal", val |-> total], [key |-> "SwapTotal", val |-> swap]>>)

If(iface, n) == [iface |-> iface, n |-> n]
NetDev(lines) == File(<<If("-", 0), If("-", 0)>> \o lines)

Disk(name, whole, n) == [name |-> name, whole |-> whole, n |-> n]

Mount(mount, fstype, statvfs) ==
    [n |-> 4, mount |-> mount, fstype |-> fstype, statvfs |-> statvfs]
RootMount == Mount(<<"/">>, "ext4", 0)
MntC == Mount(<<"/", "mnt", "/", "c">>, "ext4", 0)
\* The rest of a line longer than the buffer: three fields.
Fragment == [n |-> 3, mount |-> <<"0">>, fstype |-> "0", statvfs |-> 1]

Zone(name, zone, temp, type) == [name |-> name, zone |-> zone, temp |-> temp, type |-> type]

Tcp(sts) == File(<<[st |-> 0]>> \o [k \in 1..Len(sts) |-> [st |-> sts[k]]])

UsualSource == [
    cpu |-> Numbers(10), load |-> Numbers(3), uptime |-> Numbers(1),
    memory |-> Meminfo(8, 2), swap |-> Meminfo(8, 2),
    interface |-> NetDev(<<If("lo", 16), If("eth0", 16)>>),
    disk |-> File(<<Disk("sda", TRUE, 9), Disk("sda1", FALSE, 9)>>),
    df |-> File(<<Mount(<<"/", "proc">>, "proc", 0), RootMount, MntC>>),
    processes |-> File(<<[comm |-> "init"], [comm |-> "sshd"]>>),
    thermal |-> File(<<Zone("thermal_zone0", TRUE, 1, <<"acpitz">>),
                       Zone("cooling_device0", FALSE, 0, <<>>)>>),
    tcpconns |-> [tcp |-> Tcp(<<10, 1, 1>>), tcp6 |-> Tcp(<<10>>)]]

OddSource == [
    cpu |-> {NoFile, Numbers(3)}, load |-> {NoFile, Numbers(2)}, uptime |-> {NoFile},
    memory |-> {NoFile, File(<<>>), Meminfo(0, 0)}, swap |-> {NoFile, Meminfo(8, 0)},
    interface |-> {NoFile, NetDev(<<If("eth0", 10), If("eth1", 16)>>),
                   NetDev(<<If("-", 0), If("eth1", 16), If("eth0", 16)>>)},
    disk |-> {NoFile, File(<<Disk("sda", TRUE, 8), Disk("sdb", TRUE, 9)>>)},
    df |-> {NoFile,
            File(<<RootMount, Mount(<<"/", "root">>, "btrfs", 0)>>),
            File(<<MntC, Mount(<<"/", "mnt", "-", "c">>, "ext4", 0), RootMount>>),
            File(<<RootMount, MntC, RootMount>>),
            File(<<Mount(<<"/", "net">>, "nfs", 1), Fragment, MntC>>)},
    processes |-> {NoFile, File(<<[comm |-> "sshd"]>>)},
    thermal |-> {NoFile,
                 File(<<Zone("thermal_zone0", TRUE, 0, <<>>), Zone("thermal_zone1", TRUE, 1, <<>>)>>),
                 File(<<Zone("thermal_zone0", TRUE, 1, <<>>)>>)},
    tcpconns |-> {[tcp |-> NoFile, tcp6 |-> NoFile], [tcp |-> Tcp(<<1, 12, 0>>), tcp6 |-> NoFile]}]

Ticks(busy, idle, iowait) == [busy |-> busy, idle |-> idle, iowait |-> iowait]
BootStat == {Ticks(3, 3, 3)}
Usually == Ticks(1, 3, 1)
Advances == {Usually, Ticks(0, 0, 0), Ticks(2, 1, -2), Ticks(0, 3, -1), Ticks(1, -1, -1)}
=============================================================================
