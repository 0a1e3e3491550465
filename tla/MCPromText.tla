----------------------------- MODULE MCPromText -----------------------------
(* The text of a scrape for TLC: what the readers emit, and one stranger. *)
EXTENDS PromText, TLC

Metric(plugin, pi, type, ti, ds_count) ==
    [plugin |-> plugin, pi |-> pi, type |-> type, ti |-> ti, ds_count |-> ds_count]

SomeMetrics == {
    Metric("cpu", "total", "percent", "active", 1),
    Metric("memory", "-", "percent", "used", 1),
    Metric("memory", "-", "percent", "cached", 1),
    Metric("swap", "-", "swap", "free", 1),
    Metric("load", "-", "load", "-", 3),
    Metric("uptime", "-", "uptime", "-", 1),
    Metric("interface", "eth0", "if_octets", "-", 2),
    Metric("interface", "eth1", "if_octets", "-", 2),
    Metric("interface", "eth0", "if_packets", "-", 2),
    Metric("interface", "eth0", "if_errors", "-", 2),
    Metric("disk", "sda", "disk_ops", "-", 2),
    Metric("disk", "sda", "disk_octets", "-", 2),
    Metric("disk", "sda", "disk_time", "-", 2),
    Metric("df", "root", "df_complex", "used", 1),
    Metric("df", "root", "df_complex", "free", 1),
    Metric("processes", "init", "ps_rss", "-", 1),
    Metric("processes", "init", "ps_cputime", "-", 2),
    Metric("processes", "init", "ps_count", "-", 2),
    Metric("thermal", "zone0", "temperature", "acpi", 1),
    Metric("tcpconns", "-", "tcp_connections", "LISTEN", 1),
    Metric("stranger", "-", "percent", "-", 1) }
=============================================================================
