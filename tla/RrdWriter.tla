------------------------------ MODULE RrdWriter ------------------------------
(***************************************************************************)
(* writer_rrd.c: one sample at a time goes to its RRD file, through        *)
(* rrdcached when a daemon is configured and reachable, directly           *)
(* otherwise.  librrd (a file takes only updates newer than its last one)  *)
(* and rrdcached (a queue per file, flushed whenever the daemon likes) are *)
(* external and modelled from how the writer uses them.  The clock, the    *)
(* daemon and the writer interleave.                                       *)
(***************************************************************************)
EXTENDS Naturals, Sequences

CONSTANTS
    File,        \* RRD paths (metric_to_path of the metrics emitted)
    UnknownType, \* the files whose metric types_lookup or metric_to_path refuses
    Fates,       \* what an outage may do to the daemon's queues: "kept", "lost"
    MaxOutages,  \* bound: times the daemon becomes unreachable
    MaxErrors,   \* bound: requests a reachable daemon answers with an error
    MaxWrites,   \* bound: samples written
    MaxTime      \* bound: seconds that pass

ASSUME ConstantsAssumption ==
    /\ UnknownType \subseteq File
    /\ Fates \subseteq {"kept", "lost"}
    /\ MaxOutages \in Nat /\ MaxErrors \in Nat /\ MaxWrites \in Nat
    /\ MaxTime \in Nat \ {0}

VARIABLES
    now,      \* time(NULL)
    on_disk,   \* the files on disk
    last_up,  \* last_up[f]: time of the last update in the file
    stored,   \* the samples on disk
    rrdcached,\* the configured daemon address or "none"
    daemon,   \* "up" or "down"
    conn,     \* librrd's global connection: "closed", "open", "stale"
    queue,    \* queue[f]: updates the daemon has accepted and not yet written
    outages,  \* outages so far
    errors,   \* error replies so far
    flushall, \* FLUSHALL at exit: "none", "started" or "failed"
    wpc,      \* "idle", "access", "route", "rrdc", "direct", "exited"
    path,     \* the file being written
    n,        \* the sample being written: samples are numbered 1, 2, ...
    rc,       \* what writer_write returned last
    stamp,    \* stamp[f]: time at which the last write to f ended
    acked,    \* history: samples for which writer_write returned 0
    overtaken,\* history: samples still queued when a direct update passed them
    crashed   \* history: samples lost with a daemon that keeps no journal

disk == <<on_disk, last_up, stored>>
dmn  == <<daemon, queue, outages>>
err  == <<errors, flushall>>
hist == <<acked, overtaken, crashed>>
vars == <<now, disk, rrdcached, dmn, err, conn, wpc, path, n, rc, stamp, hist>>

Sample == 1..MaxWrites
Update == [id : Sample, time : 0..MaxTime]
Ids(q) == {q[i].id : i \in 1..Len(q)}
Queued == UNION {Ids(queue[f]) : f \in File}

\* What FLUSHALL has made the daemon write, or will: it answers once the flush
\* has begun, not when it is done.
Flushing == IF flushall = "started" THEN Queued ELSE {}

Types ==
    /\ now \in 1..MaxTime
    /\ on_disk \subseteq File
    /\ last_up \in [File -> 0..MaxTime]
    /\ stored \subseteq Sample
    /\ rrdcached \in {"none", "address"}
    /\ daemon \in {"up", "down"}
    /\ conn \in {"closed", "open", "stale"}
    /\ queue \in [File -> Seq(Update)]
    /\ outages \in 0..MaxOutages
    /\ errors \in 0..MaxErrors
    /\ flushall \in {"none", "started", "failed"}
    /\ wpc \in {"idle", "access", "route", "rrdc", "direct", "exited"}
    /\ path \in File
    /\ n \in 0..MaxWrites
    /\ rc \in {"none", "ok", "refused", "no_file", "rejected", "failed"}
    /\ stamp \in [File -> 0..MaxTime]
    /\ acked \subseteq Sample /\ overtaken \subseteq Sample /\ crashed \subseteq Sample

\* An update is made, and queued, only for a file that is there: neither librrd
\* nor the daemon makes one for an update.
FilesExist ==
    /\ wpc \in {"route", "rrdc", "direct"} => path \in on_disk
    /\ \A f \in File : f \notin on_disk => queue[f] = <<>>

TypeOK == Types /\ FilesExist

Init ==
    /\ now = 1
    /\ on_disk = {} /\ last_up = [f \in File |-> 0] /\ stored = {}
    /\ rrdcached \in {"none", "address"} /\ daemon = "up" /\ conn = "closed"
    /\ queue = [f \in File |-> <<>>] /\ outages = 0
    /\ errors = 0 /\ flushall = "none"
    /\ wpc = "idle" /\ path \in File /\ n = 0 /\ rc = "none"
    /\ stamp = [f \in File |-> 0]
    /\ acked = {} /\ overtaken = {} /\ crashed = {}

-----------------------------------------------------------------------------
(* librrd and rrdcached.                                                   *)

\* rrd_update_r with the updates q, oldest first: those not newer than the
\* file's last update are refused.
Accepted(f, q) == {q[i].id : i \in {j \in 1..Len(q) : q[j].time > last_up[f]}}
Latest(f, q) ==
    IF q # <<>> /\ q[Len(q)].time > last_up[f] THEN q[Len(q)].time ELSE last_up[f]

\* The daemon writes what it holds for f.
DaemonFlush(f) ==
    /\ daemon = "up" /\ queue[f] # <<>>
    /\ stored' = stored \cup Accepted(f, queue[f])
    /\ last_up' = [last_up EXCEPT ![f] = Latest(f, queue[f])]
    /\ queue' = [queue EXCEPT ![f] = <<>>]
    /\ UNCHANGED <<now, on_disk, rrdcached, daemon, outages, err, conn, wpc, path, n, rc, stamp, hist>>

\* The daemon becomes unreachable.  Its queues, q, survive (a stall, a lost
\* connection, a journal) or do not (a crash without one).
Unreachable(q) ==
    /\ outages < MaxOutages
    /\ outages' = outages + 1
    /\ daemon' = "down"
    /\ \/ /\ "kept" \in Fates
          /\ queue' = q /\ UNCHANGED crashed
       \/ /\ "lost" \in Fates
          /\ queue' = [f \in File |-> <<>>]
          /\ crashed' = crashed \cup UNION {Ids(q[f]) : f \in File}

\* librrd does not notice before its next call.
DaemonDown ==
    /\ daemon = "up" /\ Unreachable(queue)
    /\ conn' = IF conn = "open" THEN "stale" ELSE conn
    /\ UNCHANGED <<now, disk, rrdcached, err, wpc, path, n, rc, stamp, acked, overtaken>>

DaemonUp ==
    /\ daemon = "down"
    /\ daemon' = "up"
    /\ UNCHANGED <<now, disk, rrdcached, queue, outages, err, conn, wpc, path, n, rc, stamp, hist>>

Tick ==
    /\ now < MaxTime
    /\ now' = now + 1
    /\ UNCHANGED <<disk, rrdcached, dmn, err, conn, wpc, path, n, rc, stamp, hist>>

-----------------------------------------------------------------------------
(* writer_write, step by step.                                             *)

\* Return from writer_write with the code r.
Return(r) ==
    /\ wpc' = "idle" /\ rc' = r
    /\ stamp' = [stamp EXCEPT ![path] = now]
    /\ acked' = IF r = "ok" THEN acked \cup {n} ELSE acked

\* writer_write is called for the next sample of f.  A reader is run once per
\* cycle and cycles are at least one second apart, so the last write to f
\* ended in an earlier second.
Write(f) ==
    /\ wpc = "idle" /\ n < MaxWrites /\ stamp[f] < now /\ f \notin UnknownType
    /\ wpc' = "access" /\ path' = f /\ n' = n + 1 /\ rc' = "none"
    /\ UNCHANGED <<now, disk, rrdcached, dmn, err, conn, stamp, hist>>

\* An unknown type, a wrong number of values or an overlong path: return -1.
WriteRefused(f) ==
    /\ wpc = "idle" /\ n < MaxWrites /\ stamp[f] < now /\ f \in UnknownType
    /\ path' = f /\ n' = n + 1 /\ rc' = "refused"
    /\ stamp' = [stamp EXCEPT ![f] = now]
    /\ UNCHANGED <<now, disk, rrdcached, dmn, err, conn, wpc, hist>>

\* Mutant: the file is created with the current time as its last update.
HaveFileNow ==
    /\ wpc = "access"
    /\ wpc' = "route"
    /\ \/ path \in on_disk /\ UNCHANGED disk
       \/ /\ path \notin on_disk
          /\ on_disk' = on_disk \cup {path}
          /\ last_up' = [last_up EXCEPT ![path] = now]
          /\ UNCHANGED stored
    /\ UNCHANGED <<now, rrdcached, dmn, err, conn, path, n, rc, stamp, hist>>

\* access() finds the file, or rrd_create_r makes it with last_up one second
\* in the past.
HaveFile ==
    /\ wpc = "access"
    /\ wpc' = "route"
    /\ \/ path \in on_disk /\ UNCHANGED disk
       \/ /\ path \notin on_disk
          /\ on_disk' = on_disk \cup {path}
          /\ last_up' = [last_up EXCEPT ![path] = now - 1]
          /\ UNCHANGED stored
    /\ UNCHANGED <<now, rrdcached, dmn, err, conn, path, n, rc, stamp, hist>>

\* Mutant: the failed creation is logged and the update goes on.
CreateFailsGoesOn ==
    /\ wpc = "access" /\ path \notin on_disk
    /\ wpc' = "route"
    /\ UNCHANGED <<now, disk, rrdcached, dmn, err, conn, path, n, rc, stamp, hist>>

\* rrd_create_r fails (mkdirp's errors are only logged).
CreateFails ==
    /\ wpc = "access" /\ path \notin on_disk
    /\ Return("no_file")
    /\ UNCHANGED <<now, disk, rrdcached, dmn, err, conn, path, n, overtaken, crashed>>

\* Mutant: a connected writer may still go to the file.
RouteEither ==
    /\ wpc = "route"
    /\ \/ wpc' = "direct" /\ UNCHANGED conn
       \/ /\ rrdcached # "none" /\ conn = "closed" /\ daemon = "up"
          /\ wpc' = "rrdc" /\ conn' = "open"
       \/ /\ rrdcached # "none" /\ conn # "closed"
          /\ wpc' = "rrdc" /\ UNCHANGED conn
    /\ UNCHANGED <<now, disk, rrdcached, dmn, err, path, n, rc, stamp, hist>>

\* writer_update: the daemon if one is configured and writer_daemon_connect
\* succeeds, else a direct update.
Route ==
    /\ wpc = "route"
    /\ \/ /\ rrdcached = "none" \/ (conn = "closed" /\ daemon = "down")
          /\ wpc' = "direct" /\ UNCHANGED conn
       \/ /\ rrdcached # "none" /\ conn = "closed" /\ daemon = "up"
          /\ wpc' = "rrdc" /\ conn' = "open"
       \/ /\ rrdcached # "none" /\ conn # "closed"
          /\ wpc' = "rrdc" /\ UNCHANGED conn
    /\ UNCHANGED <<now, disk, rrdcached, dmn, err, path, n, rc, stamp, hist>>

\* The daemon's queues with the sample being written.
Enqueued == [queue EXCEPT ![path] = Append(queue[path], [id |-> n, time |-> now])]

\* rrdc_update is acknowledged.
RrdcUpdate ==
    /\ wpc = "rrdc" /\ conn = "open"
    /\ queue' = Enqueued
    /\ Return("ok")
    /\ UNCHANGED <<now, disk, rrdcached, daemon, outages, err, conn, path, n, overtaken, crashed>>

\* Mutant: a failed rrdc_update is reported as success, without the fallback.
RrdcBrokenAcked ==
    /\ wpc = "rrdc" /\ conn = "stale"
    /\ conn' = "closed"
    /\ Return("ok")
    /\ UNCHANGED <<now, disk, rrdcached, dmn, err, path, n, overtaken, crashed>>

\* rrdc_update fails on a connection that is gone: fall back.
RrdcBroken ==
    /\ wpc = "rrdc" /\ conn = "stale"
    /\ wpc' = "direct" /\ conn' = "closed"
    /\ UNCHANGED <<now, disk, rrdcached, dmn, err, path, n, rc, stamp, hist>>

\* A reachable daemon answers rrdc_update with an error and queues nothing: fall
\* back to a direct update too; the connection stays.
RrdcRefused ==
    /\ wpc = "rrdc" /\ conn = "open" /\ errors < MaxErrors
    /\ wpc' = "direct" /\ errors' = errors + 1
    /\ UNCHANGED <<now, disk, rrdcached, dmn, flushall, conn, path, n, rc, stamp, hist>>

\* The daemon takes the update and becomes unreachable before it answers.
RrdcNoReply ==
    /\ wpc = "rrdc" /\ conn = "open"
    /\ Unreachable(Enqueued)
    /\ wpc' = "direct" /\ conn' = "closed"
    /\ UNCHANGED <<now, disk, rrdcached, err, path, n, rc, stamp, acked, overtaken>>

\* rrd_update_r with "N:...".
Direct ==
    /\ wpc = "direct"
    /\ IF now > last_up[path]
       THEN /\ stored' = stored \cup {n}
            /\ last_up' = [last_up EXCEPT ![path] = now]
            /\ overtaken' = overtaken \cup Ids(queue[path])
            /\ Return("ok")
       ELSE Return("rejected") /\ UNCHANGED <<stored, last_up, overtaken>>
    /\ UNCHANGED <<now, on_disk, rrdcached, dmn, err, conn, path, n, crashed>>

\* rrd_update_r fails for another reason: a lock, a full disk, an I/O error.
DirectFails ==
    /\ wpc = "direct"
    /\ Return("failed")
    /\ UNCHANGED <<now, disk, rrdcached, dmn, err, conn, path, n, overtaken, crashed>>

\* Mutant: disconnect without the flush.
ShutdownNoFlush ==
    /\ wpc = "idle"
    /\ wpc' = "exited" /\ conn' = "closed"
    /\ UNCHANGED <<now, disk, rrdcached, dmn, err, path, n, rc, stamp, hist>>

\* writer_shutdown: flush and disconnect if librrd believes it is connected.
\* FLUSHALL fails over a connection that is gone, or is refused: only logged.
Shutdown ==
    /\ wpc = "idle"
    /\ wpc' = "exited" /\ conn' = "closed"
    /\ \/ /\ rrdcached = "none" \/ conn = "closed"
          /\ UNCHANGED err
       \/ /\ rrdcached # "none" /\ conn = "open"
          /\ flushall' = "started" /\ UNCHANGED errors
       \/ /\ rrdcached # "none" /\ conn = "open" /\ errors < MaxErrors
          /\ flushall' = "failed" /\ errors' = errors + 1
       \/ /\ rrdcached # "none" /\ conn = "stale"
          /\ flushall' = "failed" /\ UNCHANGED errors
    /\ UNCHANGED <<now, disk, rrdcached, dmn, path, n, rc, stamp, hist>>

\* The daemon goes on flushing after the writer has exited; outages and time are
\* watched until then.
Environment ==
    \/ \E f \in File : DaemonFlush(f)
    \/ wpc # "exited" /\ (DaemonDown \/ DaemonUp \/ Tick)

Writer ==
    \/ \E f \in File : Write(f) \/ WriteRefused(f)
    \/ HaveFile \/ CreateFails \/ Route \/ RrdcUpdate \/ RrdcBroken \/ RrdcRefused
    \/ RrdcNoReply \/ Direct \/ DirectFails \/ Shutdown

Next == Environment \/ Writer

Spec == Init /\ [][Next]_vars

-----------------------------------------------------------------------------
(* Properties.                                                             *)

\* A sample that writer_write acknowledged is on disk or held by the daemon,
\* except one that a fallback to a direct update overtook while it was queued
\* (the file then refuses it), or one in a queue that died with the daemon.
LossExplained == acked \subseteq stored \cup Queued \cup overtaken \cup crashed

\* rrd_update_r never refuses a sample of an existing file, thanks to the
\* last_up = now-1 of the creation, unless that very sample has already reached
\* the file through a daemon that did not answer.
RejectedOnlyIfStored == rc = "rejected" => n \in stored

\* writer_rrd.c: "a transient daemon outage does not lose samples".
NothingLost == acked \subseteq stored \cup Queued

\* collect.c: buffered writes are "durable before exit"; read as: on disk or
\* being flushed by the daemon, and asked only of an exit at a moment when the
\* daemon is reachable.
DurableAtExit ==
    wpc = "exited" /\ daemon = "up" => acked \subseteq stored \cup Flushing

\* Until the daemon is unreachable or answers with an error for the first time,
\* nothing acknowledged is lost: a connected writer whose updates are taken
\* never writes to a file behind the daemon's back.
NothingLostBefore == outages = 0 /\ errors = 0 => NothingLost

\* If the daemon was never unreachable, or none is configured, and the FLUSHALL
\* of writer_shutdown was not refused, every acknowledged sample that no
\* fallback overtook is on disk or being flushed at exit, whatever error replies
\* there were on the way: an error reply does not cost the connection.
DurableBefore ==
    outages = 0 /\ wpc = "exited" /\ flushall # "failed"
        => acked \subseteq stored \cup Flushing \cup overtaken
=============================================================================
