---------------------------- MODULE WriterProofs ----------------------------
(***************************************************************************)
(* Proofs about RrdWriter for every set of files and every bound.          *)
(***************************************************************************)
EXTENDS RrdWriter, TLAPS

-----------------------------------------------------------------------------
(* The inductive invariant.                                                *)

\* The phases in which the sample n is on its way to the file path.
Writing == wpc \in {"access", "route", "rrdc", "direct"}

\* Files and queues carry no time later than the clock; a file whose write has
\* ended carries none later than that end; a write starts in a later second.
ClockInv ==
    /\ \A f \in File : stamp[f] <= now /\ last_up[f] <= now
    /\ \A f \in File : (f = path => wpc \notin {"route", "rrdc", "direct"})
                         => last_up[f] <= stamp[f]
    /\ Writing => stamp[path] < now
    /\ wpc \in {"route", "rrdc"} => last_up[path] < now

\* A queued update is no later than the end of the last write to its file,
\* except that of a sample the daemon took without answering.
QueueInv ==
    \A f \in File : \A i \in 1..Len(queue[f]) :
        /\ queue[f][i].time <= now
        /\ \/ queue[f][i].time <= stamp[f]
           \/ f = path /\ wpc = "direct" /\ queue[f][i].id = n

\* A queued update the file would refuse has been overtaken.
OvertakenInv ==
    \A f \in File : \A i \in 1..Len(queue[f]) :
        queue[f][i].time <= last_up[f] => queue[f][i].id \in overtaken

\* A direct update finds an older file, or its own sample there.
DirectInv == wpc = "direct" => last_up[path] < now \/ n \in stored

ConnInv ==
    /\ conn = "open" => daemon = "up" /\ rrdcached # "none"
    /\ wpc = "rrdc" => conn # "closed"
    /\ wpc # "idle" /\ wpc # "exited" => n \in Sample

IInv ==
    /\ Types /\ ClockInv /\ FilesExist /\ QueueInv /\ OvertakenInv /\ DirectInv /\ ConnInv
    /\ LossExplained /\ RejectedOnlyIfStored

-----------------------------------------------------------------------------
(* Facts about queues.                                                     *)

\* Queued updates belong to samples.
LEMMA IdsType == ASSUME NEW q \in Seq(Update) PROVE Ids(q) \subseteq Sample
<1>1. ASSUME NEW u \in Update PROVE u.id \in Sample
  BY DEF Update
<1>2. ASSUME NEW i \in 1..Len(q) PROVE q[i] \in Update
  OBVIOUS
<1> QED
  BY <1>1, <1>2 DEF Ids

\* ... and carry a time.
LEMMA TimeType ==
  ASSUME NEW q \in Seq(Update), NEW i \in 1..Len(q) PROVE q[i].time \in Nat
<1>1. q[i] \in Update
  OBVIOUS
<1>2. q[i].time \in 0..MaxTime
  BY <1>1 DEF Update
<1> QED
  BY <1>2, ConstantsAssumption

\* Queueing an update queues its sample.
LEMMA IdsAppend ==
  ASSUME NEW q \in Seq(Update), NEW e \in Update
  PROVE  Ids(Append(q, e)) = Ids(q) \cup {e.id}
<1>1. ASSUME NEW i \in 1..Len(Append(q, e))
      PROVE  Append(q, e)[i].id \in Ids(q) \cup {e.id}
  BY DEF Ids
<1>2. ASSUME NEW i \in 1..Len(q) PROVE q[i].id \in Ids(Append(q, e))
  <2>1. i \in 1..Len(Append(q, e)) /\ q[i] = Append(q, e)[i]
    OBVIOUS
  <2> QED
    BY <2>1 DEF Ids
<1>3. e.id \in Ids(Append(q, e))
  <2>1. Len(q) + 1 \in 1..Len(Append(q, e)) /\ e = Append(q, e)[Len(q) + 1]
    OBVIOUS
  <2> QED
    BY <2>1 DEF Ids
<1> QED
  BY <1>1, <1>2, <1>3 DEF Ids

\* rrd_update_r never moves a file back, and not past the updates it is given.
LEMMA FlushFile ==
  ASSUME Types, NEW f \in File, NEW q \in Seq(Update)
  PROVE  /\ Accepted(f, q) \subseteq Ids(q)
         /\ Latest(f, q) \in 0..MaxTime /\ Latest(f, q) >= last_up[f]
         /\ \A t \in Nat : last_up[f] <= t /\ (\A i \in 1..Len(q) : q[i].time <= t)
                             => Latest(f, q) <= t
<1>1. Accepted(f, q) \subseteq Ids(q)
  BY DEF Accepted, Ids
<1>2. last_up[f] \in 0..MaxTime
  BY DEF Types
<1>3. CASE q = <<>>
  BY <1>1, <1>2, <1>3, ConstantsAssumption DEF Latest
<1>4. CASE q # <<>>
  <2>1. Len(q) \in 1..Len(q) /\ q[Len(q)] \in Update
    BY <1>4
  <2>2. q[Len(q)].time \in 0..MaxTime
    BY <2>1 DEF Update
  <2> QED
    BY <1>1, <1>2, <2>1, <2>2, ConstantsAssumption DEF Latest
<1> QED
  BY <1>3, <1>4

-----------------------------------------------------------------------------
(* Type correctness.                                                       *)

\* Type correctness is preserved by the writer, the daemon and the clock.
LEMMA TypeStep == Types /\ ConnInv /\ [Next]_vars => Types'
<1> SUFFICES ASSUME Types, ConnInv, [Next]_vars PROVE Types'
  OBVIOUS
<1> USE ConstantsAssumption DEF disk, dmn, err, hist
<1>1. \A f \in File : queue[f] \in Seq(Update) /\ Ids(queue[f]) \subseteq Sample
  BY IdsType DEF Types
<1>2. wpc \in {"rrdc", "direct"} =>
        /\ Enqueued \in [File -> Seq(Update)] /\ n \in Sample
        /\ \A f \in File : Ids(Enqueued[f]) \subseteq Sample
  <2> SUFFICES ASSUME wpc \in {"rrdc", "direct"}
               PROVE  Enqueued \in [File -> Seq(Update)] /\ n \in Sample
    BY IdsType
  <2>1. n \in Sample
    BY DEF ConnInv
  <2>2. now \in 0..MaxTime
    BY DEF Types
  <2>3. [id |-> n, time |-> now] \in Update
    BY <2>1, <2>2 DEF Update
  <2> QED
    BY <2>1, <2>3 DEF Types, Enqueued
<1>0. [f \in File |-> <<>>] \in [File -> Seq(Update)]
  OBVIOUS
<1>t. /\ now \in 0..MaxTime /\ n \in 0..MaxWrites /\ stamp \in [File -> 0..MaxTime]
      /\ queue \in [File -> Seq(Update)] /\ crashed \subseteq Sample
      /\ stored \subseteq Sample /\ last_up \in [File -> 0..MaxTime]
  BY DEF Types
<1>3. ASSUME NEW f \in File, DaemonFlush(f) PROVE Types'
  BY <1>1, <1>3, FlushFile, SMTT(30) DEF DaemonFlush, Types
<1>4. CASE DaemonDown
  <2>1. UNION {Ids(queue[f]) : f \in File} \subseteq Sample
    BY <1>1
  <2>2. queue' \in [File -> Seq(Update)] /\ crashed' \subseteq Sample
    BY <1>0, <1>t, <1>4, <2>1 DEF DaemonDown, Unreachable
  <2>3. outages' \in 0..MaxOutages /\ conn' \in {"closed", "open", "stale"}
    BY <1>4 DEF DaemonDown, Unreachable, Types
  <2> QED
    BY <1>4, <2>2, <2>3 DEF DaemonDown, Unreachable, Types
<1>5. CASE DaemonUp \/ Tick
  BY <1>5 DEF DaemonUp, Tick, Types
<1>6. ASSUME NEW f \in File, Write(f) \/ WriteRefused(f) PROVE Types'
  <2>1. n' \in 0..MaxWrites
    BY <1>t, <1>6 DEF Write, WriteRefused
  <2>2. stamp' \in [File -> 0..MaxTime]
    BY <1>t, <1>6 DEF Write, WriteRefused
  <2> QED
    BY <1>6, <2>1, <2>2 DEF Write, WriteRefused, Types
<1>7. CASE HaveFile
  <2>1. now - 1 \in 0..MaxTime
    BY DEF Types
  <2>2. last_up' \in [File -> 0..MaxTime] /\ on_disk' \subseteq File
        /\ stored' \subseteq Sample
    BY <1>7, <2>1 DEF HaveFile, Types
  <2> QED
    BY <1>7, <2>2 DEF HaveFile, Types
<1>8. CASE CreateFails \/ DirectFails
  BY <1>8 DEF CreateFails, DirectFails, Return, Types
<1>9. CASE Route \/ RrdcBroken \/ RrdcRefused
  BY <1>9 DEF Route, RrdcBroken, RrdcRefused, Types
<1>10. CASE RrdcUpdate
  BY <1>2, <1>10 DEF RrdcUpdate, Return, Types
<1>11. CASE RrdcNoReply
  <2>1. UNION {Ids(Enqueued[f]) : f \in File} \subseteq Sample
    BY <1>2, <1>11 DEF RrdcNoReply
  <2>2. queue' \in [File -> Seq(Update)] /\ crashed' \subseteq Sample
    BY <1>0, <1>t, <1>2, <1>11, <2>1 DEF RrdcNoReply, Unreachable
  <2>3. outages' \in 0..MaxOutages
    BY <1>11 DEF RrdcNoReply, Unreachable, Types
  <2> QED
    BY <1>11, <2>2, <2>3 DEF RrdcNoReply, Unreachable, Types
<1>12. CASE Direct
  <2>1. /\ stored' \subseteq Sample /\ last_up' \in [File -> 0..MaxTime]
        /\ overtaken' \subseteq Sample
    BY <1>t, <1>1, <1>2, <1>12 DEF Direct, Types
  <2>2. /\ stamp' \in [File -> 0..MaxTime] /\ acked' \subseteq Sample
        /\ wpc' = "idle" /\ rc' \in {"ok", "rejected"}
    BY <1>t, <1>2, <1>12 DEF Direct, Return, Types
  <2> QED
    BY <1>12, <2>1, <2>2 DEF Direct, Types
<1>13. CASE Shutdown
  <2>1. errors' \in 0..MaxErrors /\ flushall' \in {"none", "started", "failed"}
    BY <1>13 DEF Shutdown, Types
  <2> QED
    BY <1>13, <2>1 DEF Shutdown, Types
<1>14. CASE UNCHANGED vars
  BY <1>14 DEF vars, Types
<1> QED
  BY <1>3, <1>4, <1>5, <1>6, <1>7, <1>8, <1>9, <1>10, <1>11, <1>12, <1>13, <1>14
     DEF Next, Environment, Writer

\* The connection and the phase of the write agree.
LEMMA ConnStep == Types /\ ConnInv /\ [Next]_vars => ConnInv'
<1> SUFFICES ASSUME Types, ConnInv, [Next]_vars PROVE ConnInv'
  OBVIOUS
<1> USE ConstantsAssumption DEF ConnInv, Types, disk, dmn, err, hist, Sample
<1>1. CASE \E f \in File : DaemonFlush(f) \/ Write(f) \/ WriteRefused(f)
  BY <1>1 DEF DaemonFlush, Write, WriteRefused
<1>2. CASE DaemonDown \/ DaemonUp \/ Tick
  BY <1>2 DEF DaemonDown, Unreachable, DaemonUp, Tick
<1>3. CASE HaveFile \/ CreateFails \/ DirectFails \/ Route \/ RrdcBroken \/ RrdcRefused
  BY <1>3 DEF HaveFile, CreateFails, DirectFails, Return, Route, RrdcBroken, RrdcRefused
<1>4. CASE RrdcUpdate \/ RrdcNoReply \/ Direct \/ Shutdown
  BY <1>4 DEF RrdcUpdate, RrdcNoReply, Unreachable, Direct, Return, Shutdown
<1>5. CASE UNCHANGED vars
  BY <1>5 DEF vars
<1> QED
  BY <1>1, <1>2, <1>3, <1>4, <1>5 DEF Next, Environment, Writer

-----------------------------------------------------------------------------
(* Each part of the invariant is preserved.                                *)

\* No file and no write gets ahead of the clock.
LEMMA ClockStep == Types /\ ClockInv /\ QueueInv /\ [Next]_vars => ClockInv'
<1> SUFFICES ASSUME Types, ClockInv, QueueInv, [Next]_vars PROVE ClockInv'
  OBVIOUS
<1> USE DEF disk, dmn, err, hist
<1>t. /\ now \in Nat \ {0} /\ stamp \in [File -> Nat] /\ last_up \in [File -> Nat]
      /\ path \in File /\ \A f \in File : queue[f] \in Seq(Update)
  BY ConstantsAssumption DEF Types
<1>1. ASSUME NEW f \in File
      PROVE  /\ Latest(f, queue[f]) \in Nat /\ Latest(f, queue[f]) <= now
             /\ (f = path => wpc \notin {"route", "rrdc", "direct"})
                  => Latest(f, queue[f]) <= stamp[f]
             /\ f = path /\ wpc \in {"route", "rrdc"} => Latest(f, queue[f]) < now
  <2>1. \A t \in Nat : last_up[f] <= t /\ (\A i \in 1..Len(queue[f]) : queue[f][i].time <= t)
                        => Latest(f, queue[f]) <= t
    BY <1>t, FlushFile
  <2>2. Latest(f, queue[f]) \in Nat
    BY <1>t, FlushFile, ConstantsAssumption
  <2>3. \A i \in 1..Len(queue[f]) : queue[f][i].time \in Nat
    BY <1>t, TimeType
  <2>4. Latest(f, queue[f]) <= now
    BY <1>t, <2>1 DEF ClockInv, QueueInv
  <2>5. ASSUME f = path => wpc \notin {"route", "rrdc", "direct"}
        PROVE  Latest(f, queue[f]) <= stamp[f]
    BY <1>t, <2>1, <2>5 DEF ClockInv, QueueInv
  <2>6. ASSUME f = path, wpc \in {"route", "rrdc"}
        PROVE  Latest(f, queue[f]) < now
    <3>1. last_up[f] <= now - 1 /\ stamp[f] <= now - 1
      BY <1>t, <2>6 DEF ClockInv, Writing
    <3>2. \A i \in 1..Len(queue[f]) : queue[f][i].time <= now - 1
      BY <1>t, <2>3, <2>6, <3>1 DEF QueueInv
    <3>3. now - 1 \in Nat
      BY <1>t
    <3>4. Latest(f, queue[f]) <= now - 1
      BY <2>1, <3>1, <3>2, <3>3
    <3> QED
      BY <1>t, <2>2, <3>4
  <2> QED
    BY <2>2, <2>4, <2>5, <2>6
<1>2. ASSUME NEW f \in File, DaemonFlush(f) PROVE ClockInv'
  BY <1>t, <1>1, <1>2 DEF DaemonFlush, ClockInv, Writing
<1>3. CASE DaemonDown \/ DaemonUp
  BY <1>3 DEF DaemonDown, Unreachable, DaemonUp, ClockInv, Writing
<1>4. CASE Tick
  BY <1>t, <1>4 DEF Tick, ClockInv, Writing
<1>5. ASSUME NEW f \in File, Write(f) \/ WriteRefused(f) PROVE ClockInv'
  <2>1. wpc = "idle" /\ stamp[f] < now /\ path' = f /\ UNCHANGED <<now, last_up>>
    BY <1>5 DEF Write, WriteRefused
  <2>2. \A g \in File : last_up[g] <= stamp[g] /\ stamp[g] <= now /\ last_up[g] <= now
    BY <2>1 DEF ClockInv
  <2>3. CASE Write(f)
    BY <2>1, <2>2, <2>3 DEF Write, ClockInv, Writing
  <2>4. CASE WriteRefused(f)
    BY <1>t, <2>1, <2>2, <2>4 DEF WriteRefused, ClockInv, Writing
  <2> QED
    BY <1>5, <2>3, <2>4
<1>6. CASE HaveFile
  BY <1>t, <1>6 DEF HaveFile, ClockInv, Writing
<1>7. CASE CreateFails \/ DirectFails
  <2>1. wpc' = "idle" /\ stamp' = [stamp EXCEPT ![path] = now]
        /\ UNCHANGED <<now, path, last_up>>
    BY <1>7 DEF CreateFails, DirectFails, Return
  <2> QED
    BY <1>t, <2>1 DEF ClockInv, Writing
<1>8. CASE Route \/ RrdcBroken \/ RrdcRefused
  BY <1>t, <1>8 DEF Route, RrdcBroken, RrdcRefused, ClockInv, Writing
<1>9. CASE RrdcUpdate
  BY <1>t, <1>9 DEF RrdcUpdate, Return, ClockInv, Writing
<1>10. CASE RrdcNoReply
  BY <1>t, <1>10 DEF RrdcNoReply, Unreachable, ClockInv, Writing
<1>11. CASE Direct
  <2>1. wpc' = "idle" /\ stamp' = [stamp EXCEPT ![path] = now] /\ UNCHANGED <<now, path>>
    BY <1>11 DEF Direct, Return
  <2>2. last_up' = [last_up EXCEPT ![path] = now] \/ last_up' = last_up
    BY <1>11 DEF Direct
  <2> QED
    BY <1>t, <2>1, <2>2 DEF ClockInv, Writing
<1>12. CASE Shutdown
  BY <1>12 DEF Shutdown, ClockInv, Writing
<1>13. CASE UNCHANGED vars
  BY <1>13 DEF vars, ClockInv, Writing
<1> QED
  BY <1>2, <1>3, <1>4, <1>5, <1>6, <1>7, <1>8, <1>9, <1>10, <1>11, <1>12, <1>13
     DEF Next, Environment, Writer

\* An update is queued only for a file that exists.
LEMMA FileStep == Types /\ FilesExist /\ [Next]_vars => FilesExist'
<1> SUFFICES ASSUME Types, FilesExist, [Next]_vars PROVE FilesExist'
  OBVIOUS
<1> USE DEF disk, dmn, err, hist, FilesExist
<1>t. queue \in [File -> Seq(Update)] /\ path \in File
  BY DEF Types
<1>1. CASE \E f \in File : DaemonFlush(f) \/ Write(f) \/ WriteRefused(f)
  BY <1>t, <1>1 DEF DaemonFlush, Write, WriteRefused
<1>2. CASE DaemonDown \/ DaemonUp \/ Tick
  BY <1>t, <1>2 DEF DaemonDown, Unreachable, DaemonUp, Tick
<1>3. CASE HaveFile \/ CreateFails \/ DirectFails \/ Route \/ RrdcBroken \/ RrdcRefused
  BY <1>t, <1>3 DEF HaveFile, CreateFails, DirectFails, Return, Route, RrdcBroken, RrdcRefused
<1>4. CASE RrdcUpdate \/ RrdcNoReply
  BY <1>t, <1>4 DEF RrdcUpdate, RrdcNoReply, Unreachable, Return, Enqueued
<1>5. CASE Direct \/ Shutdown
  BY <1>t, <1>5 DEF Direct, Return, Shutdown
<1>6. CASE UNCHANGED vars
  BY <1>6 DEF vars
<1> QED
  BY <1>1, <1>2, <1>3, <1>4, <1>5, <1>6 DEF Next, Environment, Writer

\* What the queues are after each step: as they were, emptied for some files, or
\* with the sample being written at the end of its file's queue.
LEMMA QueueChange ==
  ASSUME Types, [Next]_vars
  PROVE  \/ \A f \in File : queue[f] \in Seq(Update) /\ queue'[f] \in {queue[f], <<>>}
         \/ /\ wpc = "rrdc" /\ path \in File /\ queue' = Enqueued
            /\ RrdcUpdate \/ RrdcNoReply
<1> USE DEF disk, dmn, err, hist
<1>t. queue \in [File -> Seq(Update)] /\ path \in File
  BY DEF Types
<1>1. CASE \E f \in File : DaemonFlush(f) \/ Write(f) \/ WriteRefused(f)
  BY <1>t, <1>1 DEF DaemonFlush, Write, WriteRefused
<1>2. CASE DaemonDown \/ DaemonUp \/ Tick
  BY <1>t, <1>2 DEF DaemonDown, Unreachable, DaemonUp, Tick
<1>3. CASE HaveFile \/ CreateFails \/ DirectFails \/ Route \/ RrdcBroken \/ RrdcRefused
  BY <1>t, <1>3 DEF HaveFile, CreateFails, DirectFails, Return, Route, RrdcBroken, RrdcRefused
<1>4. CASE RrdcUpdate \/ RrdcNoReply
  BY <1>t, <1>4 DEF RrdcUpdate, RrdcNoReply, Unreachable
<1>5. CASE Direct \/ Shutdown
  BY <1>t, <1>5 DEF Direct, Return, Shutdown
<1>6. CASE UNCHANGED vars
  BY <1>t, <1>6 DEF vars
<1> QED
  BY <1>1, <1>2, <1>3, <1>4, <1>5, <1>6 DEF Next, Environment, Writer

\* The entries of the queues after the sample being written is queued.
LEMMA EnqueuedEntries ==
  ASSUME Types, ConnInv, wpc = "rrdc", NEW f \in File, NEW i \in 1..Len(Enqueued[f])
  PROVE  \/ i \in 1..Len(queue[f]) /\ Enqueued[f][i] = queue[f][i]
         \/ f = path /\ Enqueued[f][i].id = n /\ Enqueued[f][i].time = now
<1> DEFINE e == [id |-> n, time |-> now]
<1>1. queue \in [File -> Seq(Update)] /\ path \in File /\ now \in 0..MaxTime
  BY ConstantsAssumption DEF Types
<1>2. e \in Update /\ e.id = n /\ e.time = now
  BY <1>1 DEF ConnInv, Update
<1> HIDE DEF e
<1>3. Enqueued = [queue EXCEPT ![path] = Append(queue[path], e)]
  BY DEF Enqueued, e
<1>4. CASE f # path
  BY <1>1, <1>3, <1>4
<1>5. CASE f = path
  BY <1>1, <1>2, <1>3, <1>5
<1> QED
  BY <1>4, <1>5

\* Queued updates are older than the write in progress.
LEMMA QueueStep ==
  Types /\ ClockInv /\ QueueInv /\ ConnInv /\ [Next]_vars => QueueInv'
<1> SUFFICES ASSUME Types, ClockInv, QueueInv, ConnInv, [Next]_vars,
                    NEW f \in File, NEW i \in 1..Len(queue'[f])
             PROVE  /\ queue'[f][i].time <= now'
                    /\ \/ queue'[f][i].time <= stamp'[f]
                       \/ f = path' /\ wpc' = "direct" /\ queue'[f][i].id = n'
  BY DEF QueueInv
<1> USE DEF disk, dmn, err, hist
<1>t. /\ now \in Nat /\ stamp \in [File -> Nat] /\ path \in File
      /\ \A g \in File : queue[g] \in Seq(Update)
  BY ConstantsAssumption DEF Types
<1>1. CASE queue' = Enqueued /\ wpc = "rrdc" /\ (RrdcUpdate \/ RrdcNoReply)
  <2>1. UNCHANGED <<now, path, n>>
    BY <1>1 DEF RrdcUpdate, RrdcNoReply
  <2>2. CASE f = path /\ queue'[f][i].id = n /\ queue'[f][i].time = now
    BY <1>t, <1>1, <2>1, <2>2 DEF RrdcUpdate, RrdcNoReply, Return
  <2>3. CASE i \in 1..Len(queue[f]) /\ queue'[f][i] = queue[f][i]
    <3>1. queue[f][i].time <= stamp[f] /\ queue[f][i].time <= now
          /\ queue[f][i].time \in Nat
      BY <1>t, <1>1, <2>3, TimeType DEF QueueInv
    <3>2. stamp' = stamp \/ stamp' = [stamp EXCEPT ![path] = now]
      BY <1>1 DEF RrdcUpdate, RrdcNoReply, Return
    <3> QED
      BY <1>t, <2>1, <2>3, <3>1, <3>2
  <2> QED
    BY <1>1, <2>2, <2>3, EnqueuedEntries
<1>2. CASE queue'[f] \in {queue[f], <<>>}
  <2>1. i \in 1..Len(queue[f]) /\ queue'[f][i] = queue[f][i]
    BY <1>t, <1>2
  <2>2. queue[f][i].time <= now /\ queue[f][i].time \in Nat
    BY <1>t, <2>1, TimeType DEF QueueInv
  <2>3. now <= now' /\ now' \in Nat
    BY <1>t DEF Next, Environment, Writer, DaemonFlush, DaemonDown, Unreachable,
       DaemonUp, Tick, Write, WriteRefused, HaveFile, CreateFails, DirectFails, Return, Route,
       RrdcUpdate, RrdcBroken, RrdcRefused, RrdcNoReply, Direct, Shutdown, vars
  <2>4. stamp' = stamp \/ \E g \in File : stamp' = [stamp EXCEPT ![g] = now]
    BY <1>t DEF Next, Environment, Writer, DaemonFlush, DaemonDown, Unreachable,
       DaemonUp, Tick, Write, WriteRefused, HaveFile, CreateFails, DirectFails, Return, Route,
       RrdcUpdate, RrdcBroken, RrdcRefused, RrdcNoReply, Direct, Shutdown, vars
  <2>5. \/ queue[f][i].time <= stamp[f]
        \/ f = path /\ wpc = "direct" /\ queue[f][i].id = n
    BY <2>1 DEF QueueInv
  <2>6. CASE queue[f][i].time <= stamp[f]
    BY <1>t, <2>1, <2>2, <2>3, <2>4, <2>6
  <2>7. CASE f = path /\ wpc = "direct" /\ queue[f][i].id = n
    <3>1. \/ path' = path /\ wpc' = "direct" /\ n' = n
          \/ stamp' = [stamp EXCEPT ![path] = now]
      BY <2>7 DEF Next, Environment, Writer, DaemonFlush, DaemonDown, Unreachable,
         DaemonUp, Tick, Write, WriteRefused, HaveFile, CreateFails, DirectFails, Return, Route,
         RrdcUpdate, RrdcBroken, RrdcRefused, RrdcNoReply, Direct, Shutdown, vars
    <3> QED
      BY <1>t, <2>1, <2>2, <2>3, <2>7, <3>1
  <2> QED
    BY <2>5, <2>6, <2>7
<1> QED
  BY <1>1, <1>2, QueueChange

\* A queued update becomes too old for its file only by a direct update.
LEMMA OvertakenStep ==
  /\ Types /\ ClockInv /\ FilesExist /\ ConnInv /\ OvertakenInv /\ [Next]_vars
  => OvertakenInv'
<1> SUFFICES ASSUME Types, ClockInv, FilesExist, ConnInv, OvertakenInv, [Next]_vars,
                    NEW f \in File, NEW i \in 1..Len(queue'[f]),
                    queue'[f][i].time <= last_up'[f]
             PROVE  queue'[f][i].id \in overtaken'
  BY DEF OvertakenInv
<1> USE DEF disk, dmn, err, hist
<1>t. /\ now \in Nat /\ last_up \in [File -> Nat] /\ path \in File
      /\ queue \in [File -> Seq(Update)]
  BY ConstantsAssumption DEF Types
<1>1. CASE queue' = Enqueued /\ wpc = "rrdc" /\ (RrdcUpdate \/ RrdcNoReply)
  <2>1. UNCHANGED <<last_up, overtaken>>
    BY <1>1 DEF RrdcUpdate, RrdcNoReply
  <2>2. last_up[path] < now
    BY <1>1 DEF ClockInv
  <2>3. CASE f = path /\ queue'[f][i].time = now
    BY <1>t, <2>1, <2>2, <2>3
  <2>4. CASE i \in 1..Len(queue[f]) /\ queue'[f][i] = queue[f][i]
    BY <2>1, <2>4 DEF OvertakenInv
  <2> QED
    BY <1>1, <2>3, <2>4, EnqueuedEntries
<1>2. CASE queue'[f] \in {queue[f], <<>>}
  <2>1. i \in 1..Len(queue[f]) /\ queue'[f] = queue[f] /\ queue[f] # <<>>
    BY <1>t, <1>2
  <2>2. \/ last_up'[f] = last_up[f] /\ overtaken \subseteq overtaken'
        \/ overtaken' = overtaken \cup Ids(queue[f])
    <3>1. CASE \E g \in File : DaemonFlush(g) \/ Write(g) \/ WriteRefused(g)
      BY <1>t, <2>1, <3>1 DEF DaemonFlush, Write, WriteRefused
    <3>2. CASE DaemonDown \/ DaemonUp \/ Tick
      BY <3>2 DEF DaemonDown, Unreachable, DaemonUp, Tick
    <3>3. CASE HaveFile
      BY <1>t, <2>1, <3>3 DEF HaveFile, FilesExist
    <3>4. CASE CreateFails \/ DirectFails \/ Route \/ RrdcBroken \/ RrdcRefused
      BY <3>4 DEF CreateFails, DirectFails, Return, Route, RrdcBroken, RrdcRefused
    <3>5. CASE RrdcUpdate \/ RrdcNoReply
      BY <3>5 DEF RrdcUpdate, RrdcNoReply
    <3>6. CASE Direct
      BY <1>t, <3>6 DEF Direct
    <3>7. CASE Shutdown
      BY <3>7 DEF Shutdown
    <3>8. CASE UNCHANGED vars
      BY <3>8 DEF vars
    <3> QED
      BY <3>1, <3>2, <3>3, <3>4, <3>5, <3>6, <3>7, <3>8 DEF Next, Environment, Writer
  <2> QED
    BY <2>1, <2>2 DEF OvertakenInv, Ids
<1> QED
  BY <1>1, <1>2, QueueChange

\* A direct update that would be refused finds its own sample in the file.
LEMMA DirectStep ==
  Types /\ ClockInv /\ QueueInv /\ DirectInv /\ [Next]_vars => DirectInv'
<1> SUFFICES ASSUME Types, ClockInv, QueueInv, DirectInv, [Next]_vars, wpc' = "direct"
             PROVE  last_up'[path'] < now' \/ n' \in stored'
  BY DEF DirectInv
<1> USE DEF disk, dmn, err, hist
<1>t. /\ now \in Nat /\ last_up \in [File -> Nat] /\ stamp \in [File -> Nat]
      /\ path \in File /\ queue \in [File -> Seq(Update)]
  BY ConstantsAssumption DEF Types
<1>1. ASSUME NEW f \in File, DaemonFlush(f) PROVE last_up'[path'] < now' \/ n' \in stored'
  <2> DEFINE q == queue[f]
             k == Len(q)
  <2>1. /\ wpc = "direct" /\ UNCHANGED <<now, path, n>>
        /\ last_up' = [last_up EXCEPT ![f] = Latest(f, q)]
        /\ stored' = stored \cup Accepted(f, q)
    BY <1>1 DEF DaemonFlush
  <2>2. CASE f # path \/ Latest(f, q) = last_up[f]
    BY <1>t, <2>1, <2>2 DEF DirectInv
  <2>3. CASE f = path /\ Latest(f, q) # last_up[f]
    <3>1. k \in 1..k /\ Latest(f, q) = q[k].time /\ q[k].time > last_up[f]
      BY <1>t, <2>3 DEF Latest
    <3>2. q[k].time \in Nat /\ q[k].time <= now /\ stamp[path] < now
      BY <1>t, <2>1, <3>1, TimeType DEF QueueInv, ClockInv, Writing
    <3>3. CASE q[k].time < now
      BY <1>t, <2>1, <2>3, <3>1, <3>3
    <3>4. CASE q[k].time = now
      <4>1. q[k].id = n
        BY <1>t, <2>3, <3>1, <3>2, <3>4 DEF QueueInv
      <4>2. n \in Accepted(f, q)
        BY <3>1, <4>1 DEF Accepted
      <4> QED
        BY <2>1, <4>2
    <3> QED
      BY <1>t, <3>2, <3>3, <3>4
  <2> QED
    BY <2>2, <2>3
<1>2. CASE DaemonDown \/ DaemonUp \/ UNCHANGED vars
  BY <1>2 DEF DaemonDown, DaemonUp, vars, DirectInv
<1>3. CASE Tick
  BY <1>t, <1>3 DEF Tick, ClockInv
<1>4. CASE Route \/ RrdcBroken \/ RrdcRefused \/ RrdcNoReply
  BY <1>4 DEF Route, RrdcBroken, RrdcRefused, RrdcNoReply, ClockInv
<1>5. CASE HaveFile \/ CreateFails \/ DirectFails \/ RrdcUpdate \/ Direct \/ Shutdown
  BY <1>5 DEF HaveFile, CreateFails, DirectFails, Return, RrdcUpdate, Direct, Shutdown
<1>6. ASSUME NEW f \in File, Write(f) \/ WriteRefused(f) PROVE FALSE
  BY <1>6 DEF Write, WriteRefused
<1> QED
  BY <1>1, <1>2, <1>3, <1>4, <1>5, <1>6 DEF Next, Environment, Writer

\* A refused sample is in its file.
LEMMA RejectedStep ==
  Types /\ DirectInv /\ RejectedOnlyIfStored /\ [Next]_vars => RejectedOnlyIfStored'
<1> SUFFICES ASSUME Types, DirectInv, RejectedOnlyIfStored, [Next]_vars
             PROVE  RejectedOnlyIfStored'
  OBVIOUS
<1> USE DEF disk, dmn, err, hist, RejectedOnlyIfStored
<1>t. now \in Nat /\ last_up \in [File -> Nat] /\ path \in File
  BY ConstantsAssumption DEF Types
<1>1. CASE \E f \in File : DaemonFlush(f) \/ Write(f) \/ WriteRefused(f)
  BY <1>1 DEF DaemonFlush, Write, WriteRefused
<1>2. CASE DaemonDown \/ DaemonUp \/ Tick \/ UNCHANGED vars
  BY <1>2 DEF DaemonDown, DaemonUp, Tick, vars
<1>3. CASE HaveFile \/ CreateFails \/ DirectFails \/ Route \/ RrdcBroken \/ RrdcRefused
  BY <1>3 DEF HaveFile, CreateFails, DirectFails, Return, Route, RrdcBroken, RrdcRefused
<1>4. CASE RrdcUpdate \/ RrdcNoReply \/ Shutdown
  BY <1>4 DEF RrdcUpdate, Return, RrdcNoReply, Shutdown
<1>5. CASE Direct
  BY <1>t, <1>5 DEF Direct, Return, DirectInv
<1> QED
  BY <1>1, <1>2, <1>3, <1>4, <1>5 DEF Next, Environment, Writer

\* What a flush of f does to the samples queued for it.
LEMMA FlushedSamples ==
  ASSUME Types, OvertakenInv, NEW f \in File
  PROVE  Ids(queue[f]) \subseteq Accepted(f, queue[f]) \cup overtaken
<1>1. queue[f] \in Seq(Update) /\ last_up[f] \in Nat
  BY ConstantsAssumption DEF Types
<1> SUFFICES ASSUME NEW i \in 1..Len(queue[f])
             PROVE  queue[f][i].id \in Accepted(f, queue[f]) \cup overtaken
  BY DEF Ids
<1>2. queue[f][i].time \in Nat
  BY <1>1, TimeType
<1>3. CASE queue[f][i].time <= last_up[f]
  BY <1>3 DEF OvertakenInv
<1>4. CASE queue[f][i].time > last_up[f]
  BY <1>4 DEF Accepted
<1> QED
  BY <1>1, <1>2, <1>3, <1>4

\* Queueing the sample being written adds it to the queued samples.
LEMMA EnqueuedSamples ==
  ASSUME Types, ConnInv, wpc = "rrdc"
  PROVE  UNION {Ids(Enqueued[f]) : f \in File} = Queued \cup {n}
<1> DEFINE e == [id |-> n, time |-> now]
<1>1. queue \in [File -> Seq(Update)] /\ path \in File /\ now \in 0..MaxTime
  BY ConstantsAssumption DEF Types
<1>2. e \in Update /\ e.id = n
  BY <1>1 DEF ConnInv, Update
<1> HIDE DEF e
<1>3. Enqueued = [queue EXCEPT ![path] = Append(queue[path], e)]
  BY DEF Enqueued, e
<1>4. Ids(Enqueued[path]) = Ids(queue[path]) \cup {n}
  BY <1>1, <1>2, <1>3, IdsAppend
<1>5. \A f \in File : f # path => Ids(Enqueued[f]) = Ids(queue[f])
  BY <1>1, <1>3
<1> QED
  BY <1>1, <1>4, <1>5 DEF Queued

\* Every way an acknowledged sample leaves the queue is accounted for.
LEMMA LossStep ==
  Types /\ ConnInv /\ OvertakenInv /\ LossExplained /\ [Next]_vars => LossExplained'
<1> SUFFICES ASSUME Types, ConnInv, OvertakenInv, LossExplained, [Next]_vars
             PROVE  LossExplained'
  OBVIOUS
<1> USE DEF disk, dmn, err, hist
<1>t. queue \in [File -> Seq(Update)] /\ path \in File
  BY DEF Types
<1>0. ASSUME UNCHANGED <<queue, stored, acked, overtaken, crashed>> PROVE LossExplained'
  BY <1>0 DEF LossExplained, Queued
<1>1. ASSUME NEW f \in File, DaemonFlush(f) PROVE LossExplained'
  <2>1. Ids(queue[f]) \subseteq stored' \cup overtaken'
    BY <1>1, FlushedSamples DEF DaemonFlush
  <2>2. \A g \in File : g # f => queue'[g] = queue[g]
    BY <1>t, <1>1 DEF DaemonFlush
  <2>3. Queued \subseteq Queued' \cup stored' \cup overtaken'
    BY <2>1, <2>2 DEF Queued
  <2> QED
    BY <1>1, <2>3 DEF DaemonFlush, LossExplained
<1>2. CASE DaemonDown
  <2>1. Queued \subseteq Queued' \cup crashed' /\ crashed \subseteq crashed'
    BY <1>2 DEF DaemonDown, Unreachable, Queued
  <2> QED
    BY <1>2, <2>1 DEF DaemonDown, LossExplained
<1>3. CASE DaemonUp \/ Tick \/ HaveFile \/ Route \/ RrdcBroken \/ RrdcRefused \/ UNCHANGED vars
  BY <1>0, <1>3 DEF DaemonUp, Tick, HaveFile, Route, RrdcBroken, RrdcRefused, vars
<1>4. CASE \E f \in File : Write(f) \/ WriteRefused(f)
  BY <1>0, <1>4 DEF Write, WriteRefused
<1>5. CASE CreateFails \/ DirectFails
  BY <1>0, <1>5 DEF CreateFails, DirectFails, Return
<1>6. CASE RrdcUpdate
  <2>1. Queued' = Queued \cup {n}
    BY <1>6, EnqueuedSamples DEF RrdcUpdate, Queued
  <2>2. acked' = acked \cup {n}
    BY <1>6 DEF RrdcUpdate, Return
  <2> QED
    BY <1>6, <2>1, <2>2 DEF RrdcUpdate, LossExplained
<1>7. CASE RrdcNoReply
  <2>1. UNION {Ids(Enqueued[f]) : f \in File} = Queued \cup {n}
    BY <1>7, EnqueuedSamples DEF RrdcNoReply
  <2>2. Queued \subseteq Queued' \cup crashed' /\ crashed \subseteq crashed'
    BY <1>7, <2>1 DEF RrdcNoReply, Unreachable, Queued
  <2> QED
    BY <1>7, <2>2 DEF RrdcNoReply, LossExplained
<1>8. CASE Direct
  <2>1. Queued' = Queued
    BY <1>8 DEF Direct, Queued
  <2> QED
    BY <1>8, <2>1 DEF Direct, Return, LossExplained
<1>9. CASE Shutdown
  BY <1>0, <1>9 DEF Shutdown
<1> QED
  BY <1>1, <1>2, <1>3, <1>4, <1>5, <1>6, <1>7, <1>8, <1>9 DEF Next, Environment, Writer

-----------------------------------------------------------------------------
(* The theorems.                                                           *)

\* The invariant of writer, files, daemon and clock is inductive.
THEOREM Invariant == Spec => []IInv
<1>1. Init => IInv
  <2> SUFFICES ASSUME Init PROVE IInv
    OBVIOUS
  <2>1. Types
    BY ConstantsAssumption DEF Init, Types
  <2>2. \A f \in File : queue[f] = <<>> /\ last_up[f] = 0 /\ stamp[f] = 0
    BY DEF Init
  <2>3. ClockInv
    BY <2>2 DEF Init, ClockInv, Writing
  <2>4. FilesExist /\ QueueInv /\ OvertakenInv
    BY <2>2 DEF Init, FilesExist, QueueInv, OvertakenInv
  <2>5. DirectInv /\ ConnInv /\ LossExplained /\ RejectedOnlyIfStored
    BY DEF Init, DirectInv, ConnInv, LossExplained, RejectedOnlyIfStored
  <2> QED
    BY <2>1, <2>3, <2>4, <2>5 DEF IInv
<1>2. IInv /\ [Next]_vars => IInv'
  BY TypeStep, ConnStep, ClockStep, FileStep, QueueStep, OvertakenStep, DirectStep,
     RejectedStep, LossStep DEF IInv
<1> QED
  BY <1>1, <1>2, PTL DEF Spec

\* Whatever the daemon does, files, queues and the write in progress keep their
\* types, and no update is made or queued for a file that is not there: a failed
\* creation ends the write.
THEOREM TypeCorrect == Spec => []TypeOK
<1>1. IInv => TypeOK
  BY DEF IInv, TypeOK
<1> QED
  BY <1>1, Invariant, PTL

\* An acknowledged sample is lost only by being overtaken by a direct update or
\* by dying with the daemon.
THEOREM LossOnlyByFallback == Spec => []LossExplained
<1>1. IInv => LossExplained
  BY DEF IInv
<1> QED
  BY <1>1, Invariant, PTL

\* librrd refuses a sample of the writer as too old only if it has that very
\* sample.
THEOREM NoRejection == Spec => []RejectedOnlyIfStored
<1>1. IInv => RejectedOnlyIfStored
  BY DEF IInv
<1> QED
  BY <1>1, Invariant, PTL

\* Until the first outage the writer is connected whenever the daemon holds
\* samples, so that its exit makes the daemon flush them.
ReachableInv ==
    /\ daemon = "up" /\ conn # "stale" /\ crashed = {}
    /\ rrdcached = "none" \/ conn = "closed" =>
         (wpc = "exited" /\ flushall # "none") \/ \A f \in File : queue[f] = <<>>

\* As long as the daemon also takes every update, the writer is never thrown
\* back to a direct update.
SteadyInv ==
    /\ overtaken = {}
    /\ rrdcached # "none" => wpc # "direct"

\* An exited writer has let go of the connection.
ExitInv == wpc = "exited" => conn = "closed"

\* How the counts of outages and error replies can change.
LEMMA CountStep ==
  ASSUME Types, [Next]_vars
  PROVE  /\ outages' = 0 => outages = 0
         /\ errors' = 0 => errors = 0
<1>1. outages' = outages \/ outages' = outages + 1
  BY DEF Next, Environment, Writer, DaemonFlush, DaemonDown, Unreachable, DaemonUp,
         Tick, Write, WriteRefused, HaveFile, CreateFails, DirectFails, Route, RrdcUpdate,
         RrdcBroken, RrdcRefused, RrdcNoReply, Direct, Shutdown, vars, dmn
<1>2. errors' = errors \/ errors' = errors + 1
  BY DEF Next, Environment, Writer, DaemonFlush, DaemonDown, DaemonUp,
         Tick, Write, WriteRefused, HaveFile, CreateFails, DirectFails, Route, RrdcUpdate,
         RrdcBroken, RrdcRefused, RrdcNoReply, Direct, Shutdown, vars, err
<1> QED
  BY <1>1, <1>2, ConstantsAssumption DEF Types

\* That remains so until the first outage.
LEMMA Reachable == Spec => [](ExitInv /\ (outages = 0 => ReachableInv))
<1>1. Init => ExitInv /\ (outages = 0 => ReachableInv)
  BY DEF Init, ReachableInv, ExitInv
<1>2. /\ Types /\ ConnInv /\ ExitInv /\ (outages = 0 => ReachableInv) /\ [Next]_vars
      => ExitInv' /\ (outages = 0 => ReachableInv)'
  <2> SUFFICES ASSUME Types, ConnInv, ExitInv, outages = 0 => ReachableInv, [Next]_vars
               PROVE  ExitInv' /\ (outages' = 0 => ReachableInv')
    OBVIOUS
  <2> USE DEF disk, dmn, err, hist, ExitInv
  <2>t. /\ queue \in [File -> Seq(Update)] /\ path \in File
        /\ conn \in {"closed", "open", "stale"}
    BY DEF Types
  <2>e. ExitInv'
    BY <2>t DEF Next, Environment, Writer, DaemonFlush, DaemonDown, Unreachable,
       DaemonUp, Tick, Write, WriteRefused, HaveFile, CreateFails, DirectFails, Return,
       Route, RrdcUpdate, RrdcBroken, RrdcRefused, RrdcNoReply, Direct, Shutdown, vars
  <2> SUFFICES ASSUME outages' = 0 PROVE ReachableInv'
    BY <2>e
  <2>0. outages = 0 /\ ReachableInv
    BY CountStep
  <2> USE DEF ReachableInv
  <2>1. ASSUME NEW f \in File, DaemonFlush(f) PROVE ReachableInv'
    BY <2>0, <2>t, <2>1 DEF DaemonFlush
  <2>2. CASE DaemonDown \/ RrdcNoReply
    BY <2>0, <2>2 DEF DaemonDown, RrdcNoReply, Unreachable
  <2>3. CASE DaemonUp \/ Tick \/ HaveFile \/ UNCHANGED vars
    BY <2>0, <2>3 DEF DaemonUp, Tick, HaveFile, vars
  <2>4. CASE \E f \in File : Write(f) \/ WriteRefused(f)
    BY <2>0, <2>4 DEF Write, WriteRefused
  <2>5. CASE CreateFails \/ DirectFails \/ Direct
    BY <2>0, <2>5 DEF CreateFails, DirectFails, Direct, Return
  <2>6. CASE Route \/ RrdcBroken \/ RrdcRefused
    BY <2>0, <2>t, <2>6 DEF Route, RrdcBroken, RrdcRefused
  <2>7. CASE RrdcUpdate
    BY <2>0, <2>t, <2>7 DEF RrdcUpdate, Return, ConnInv
  <2>8. CASE Shutdown
    BY <2>0, <2>t, <2>8 DEF Shutdown
  <2> QED
    BY <2>0, <2>1, <2>2, <2>3, <2>4, <2>5, <2>6, <2>7, <2>8 DEF Next, Environment, Writer
<1>3. IInv => Types /\ ConnInv
  BY DEF IInv
<1> QED
  BY <1>1, <1>2, <1>3, Invariant, PTL DEF Spec

\* Until the first outage or error reply there is no fallback.
LEMMA Steady == Spec => [](outages = 0 /\ errors = 0 => SteadyInv)
<1>1. Init => (outages = 0 /\ errors = 0 => SteadyInv)
  BY DEF Init, SteadyInv
<1>2. /\ Types /\ ExitInv /\ (outages = 0 => ReachableInv)
      /\ (outages = 0 /\ errors = 0 => SteadyInv) /\ [Next]_vars
      => (outages = 0 /\ errors = 0 => SteadyInv)'
  <2> SUFFICES ASSUME Types, ExitInv, outages = 0 => ReachableInv,
                      outages = 0 /\ errors = 0 => SteadyInv, [Next]_vars,
                      outages' = 0, errors' = 0
               PROVE  SteadyInv'
    OBVIOUS
  <2>0. outages = 0 /\ errors = 0 /\ ReachableInv /\ SteadyInv
    BY CountStep
  <2> USE DEF disk, dmn, err, hist, SteadyInv
  <2>1. CASE \E f \in File : DaemonFlush(f) \/ Write(f) \/ WriteRefused(f)
    BY <2>0, <2>1 DEF DaemonFlush, Write, WriteRefused
  <2>2. CASE DaemonDown \/ RrdcNoReply
    BY <2>0, <2>2 DEF DaemonDown, RrdcNoReply, Unreachable
  <2>3. CASE DaemonUp \/ Tick \/ HaveFile \/ Shutdown \/ UNCHANGED vars
    BY <2>0, <2>3 DEF DaemonUp, Tick, HaveFile, Shutdown, vars
  <2>4. CASE CreateFails \/ DirectFails \/ RrdcUpdate
    BY <2>0, <2>4 DEF CreateFails, DirectFails, RrdcUpdate, Return
  <2>5. CASE Route \/ RrdcBroken \/ RrdcRefused
    BY <2>0, <2>5 DEF Route, RrdcBroken, RrdcRefused, ReachableInv
  <2>6. CASE Direct
    <3>1. rrdcached = "none" /\ path \in File /\ queue[path] = <<>>
      BY <2>0, <2>6 DEF Direct, ReachableInv, Types
    <3>2. Ids(queue[path]) = {}
      BY <3>1 DEF Ids
    <3>3. overtaken' = {} /\ wpc' = "idle"
      BY <2>0, <2>6, <3>2 DEF Direct, Return
    <3> QED
      BY <3>3
  <2> QED
    BY <2>1, <2>2, <2>3, <2>4, <2>5, <2>6 DEF Next, Environment, Writer
<1>3. IInv => Types
  BY DEF IInv
<1> QED
  BY <1>1, <1>2, <1>3, Invariant, Reachable, PTL DEF Spec

\* Before the first outage or error reply no acknowledged sample is lost.
THEOREM SteadyNothingLost == Spec => []NothingLostBefore
<1>1. /\ IInv /\ (outages = 0 => ReachableInv) /\ (outages = 0 /\ errors = 0 => SteadyInv)
      => NothingLostBefore
  BY DEF IInv, ReachableInv, SteadyInv, LossExplained, NothingLost, NothingLostBefore
<1> QED
  BY <1>1, Invariant, Reachable, Steady, PTL

\* Before the first outage, and whatever error replies there were, the exit
\* leaves what was acknowledged and not overtaken on disk or in the flush that
\* writer_shutdown has begun.
THEOREM SteadyDurable == Spec => []DurableBefore
<1>1. IInv /\ ExitInv /\ (outages = 0 => ReachableInv) => DurableBefore
  <2> SUFFICES ASSUME IInv, ExitInv, ReachableInv, outages = 0, wpc = "exited",
                      flushall # "failed"
               PROVE  acked \subseteq stored \cup Flushing \cup overtaken
    BY DEF DurableBefore
  <2>1. acked \subseteq stored \cup Queued \cup overtaken
    BY DEF IInv, LossExplained, ReachableInv
  <2>2. CASE flushall = "started"
    BY <2>1, <2>2 DEF Flushing
  <2>3. CASE \A f \in File : queue[f] = <<>>
    <3>1. Queued = {}
      BY <2>3 DEF Queued, Ids
    <3> QED
      BY <2>1, <3>1
  <2> QED
    BY <2>2, <2>3 DEF IInv, Types, ExitInv, ReachableInv
<1> QED
  BY <1>1, Invariant, Reachable, PTL
=============================================================================
