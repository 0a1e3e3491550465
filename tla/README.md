# svgd-collect: TLA+ models, checks and proofs

svgd-collect samples `/proc` every few seconds, writes each value to an RRD file
(directly or through `rrdcached`) and, optionally, serves the last samples to
Prometheus from a second thread. This directory models the parts of it whose
correctness depends on order, failure and time, checks them with TLC and proves
the main properties with TLAPS for every value of the parameters.

## The system

| Part | State | Operations | Interacts with |
|---|---|---|---|
| `main.c`, `collect.c` | `g_running`, the loop counters | start, one pass over the readers per interval, interruptible sleep, shutdown, join | readers, writer, snapshot; signals |
| `http.c` | listening socket, one connection | poll, accept, recv, two sends, all with timeouts | snapshot (`prom_render`), clients |
| `prom.c` snapshot | two buffers, `g_lock` | begin, add, publish (swap), render (copy under the lock) | shared by the two threads |
| `prom.c` text | none | families, labels, escaping | types table |
| `writer_rrd.c` | librrd's global connection, the files | create, update through the daemon or directly, flush at exit | librrd, rrdcached |
| `registry.c`, `config.c` | the enabled list | parse the `readers` array, resolve it | collect loop |
| readers | `cpu.c` keeps the last sample, the others nothing | parse one source, emit metrics | kernel |
| `types.c`, `rra.c`, `path.c`, `log.c` | none | tables, argument and path building, stderr | writer, text |

What is hard here, and what makes each part correct:

- *Two threads on two buffers* (`prom.c`): the swap recycles the old buffer while
  a scrape may be copying it, and every allocation may fail. A scrape must show
  one published cycle, whole; the served buffer must not be written; nothing may
  be overrun, leaked or left locked.
- *A daemon that goes away* (`writer_rrd.c`): samples wait in its queue while a
  fallback, after an outage or an error reply, writes newer ones to the same file,
  which takes only newer updates.
  Which samples can be lost must be known, and none for another reason.
- *Signals, sleeps and slow clients* (`main.c`, `collect.c`, `http.c`): a signal
  wakes only the thread it is delivered to. Collection must stop at once, the
  process in bounded time, and cycles must not come too close together.
- *One recv per request, results of send ignored* (`http.c`): requests come in
  segments and answers leave in pieces. The answer must fit what was read, a
  client must have an exact beginning of it wherever its header got through, and
  no failing start or client may leave a descriptor behind.
- *State between passes* (`cpu.c`, `collect.c`, `rra.c`): the percentage is made of
  two passes, of which some fail, and of counters that may go back; a file
  expects an update within the heartbeat, whatever the interval is, and only one
  in a second, whatever the names of the mounts are.
- *A moving `/proc`* (`processes.c`): processes end, are renamed and replaced
  between three reads, any of which may fail. Counts must stay meaningful.
- *Fixed tables and duplicates* (`config.c`, `registry.c`): a reader must run
  exactly once per interval or not at all.

## Modules

| Module | Models |
|---|---|
| `AtomicSnapshot` | what the snapshot promises: publish and scrape are instants |
| `Snapshot` | `prom_snapshot_begin/add/publish`, `prom_render`, one step per access to shared state |
| `RrdWriter` | `writer_write`, `writer_update`, `writer_shutdown`; librrd, rrdcached and the clock around them |
| `Lifecycle` | `main`, `collect_run`, `metrics_thread`, `handle_conn`, `send_all`; signals, clients, seconds |
| `Startup` | the `readers` array of `config_load`, `collect_build_enabled` |
| `Processes` | `processes_read` against the kernel |
| `PromText` | `render_to_dstring`, the rules of `prom.c`, the table of `types.c` |
| `CpuReader` | `cpu_read`: the state it keeps between passes, the kernel's counters |
| `Collect` | a cycle of `collect_run`: the eleven readers, `emit_cb`, `metric_to_path`, the age of the files; extends `CpuReader` |
| `Endpoint` | `http_metrics_start`, `make_listener`, `parse_addr`, `metrics_thread`, `handle_conn`, `send_all`: text, descriptors and memory |
| `MC*` | the instances TLC checks |
| `SnapshotProofs`, `WriterProofs`, `LifecycleProofs`, `StartupProofs`, `ProcessesProofs`, `TextProofs`, `CollectProofs`, `EndpointProofs` | theorems |

**Snapshot.** `items[b]`/`cap[b]` are the entries and the capacity of buffer `b`,
`heap` the allocated buffers. A sample is a metric and the cycle it was read in:
the value itself is never looked at. `cpc` and `hpc` are the positions of the two
threads; the `memcpy` of `prom_render` is one step per entry. `cur`, `pub` and
`seen` record what the readers emitted and whether an allocation failed; no
action's guard looks at more of them than the bound on emits. `Atomic` maps a publish
to the swap and a scrape to the moment it takes the lock. A failed reallocation
of the text may shorten it, down to a null pointer (`prom.h` line 29 says "never
NULL": that is so only while `malloc(1)` succeeds, and `http.c` tests for it).

**RrdWriter.** A file accepts only updates newer than its last one (one-second
resolution). The daemon keeps a queue per file, flushes when it likes, and
becomes unreachable up to `MaxOutages` times; its queues survive or not (`Fates`).
librrd notices a lost connection at its next call (`conn = "stale"`). The daemon
may take an update and not answer (`RrdcNoReply`), or answer with an error over a
connection that stays (`RrdcRefused`, up to `MaxErrors` times): either way the
sample goes to the file directly, past what is queued. That direct update may be
refused as too old, or fail for another reason (`DirectFails`). `FLUSHALL` at exit
only starts the daemon's flush: `flushall` says whether it was started or failed,
`Flushing` what is then still to be written, and the daemon goes on after the
writer has exited. What becomes of a daemon that stops in the middle of that last
flush is not followed. A file is written at most once
in a second: `CyclesApart`, `EnabledOnce` and `SharedFileExplained` are the reason.
The twins that `SharedFileExplained` excepts are outside this module: librrd or the
daemon refuses the second of them, and with a daemon it is then tried directly,
ahead of what is queued, like the fallback of run `writer_loss`.

**Lifecycle.** Time is counted in seconds and passes when both threads are
blocked. `busy` is what is left of a pass over the readers or of `sleep(1)`,
`wait` what is left before the `poll`, `recv` or `send` of the endpoint times
out. A signal runs on either thread. `stopping` counts from the moment
`g_running` is cleared, `rest` from the end of the last cycle. Writing to the
RRDs is part of the work of a cycle; the flush at exit, a call without a timeout
to a daemon that may be slow to answer, takes no time here. An
`accept` that fails because descriptors have run out (it would spin) and one
that blocks because the connection was withdrawn after `poll` (Linux leaves it in
the queue) are left out.

**Startup.** `names` is the array of the file, `readers` the table of 16 slots,
`out` the list; names stand for whole strings.

**Processes.** `name[p]` and `cpu[p]` are the files of process `p`; `comm` and
`utime` what the reader has read so far. A slot exists when its `proc_count` is
positive. A pass skips a process that has ended (`Vanished`) and one that is there
but whose file cannot be opened, read or parsed (`ReadFails`, up to `MaxSkips`
processes a pass; `skipped` records which). An `opendir` that fails (the pass emits
nothing) and a `readdir` that ends early (indistinguishable from the end of the
listing, and worth any number of skips) are left out.
`alive`, `named`, `touched`, `gone` record what happened during the
pass; `alive` also says which entries `readdir` cannot miss. `upto[c][n]` is what
the entries up to `n` added to slot `c`, `upto_before` and `gone_before` the same
of the pass before: histories, which no guard looks at, from which
`RegressExplained` is stated and proved.

**PromText.** `ms` is the copy of the snapshot, `e` the entries, `lines` the text: a
line is its kind, family and label set (the sample lines also carry the type and
the data source, for the properties). `FamilyOrder` lists the families in the
order of `strcmp`; equal keys come out of `qsort` in any order. A failed
allocation drops a line or cuts its labels short (`"spoiled"`), and later lines
may succeed: the comment at `prom.c` 195 ("further appends become no-ops") holds
only while `realloc` keeps failing. Equal metrics may be staged: `df.c` does that for
mounts that share an instance name ("/mnt/c" and "/mnt-c"; `Collect` says which
mounts those are), and a scrape then has one series twice, which Prometheus
rejects. `SeriesDistinct` says that the text adds no such case of its own: a series
comes twice only if a metric did. Of the metrics that may come, the
assumption says what the readers guarantee: the number of values is that of the
type, and the plugins without instances have none.

**CpuReader.** The ten fields are three counters: `busy` is the sum of the eight
that are neither idle nor iowait, and it only grows; `idle` and `iowait` may go
back, as the kernel's do. A sample is the pair of differences whose quotient is
shown. `first`, `accounted`, `dropped`, `seen` and `back` are histories.

**Collect.** A source is what its reader's `scanf` gets out of it: a list of lines
with the number of fields and the names. Each reader is a function from its
source to the metrics it emits, in order; values are left out. `Read` runs one
reader with all its `emit_cb`s, of whose writes one (a path that is too long, an
unknown type, a damaged file) or all (a full disk) may fail. An allocation that
fails in `prom_snapshot_add` is in `Snapshot` only; `Delay` is time lost between two readers.
The output of a reader with several metrics a line is written down by position:
metric number `t` is part `Part(n, t)` of line `Place(n, K, t)`, `K` being the
lines it keeps. `SourcesAssumption` says what the kernel and the registry
guarantee of them: a reader is enabled at most once (`EnabledOnce`), an interface, a disk
and a zone are listed once, the table of `processes.c` has a slot for each name,
and a mount point on which `statvfs` succeeds is absolute.
`age[p]` is the time since the last update of file `p`. What the module shows of
the code besides its properties: with the interval of 10 seconds of the example
at `README.md` line 42, equal to the heartbeat, one lost second makes a hole; and
"root", chosen in `df.c` 38-39 because an empty instance "would be ambiguous", is
shared by "/" and "/root".

**Endpoint.** Text is a sequence of pieces, so that a segment may end inside a word
(`SP` is the blank between words; a method and a path have none);
what matters is where words begin and end and what they are compared with. `fds`
and `heap` are what is open and allocated. One client at a time is followed; the
others wait in the backlog. Header and body leave in pieces, both through
`send_all`; `failed` records which of the two sends gave up. The code looks at
neither result: behind a header cut short the body is sent all the same, and the
client then has a gap (`StreamExact` says that this is the only way to one). A
close with bytes
unread, or a request that goes on behind the buffer, resets the connection, which
may cost the client any end of the answer. A null pointer from `prom_render` is a
200 with an empty body, as in the code. The request line "GET /metrics" whose
first segment ends behind the slash is answered as "/": `AnswerFits` states what
is answered to which first segment. Times are in `Lifecycle`.

## Runs

| Run | Checks | Result |
|---|---|---|
| `snapshot` | `MemorySafe`, `BuffersOwned`, `ScrapeExact`, `PublishedImmutable`, `ImplementsAtomic` | hold |
| `snapshot_live` | `ScrapeAnswered`, `CycleCompletes` | hold |
| `writer_outage` | `LossExplained`, `RejectedOnlyIfStored`, `NothingLostBefore`, `DurableBefore` | hold |
| `writer_loss` | `NothingLost` with one outage | violated |
| `writer_exit` | `DurableAtExit` with one outage | violated |
| `lifecycle` | `CollectorPrompt`, `ExitBounded`, `CyclesApart`, `StopLeadsToExit`, `ClientAccepted`, `CollectionGoesOn` | hold |
| `startup` | `EnabledOnce`, `EnabledExact` | hold |
| `processes` | `CountBounded`, `RegressExplained` | hold |
| `process_counter` | `CounterMonotone` | violated |
| `prom_text` | `FamiliesAnnounced`, `TypesRight`, `SeriesDistinct`, `AllShown` | hold |
| `collect` | `BusyAccounted`, `PercentExplained`, `SharedFileExplained`, `GapExplained`, `ShownAsRead` | hold |
| `endpoint` | `DescriptorsOwned`, `AnswerFits`, `StreamExact` | hold |

What the violations show:

1. `writer_loss`: sample 1 is queued by the daemon, the daemon becomes
   unreachable, sample 2 goes to the file directly; when the daemon flushes
   sample 1 it is older than the file's last update and refused. The comment at
   `writer_rrd.c` 116-117 and the README say that no sample is lost. An error
   reply of a daemon that is there has the same effect (`writer_outage` has it,
   and `NothingLostBefore` therefore excludes both).
   `LossExplained` says that this, and a daemon that dies with its queue, are the
   only ways.
2. `writer_exit`: the same outage, then an exit while the daemon is back. The
   connection is closed or stale, so `writer_shutdown` skips or fails the flush and
   the samples are neither on disk nor being written;
   `collect.c` 58-59 says "durable before exit".
3. `process_counter`: `ps_cputime` sums over the processes alive now and falls
   when one of them ends, although it is a `DERIVE` and shown as a counter.
   `RegressExplained` says that otherwise only a new name, or a process that the
   later pass could not read, makes it fall.

The comment at the top of `http.c` (the thread notices the end "within ~1s") is
true of an idle endpoint only: the bound of `ExitBounded`,
`PollTimeout + IoTimeout * (2 * MaxSends + MaxSignals)`, is reached, because a
client accepted in the last second costs one timeout for its request, one for
every short write of header and body, and one for every signal that interrupts a
send.

### Bounds

- `snapshot`: three addresses for at most two buffers, capacity 1 so that the
  second add grows a buffer, three cycle tags (collected, published, rendered),
  one metric with a rule and one without.
- `writer_*`: four seconds, four samples and two outages let a file be created,
  queued, overtaken, flushed late, and the same again; one error reply, to an
  update or to `FLUSHALL`; two files keep the queues apart and a third belongs to a
  metric that is refused. The two violations need no error reply and are shown
  without (`MaxErrors = 0`).
- `lifecycle`: the real timeouts and the default interval; two signals, so that
  both threads get one; two connections a second; two sends for each part.
- `startup`: four readers, four slots, five names: duplicates, an unknown name,
  one name too many.
- `processes`: two process numbers (used again), two names for one slot, CPU times
  of 0 and 1, both processes unreadable in a pass if need be. `process_counter` has
  no unreadable process: the counter falls without.
- `prom_text`: a metric of every rule, two of the families with several, and one
  without a rule, in every order of up to three, repeats included: two of a family
  with another between them, one metric twice or three times; one failed
  allocation, which may cost one line or the `HELP` and `TYPE` lines together.
- `collect`: all eleven readers, each with a usual source and one to five unusual
  ones (missing, cut short, denied, colliding, the other states); any two unusual
  events in three cycles, which is a failed pass between two good ones, twins, or
  a failed write and a delay. Delays of one and six seconds with the default
  interval of five stay within the heartbeat or exceed it.
- `endpoint`: two results of `getaddrinfo`; requests for every answer, a long one
  that fills the buffer and one without a path, cut anywhere; a header of two pieces
  and a body of up to three, each of whose sends may be short or fail; one
  interrupted send; two connections.

`CHECK_DEADLOCK FALSE` stands in the writer's configurations only: there the
process ends. Symmetry is used in the runs without liveness.

### Fairness

`Snapshot!LiveSpec`: each thread keeps running; `g_lock` is given in the end to a
thread that keeps asking (strong fairness), since its holders copy a finite array
and pause between two acquisitions. New scrapes are not assumed.
`Lifecycle!LiveSpec`: the two threads run and time passes; clients are assumed to
do nothing. Nothing fair is assumed of signals.

## Proofs

| Theorem | Statement |
|---|---|
| `SnapshotProofs!TypeCorrect`, `MemorySafety`, `Ownership`, `Exactness` | `Spec => []TypeOK`, `[]MemorySafe`, `[]BuffersOwned`, `[]ScrapeExact` |
| `SnapshotProofs!Immutability`, `Refinement` | `Spec => PublishedImmutable`, `Spec => ImplementsAtomic` |
| `WriterProofs!TypeCorrect`, `LossOnlyByFallback`, `NoRejection` | `Spec => []TypeOK`, `[]LossExplained`, `[]RejectedOnlyIfStored` |
| `WriterProofs!SteadyNothingLost`, `SteadyDurable` | `[]NothingLostBefore`, `[]DurableBefore` |
| `LifecycleProofs!TypeCorrect`, `PromptStop`, `BoundedExit`, `Spacing` | `[]TypeOK`, `[]CollectorPrompt`, `[]ExitBounded`, `CyclesApart` |
| `StartupProofs!TypeCorrect`, `AtMostOnce`, `RightList` | `[]TypeOK`, `[]EnabledOnce`, `[]EnabledExact` |
| `CollectProofs!BusyTimeAccounted`, `PercentInRange`, `HeartbeatKept` | `[]BusyAccounted`, `[]PercentExplained`, `[]GapExplained` |
| `CollectProofs!TypeCorrect`, `SharingExplained`, `SnapshotAsRead` | `[]TypeOK`, `[]SharedFileExplained`, `[]ShownAsRead` |
| `ProcessesProofs!TypeCorrect`, `Counts`, `Regress` | `[]TypeOK`, `[]CountBounded`, `RegressExplained` |
| `TextProofs!TypeCorrect`, `GroupsRight`, `TypesFit` | `[]TypeOK`, `[]FamiliesAnnounced`, `[]TypesRight` |
| `TextProofs!SeriesTell`, `NothingMissing` | `[]SeriesDistinct`, `[]AllShown` |
| `EndpointProofs!TypeCorrect`, `NothingLeaks`, `AnswersRight`, `StreamRight` | `[]TypeOK`, `[]DescriptorsOwned`, `[]AnswerFits`, `[]StreamExact` |

Each rests on an inductive invariant and on the named assumptions on the constants
of its module, nothing else.

- *Snapshot*: `ScrapeExact` says something of a finished scrape only. The
  invariant adds who holds the lock in which state (`LockInv`), that each buffer
  belongs to one pointer (`OwnInv`), that contents fit (`CapInv`), that the
  staging buffer holds part of what was emitted (`StagedInv`), the published one
  what its cycle emitted (`PublishedInv`), and that the copy is a prefix of the
  buffer it is made from (`ScrapeInv`).
- *Writer*: queues are ordered in time and newer than nothing that is to come
  (`QueueInv`), a queued sample older than its file has been overtaken
  (`OvertakenInv`), and a direct update meets either a file older than now or the
  sample it carries (`DirectInv`). Without an outage the connection is never
  stale and what is queued is queued behind an open one (`ReachableInv`); without
  an error reply either, a writer with a daemon makes no direct update (`SteadyInv`);
  and an exited writer has let go of the connection (`ExitInv`).
- *Lifecycle*: every second counted by the sleep loop has passed (`SleepInv`), the
  main thread cannot block again once it has been told to stop (`MainInv`), and
  elapsed time plus all the timeouts the endpoint may still run into stays within
  the bound (`HttpInv`, with `Owed` counting the calls).
- *Startup*: the table copies the first names, and the list is built from the
  entries handled so far, each at its first mention (`Built`).
- *Collect*: the state of the cpu reader is that of the counters it read last and
  `busy` has only grown since (`CpuInv`); a file updated in this cycle is no older
  than the seconds lost in it, one of the cycle before no older than both cycles'
  lost seconds and the interval (`Fresh` in `AgeInv`). `HeartbeatKept` looks into no
  reader: it holds for whatever they emit. The other results do look: for each of
  the eleven readers a lemma says that its metrics are its own and that no two of
  them have the same path, from the names its source lists once, and for `df.c` that
  two metrics with one path are of two mounts that `SameInstance` names
  (`EmittedIs`). Hence the files updated in a cycle are those of readers that have
  run in it (`FileInv`), so that no reader meets another's, and what is staged is
  what they emitted, put together reader by reader (`ShowInv`). That this is
  `FlattenSeq` of their outputs is an induction; it is done by taking the least
  position at which the two differ (`Least`, `Flat`).
- *Processes*: a slot lies between those who stayed under its name and those who
  ever bore it, entry by entry (`CountInv`, up to `DoneUpTo`), and a name for which
  there is still room has missed nobody (`Room`: without it the lower bound is
  false once the table is full); a process that could not be read is on neither side
  (`Kept`). For the counter the invariant compares partial
  sums of two passes: each entry added no more than the process that is still
  there has used (`KeptInv`), and this pass has caught up with the last one as far
  as it has come (`BeforeInv`).
- *Text*: the entries are the metrics with a rule, each once, in the order of their
  families (`EntryInv`; that a sort of `n` entries misses none is an injection of a
  finite set into itself). The lines have families of a rank up to the current
  entry's, in groups, announced first (`TextInv`), and the samples are those of the
  data sources that have had their turn (`SampleInv`). `SeriesTell` needs that
  the labels of each rule tell two metrics of the same family apart, rule by rule
  (`Distinct`), and that two equal entries stand for two equal staged metrics
  (`Doubles`), through the scan and any order of the sort.
- *Endpoint*: what is open and allocated at each step (`StartInv`, `ThreadInv`),
  and that a socket is bound only for a result not yet tried; that the thread
  handles the client that is connected and answers once (`ConnInv`); how much of the
  header or the body `send_all` has handed over (`OffInv`); that, unless the send of
  the header failed, what was written is the answer as far as it goes, what the client has is what was written
  as far as it goes, and how far that is while the client stays (`StreamInv`). For
  `AnswersRight`, lemmas find the words of a request in any beginning of its text.

Model-checked only: the liveness properties (`ScrapeAnswered`, `CycleCompletes`,
`StopLeadsToExit`, `ClientAccepted`, `CollectionGoesOn`), which are outside the
prover's reach. Every invariant and every action property of a passing run has a
theorem.

## Not modelled

- The rows of `rra_args` and `dst_str`: a function of constants and of the number
  of data sources, which its unit test evaluates completely.
- The values of metrics other than the cpu percentage and the CPU time of
  processes; number formatting (`fmt_values`), escaping of labels, the characters
  of a line, widths of `scanf` fields.
- `mkdirp`, logging, `prom_render_metrics` (a test helper without shared state),
  socket options.

## Plan

1. Done: `Snapshot`, `RrdWriter`, `Lifecycle`, `Startup`, `Processes`, `PromText`,
   `CpuReader`, `Collect`, `Endpoint`, and a theorem for each of their safety
   properties.
2. Theorems between the modules: that what `Collect` emits satisfies the assumption
   of `PromText`, and that the list `Startup` builds satisfies that of `Collect`.
