------------------------------ MODULE Lifecycle ------------------------------
(***************************************************************************)
(* The process: main.c starts the /metrics thread, runs the collection     *)
(* loop of collect.c and, once a signal has cleared g_running, flushes the *)
(* writer and joins the thread; http.c serves one client at a time with    *)
(* timeouts.  A signal may be delivered to either thread, between any two  *)
(* steps, and interrupts only the call that thread is blocked in.  Time    *)
(* passes, in seconds, when every thread is blocked: the work of a cycle,  *)
(* sleep, poll, recv and send are the calls that take time.  What a cycle  *)
(* does with its samples is in Snapshot and RrdWriter.                     *)
(***************************************************************************)
EXTENDS Naturals

CONSTANTS
    Interval,    \* cfg->interval: seconds between cycles
    PollTimeout, \* poll's timeout (1 s)
    IoTimeout,   \* SO_RCVTIMEO and SO_SNDTIMEO (5 s)
    MaxWork,     \* bound: seconds one pass over the readers takes
    MaxSends,    \* bound: send() calls that move one part of a response
    MaxSignals,  \* bound: SIGTERMs and SIGINTs sent to the process
    MaxConnects  \* bound: connections made in one second

ASSUME ConstantsAssumption ==
    /\ Interval \in Nat \ {0} /\ PollTimeout \in Nat \ {0} /\ IoTimeout \in Nat \ {0}
    /\ MaxWork \in Nat /\ MaxSends \in Nat \ {0} /\ MaxSignals \in Nat \ {0}
    /\ MaxConnects \in Nat

VARIABLES
    g_running,       \* 1, or 0 once a signal has been handled
    signals,         \* signals delivered so far
    \* the main thread
    mpc,             \* "start", "test", "cycle", "sleep_test", "sleep", "flush", "join", "exited"
    busy,            \* seconds left of the readers' work, or of sleep(1)
    s,               \* collect_run's count of seconds slept
    metrics_started, \* 1 if the /metrics thread must be joined
    \* the /metrics thread
    hpc,             \* "none", "test", "poll", "recv", "header", "body", "closed"
    wait,            \* seconds left before its blocking call times out
    left,            \* send() calls left in the part being sent
    \* its clients
    client,          \* 1 if a connection waits in the backlog
    connects,        \* connections made in this second
    \* history
    stopping,        \* seconds since g_running was cleared, counted to ExitBound + 1
    rest             \* seconds since the last cycle ended (Interval: long ago)

mvars == <<mpc, busy, s, metrics_started>>
hvars == <<hpc, wait, left>>
peers == <<client, connects>>
vars  == <<g_running, signals, mvars, hvars, peers, stopping, rest>>

Larger(a, b) == IF a >= b THEN a ELSE b
CollectorBound == Larger(MaxWork, 1)
HttpBound == PollTimeout + IoTimeout * (2 * MaxSends + MaxSignals)
ExitBound == Larger(CollectorBound, HttpBound)

TypeOK ==
    /\ g_running \in {0, 1} /\ signals \in 0..MaxSignals
    /\ mpc \in {"start", "test", "cycle", "sleep_test", "sleep", "flush", "join", "exited"}
    /\ busy \in 0..CollectorBound
    /\ s \in 0..Interval
    /\ metrics_started \in {0, 1}
    /\ hpc \in {"none", "test", "poll", "recv", "header", "body", "closed"}
    /\ wait \in 0..Larger(PollTimeout, IoTimeout)
    /\ left \in 0..MaxSends
    /\ client \in {0, 1} /\ connects \in 0..MaxConnects
    /\ stopping \in 0..ExitBound+1
    /\ rest \in 0..Interval

Init ==
    /\ g_running = 1 /\ signals = 0
    /\ mpc = "start" /\ busy = 0 /\ s = 0 /\ metrics_started = 0
    /\ hpc = "none" /\ wait = 0 /\ left = 0
    /\ client = 0 /\ connects = 0
    /\ stopping = 0 /\ rest = Interval

-----------------------------------------------------------------------------
(* The main thread.                                                        *)

\* main: http_metrics_start spawns the thread; without metrics_addr, or when it
\* fails, collection goes on without an endpoint.
Start ==
    /\ mpc = "start"
    /\ mpc' = "test"
    /\ \/ metrics_started' = 1 /\ hpc' = "test"
       \/ UNCHANGED <<metrics_started, hpc>>
    /\ UNCHANGED <<g_running, signals, busy, s, wait, left, peers, stopping, rest>>

\* collect_run: while (g_running), run every enabled reader once.
LoopTest ==
    /\ mpc = "test"
    /\ \/ /\ g_running = 1
          /\ mpc' = "cycle" /\ busy' \in 0..MaxWork
       \/ /\ g_running = 0
          /\ mpc' = "flush" /\ UNCHANGED busy
    /\ UNCHANGED <<g_running, signals, s, metrics_started, hvars, peers, stopping, rest>>

\* Mutant: the seconds slept are counted from 1.
CycleEndShort ==
    /\ mpc = "cycle" /\ busy = 0
    /\ mpc' = "sleep_test" /\ s' = 1 /\ rest' = 0
    /\ UNCHANGED <<g_running, signals, busy, metrics_started, hvars, peers, stopping>>

\* The readers are done and the snapshot is published.
CycleEnd ==
    /\ mpc = "cycle" /\ busy = 0
    /\ mpc' = "sleep_test" /\ s' = 0 /\ rest' = 0
    /\ UNCHANGED <<g_running, signals, busy, metrics_started, hvars, peers, stopping>>

\* Mutant: g_running is not tested between the seconds.
SleepTestBlind ==
    /\ mpc = "sleep_test"
    /\ \/ s < Interval /\ mpc' = "sleep" /\ busy' = 1
       \/ s >= Interval /\ mpc' = "test" /\ UNCHANGED busy
    /\ UNCHANGED <<g_running, signals, s, metrics_started, hvars, peers, stopping, rest>>

\* Mutant: one second too many.
SleepTestOver ==
    /\ mpc = "sleep_test"
    /\ \/ s <= Interval /\ g_running = 1 /\ mpc' = "sleep" /\ busy' = 1
       \/ /\ s > Interval \/ g_running = 0
          /\ mpc' = "test" /\ UNCHANGED busy
    /\ UNCHANGED <<g_running, signals, s, metrics_started, hvars, peers, stopping, rest>>

\* for (s = 0; s < interval && g_running; s++) sleep(1)
SleepTest ==
    /\ mpc = "sleep_test"
    /\ \/ s < Interval /\ g_running = 1 /\ mpc' = "sleep" /\ busy' = 1
       \/ /\ s >= Interval \/ g_running = 0
          /\ mpc' = "test" /\ UNCHANGED busy
    /\ UNCHANGED <<g_running, signals, s, metrics_started, hvars, peers, stopping, rest>>

\* Mutant: the seconds are not counted.
SleepEndUncounted ==
    /\ mpc = "sleep" /\ busy = 0
    /\ mpc' = "sleep_test"
    /\ UNCHANGED <<g_running, signals, busy, s, metrics_started, hvars, peers, stopping, rest>>

SleepEnd ==
    /\ mpc = "sleep" /\ busy = 0
    /\ mpc' = "sleep_test" /\ s' = s + 1
    /\ UNCHANGED <<g_running, signals, busy, metrics_started, hvars, peers, stopping, rest>>

\* writer_shutdown; main joins the thread only if it was started.
Flush ==
    /\ mpc = "flush"
    /\ mpc' = IF metrics_started = 1 THEN "join" ELSE "exited"
    /\ UNCHANGED <<g_running, signals, busy, s, metrics_started, hvars, peers, stopping, rest>>

Join ==
    /\ mpc = "join" /\ hpc = "closed"
    /\ mpc' = "exited"
    /\ UNCHANGED <<g_running, signals, busy, s, metrics_started, hvars, peers, stopping, rest>>

-----------------------------------------------------------------------------
(* The /metrics thread: metrics_thread, handle_conn, send_all.             *)

\* Back to while (g_running).
Again == hpc' = "test" /\ wait' = 0 /\ left' = 0

\* A part of the response is handed to send_all.
Part(pc) == hpc' = pc /\ wait' = IoTimeout /\ left' \in 1..MaxSends

\* Mutant: the loop does not look at g_running.
HttpTestForever ==
    /\ hpc = "test"
    /\ hpc' = "poll" /\ wait' = PollTimeout
    /\ UNCHANGED <<g_running, signals, mvars, left, peers, stopping, rest>>

\* while (g_running) poll; at the end the socket is closed.
HttpTest ==
    /\ hpc = "test"
    /\ \/ g_running = 1 /\ hpc' = "poll" /\ wait' = PollTimeout
       \/ g_running = 0 /\ hpc' = "closed" /\ UNCHANGED wait
    /\ UNCHANGED <<g_running, signals, mvars, left, peers, stopping, rest>>

PollTimedOut ==
    /\ hpc = "poll" /\ wait = 0 /\ client = 0
    /\ Again
    /\ UNCHANGED <<g_running, signals, mvars, peers, stopping, rest>>

\* poll reports the connection; accept takes it, or fails because the client
\* has gone.
Accept ==
    /\ hpc = "poll" /\ client = 1
    /\ client' = 0
    /\ \/ hpc' = "recv" /\ wait' = IoTimeout /\ UNCHANGED left
       \/ Again
    /\ UNCHANGED <<g_running, signals, mvars, connects, stopping, rest>>

\* The first bytes of a request arrive, whole or not: every answer, 200, 400,
\* 404 or 405, is a header and a body.
Request ==
    /\ hpc = "recv"
    /\ Part("header")
    /\ UNCHANGED <<g_running, signals, mvars, peers, stopping, rest>>

\* Mutant: no SO_RCVTIMEO, so that only a signal or the client ends the recv.
RecvFailsUntimed ==
    /\ hpc = "recv" /\ wait = 0
    /\ wait' = IoTimeout
    /\ UNCHANGED <<g_running, signals, mvars, hpc, left, peers, stopping, rest>>

\* recv times out: close without an answer.
RecvFails ==
    /\ hpc = "recv" /\ wait = 0
    /\ Again
    /\ UNCHANGED <<g_running, signals, mvars, peers, stopping, rest>>

\* The client hangs up, before its request or while it is answered: recv, or
\* every send() still to come, fails at once.
HangUp ==
    /\ hpc \in {"recv", "header", "body"}
    /\ Again
    /\ UNCHANGED <<g_running, signals, mvars, peers, stopping, rest>>

\* send() moves some bytes: one call less is left, and the next one has the
\* whole timeout again.  The body may be empty (a scrape of no samples).
Send ==
    /\ hpc \in {"header", "body"}
    /\ \/ left > 1 /\ left' = left - 1 /\ wait' = IoTimeout /\ UNCHANGED hpc
       \/ left = 1 /\ hpc = "header" /\ Part("body")
       \/ left = 1 /\ Again
    /\ UNCHANGED <<g_running, signals, mvars, peers, stopping, rest>>

\* send() times out and send_all gives up.  Its result is ignored: after a
\* failed header the body is still tried.
SendFails ==
    /\ hpc \in {"header", "body"} /\ wait = 0
    /\ (hpc = "header" /\ Part("body")) \/ Again
    /\ UNCHANGED <<g_running, signals, mvars, peers, stopping, rest>>

-----------------------------------------------------------------------------
(* Signals, clients and time.                                              *)

Alive == mpc # "exited"

\* on_signal.
Handled == signals < MaxSignals /\ signals' = signals + 1 /\ g_running' = 0

\* on_signal runs on the main thread: sleep(1) returns early; the other calls
\* of that thread go on (pthread_join does not return EINTR).
SignalMain ==
    /\ Alive /\ Handled
    /\ busy' = IF mpc = "sleep" THEN 0 ELSE busy
    /\ UNCHANGED <<mpc, s, metrics_started, hvars, peers, stopping, rest>>

\* on_signal runs on the /metrics thread: poll and recv fail, which ends the
\* iteration; send_all retries its send() with the whole timeout.
SignalHttp ==
    /\ Alive /\ Handled /\ hpc \notin {"none", "closed"}
    /\ \/ hpc \in {"poll", "recv"} /\ Again
       \/ hpc \in {"header", "body"} /\ wait' = IoTimeout /\ UNCHANGED <<hpc, left>>
       \/ hpc = "test" /\ UNCHANGED hvars
    /\ UNCHANGED <<mvars, peers, stopping, rest>>

Connect ==
    /\ Alive /\ metrics_started = 1 /\ client = 0 /\ connects < MaxConnects
    /\ client' = 1 /\ connects' = connects + 1
    /\ UNCHANGED <<g_running, signals, mvars, hvars, stopping, rest>>

MainBlocked ==
    \/ mpc \in {"cycle", "sleep"} /\ busy > 0
    \/ mpc = "join" /\ hpc # "closed"

HttpBlocked ==
    \/ hpc \in {"none", "closed"}
    \/ hpc = "poll" /\ client = 0 /\ wait > 0
    \/ hpc \in {"recv", "header", "body"} /\ wait > 0

Less(t) == IF t = 0 THEN 0 ELSE t - 1

Tick ==
    /\ MainBlocked /\ HttpBlocked
    /\ busy' = Less(busy) /\ wait' = Less(wait) /\ connects' = 0
    /\ stopping' = IF g_running = 0 /\ stopping <= ExitBound THEN stopping + 1 ELSE stopping
    /\ rest' = IF rest < Interval THEN rest + 1 ELSE rest
    /\ UNCHANGED <<g_running, signals, mpc, s, metrics_started, hpc, left, client>>

Exited == mpc = "exited" /\ UNCHANGED vars

Main == Start \/ LoopTest \/ CycleEnd \/ SleepTest \/ SleepEnd \/ Flush \/ Join
Http == HttpTest \/ PollTimedOut \/ Accept \/ RecvFails \/ SendFails
Peer == Connect \/ Request \/ HangUp \/ Send

Next == Main \/ Http \/ Peer \/ SignalMain \/ SignalHttp \/ Tick \/ Exited

Spec == Init /\ [][Next]_vars

\* Each thread is scheduled and time passes.  Clients promise nothing: they may
\* connect and stay silent, or take a byte now and then.
Fairness == WF_vars(Main) /\ WF_vars(Http) /\ WF_vars(Tick)

LiveSpec == Spec /\ Fairness

-----------------------------------------------------------------------------
(* Properties.                                                             *)

\* A pass over the readers starts at least Interval seconds after the last one
\* ended: what wakes the sleep of collect_run early also ends the loop.  The
\* writer relies on it: no file gets two updates in one second.
CyclesApart == [][mpc = "test" /\ mpc' = "cycle" => rest >= Interval]_vars

\* Whatever the clients of the endpoint do, collection stops within the work of
\* one cycle or one sleep(1) of the signal, even if the signal is delivered to
\* the other thread or between a test of g_running and the sleep.
CollectorPrompt ==
    mpc \in {"start", "test", "cycle", "sleep_test", "sleep"} => stopping <= CollectorBound

\* The process is gone within a bounded time of the signal: the one connection
\* that may still be accepted cannot hold the thread, and so the join of main,
\* beyond the timeouts of its recv and of each of its send() calls.
ExitBounded == stopping <= ExitBound

\* After a signal the process exits: no thread waits for ever on the other, on
\* a client, or on a flag it has stopped testing.
StopLeadsToExit == g_running = 0 ~> mpc = "exited"

\* A silent or slow client does not stall the loop: a waiting one is accepted.
ClientAccepted == client = 1 ~> client = 0 \/ hpc = "closed"

\* Until a signal comes, collection goes on: after a sleep there is a cycle.
CollectionGoesOn == mpc = "sleep" ~> mpc = "cycle" \/ g_running = 0
=============================================================================
