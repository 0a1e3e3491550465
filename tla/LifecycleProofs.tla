--------------------------- MODULE LifecycleProofs ---------------------------
(***************************************************************************)
(* The life cycle, for every interval, timeout and bound.  The inductive   *)
(* invariant says where the time goes: how much of the interval has been   *)
(* slept (SleepInv), how much the main thread may still take (MainInv) and *)
(* how many more timeouts the /metrics thread may run into (HttpInv).      *)
(***************************************************************************)
EXTENDS Lifecycle, TLAPS

-----------------------------------------------------------------------------
(* Multiples of the timeout.                                               *)

Cost(k) == IoTimeout * k

\* k + 1 timeouts are one more than k.
LEMMA CostStep ==
    \A k \in Nat : Cost(k) \in Nat /\ Cost(k + 1) = Cost(k) + IoTimeout
  BY ConstantsAssumption DEF Cost

\* More timeouts take longer.
LEMMA CostMonotone == \A j, k \in Nat : j <= k => Cost(j) <= Cost(k)
  <1>1. SUFFICES ASSUME NEW j \in Nat, NEW k \in Nat, j <= k
                 PROVE  Cost(j) <= Cost(k)
    OBVIOUS
  <1>2. PICK d \in Nat : k = j + d
    BY <1>1, k - j \in Nat, k = j + (k - j)
  <1>3. IoTimeout * k = IoTimeout * j + IoTimeout * d
    BY <1>2, ConstantsAssumption
  <1>4. IoTimeout * j \in Nat /\ IoTimeout * d \in Nat
    BY ConstantsAssumption
  <1> QED BY <1>3, <1>4 DEF Cost

\* The bounds are numbers.
LEMMA Bounds ==
    /\ CollectorBound \in Nat /\ CollectorBound >= 1 /\ CollectorBound >= MaxWork
    /\ HttpBound \in Nat
    /\ HttpBound = PollTimeout + Cost(2 * MaxSends + MaxSignals)
    /\ ExitBound \in Nat /\ CollectorBound <= ExitBound /\ HttpBound <= ExitBound
  <1>1. CollectorBound \in Nat /\ CollectorBound >= 1 /\ CollectorBound >= MaxWork
    BY ConstantsAssumption DEF CollectorBound, Larger
  <1>2. 2 * MaxSends + MaxSignals \in Nat
    BY ConstantsAssumption
  <1>3. HttpBound = PollTimeout + Cost(2 * MaxSends + MaxSignals)
    BY DEF HttpBound, Cost
  <1>4. HttpBound \in Nat
    BY <1>2, <1>3, CostStep, ConstantsAssumption
  <1> QED BY <1>1, <1>3, <1>4 DEF ExitBound, Larger

-----------------------------------------------------------------------------
(* The inductive invariant.                                                *)

\* Until a signal comes, every second counted in s has really been slept.
SleepInv ==
    /\ mpc = "sleep" => s < Interval
    /\ g_running = 1 =>
          /\ mpc \in {"start", "test"} => rest >= Interval
          /\ mpc = "sleep_test" => rest >= s
          /\ mpc = "sleep" => rest + busy >= s + 1

\* The stop is counted from the signal, and the main thread cannot block again
\* once it has seen it, except to join a thread that was started.
MainInv ==
    /\ mpc \in {"flush", "join"} => g_running = 0
    /\ mpc = "join" => metrics_started = 1
    /\ metrics_started = 1 => hpc # "none"
    /\ g_running = 1 => stopping = 0
    /\ mpc \in {"start", "test", "sleep_test"} => stopping <= CollectorBound
    /\ mpc \in {"cycle", "sleep"} => stopping + busy <= CollectorBound

\* The calls of the /metrics thread that may each still take a whole timeout.
Owed ==
    CASE hpc = "poll"   -> 2 * MaxSends + 1
      [] hpc = "recv"   -> 2 * MaxSends
      [] hpc = "header" -> MaxSends + left - 1
      [] hpc = "body"   -> left - 1
      [] OTHER          -> 0

\* What has passed since the signal, and all that may still come, with one
\* more timeout for each signal that can interrupt a send, is within HttpBound.
HttpInv ==
    /\ hpc = "poll" => wait <= PollTimeout
    /\ hpc \in {"recv", "header", "body"} => wait <= IoTimeout
    /\ hpc \in {"header", "body"} => left >= 1
    /\ g_running = 0 /\ hpc \in {"poll", "recv", "header", "body"} =>
          stopping + wait + Cost(Owed + (MaxSignals - signals)) <= HttpBound

IInv == TypeOK /\ SleepInv /\ MainInv /\ HttpInv /\ ExitBounded

-----------------------------------------------------------------------------
(* Initial states and steps.                                               *)

\* The process starts in IInv.
LEMMA InitInv == Init => IInv
  BY ConstantsAssumption, Bounds
  DEF Init, IInv, TypeOK, SleepInv, MainInv, HttpInv, ExitBounded, Larger

\* Every step keeps the types.
LEMMA TypeStep == IInv /\ [Next]_vars => TypeOK'
  <1> SUFFICES ASSUME IInv, [Next]_vars PROVE TypeOK'
    OBVIOUS
  <1> USE ConstantsAssumption, Bounds DEF IInv, TypeOK
  <1>1. CASE Main
    BY <1>1 DEF Main, Start, LoopTest, CycleEnd, SleepTest, SleepEnd, Flush, Join, SleepInv,
       hvars, peers
  <1>2. CASE Http
    BY <1>2 DEF Http, HttpTest, PollTimedOut, Accept, RecvFails, SendFails, Again, Part,
       mvars, peers, Larger
  <1>3. CASE Peer
    BY <1>3 DEF Peer, Connect, Request, HangUp, Send, Again, Part, mvars, hvars, peers, Larger
  <1>4. CASE SignalMain \/ SignalHttp
    BY <1>4 DEF SignalMain, SignalHttp, Handled, Again, mvars, hvars, peers, Larger
  <1>5. CASE Tick
    BY <1>5 DEF Tick, Less, Larger
  <1>6. CASE Exited \/ UNCHANGED vars
    BY <1>6 DEF Exited, vars, mvars, hvars, peers
  <1> QED BY <1>1, <1>2, <1>3, <1>4, <1>5, <1>6 DEF Next

\* Every step keeps count of the interval and of the stop.
LEMMA MainStep == IInv /\ [Next]_vars => SleepInv' /\ MainInv'
  <1> SUFFICES ASSUME IInv, [Next]_vars PROVE SleepInv' /\ MainInv'
    OBVIOUS
  <1> USE ConstantsAssumption, Bounds DEF IInv, TypeOK, SleepInv, MainInv
  <1>1. CASE Main
    BY <1>1 DEF Main, Start, LoopTest, CycleEnd, SleepTest, SleepEnd, Flush, Join, hvars
  <1>2. CASE Http \/ Peer
    BY <1>2 DEF Http, HttpTest, PollTimedOut, Accept, RecvFails, SendFails, mvars, hvars,
       Again, Part, Peer, Connect, Request, HangUp, Send
  <1>3. CASE SignalMain \/ SignalHttp
    BY <1>3 DEF SignalMain, SignalHttp, Handled, Again, mvars, hvars
  <1>4. CASE Tick
    BY <1>4 DEF Tick, Less, MainBlocked
  <1>5. CASE Exited \/ UNCHANGED vars
    BY <1>5 DEF Exited, vars, mvars, hvars
  <1> QED BY <1>1, <1>2, <1>3, <1>4, <1>5 DEF Next

\* The timeouts that may still come, as a number.
LEMMA OwedType ==
    ASSUME TypeOK, HttpInv
    PROVE  /\ Owed \in Nat /\ MaxSignals - signals \in Nat
           /\ Owed + (MaxSignals - signals) \in Nat
  <1>1. Owed \in Nat
    BY ConstantsAssumption DEF TypeOK, HttpInv, Owed
  <1>2. MaxSignals - signals \in Nat
    BY ConstantsAssumption DEF TypeOK
  <1> QED BY <1>1, <1>2

\* Every step of the /metrics thread, its clients and the clock pays for the
\* time it may take from what is owed.
LEMMA HttpStep == IInv /\ [Next]_vars => HttpInv'
  <1> SUFFICES ASSUME IInv, [Next]_vars PROVE HttpInv'
    OBVIOUS
  <1> DEFINE k == Owed + (MaxSignals - signals)
             limits == /\ hpc = "poll" => wait <= PollTimeout
                       /\ hpc \in {"recv", "header", "body"} => wait <= IoTimeout
                       /\ hpc \in {"header", "body"} => left >= 1
             open == hpc \in {"poll", "recv", "header", "body"}
             due == stopping + wait + Cost(k) <= HttpBound
  <1>t. TypeOK /\ TypeOK' /\ HttpInv /\ MainInv
    BY TypeStep DEF IInv
  <1>k. k \in Nat /\ Cost(k) \in Nat
    BY <1>t, OwedType, CostStep
  <1>l. limits'
    BY <1>t, ConstantsAssumption
    DEF Next, Main, Start, LoopTest, CycleEnd, SleepTest, SleepEnd, Flush, Join,
        Http, HttpTest, PollTimedOut, Accept, RecvFails, SendFails, Again, Part,
        Peer, Connect, Request, HangUp, Send, SignalMain, SignalHttp, Handled, Tick, Less,
        Exited, vars, mvars, hvars, peers, TypeOK, HttpInv
  <1>g. SUFFICES ASSUME g_running' = 0, open' PROVE due'
    BY <1>l DEF HttpInv
  <1> HIDE DEF k, limits
  <1>k1. k' = Owed' + (MaxSignals - signals')
    BY DEF k
  <1>1. CASE UNCHANGED <<g_running, signals, hvars, stopping>>
    BY <1>1, <1>g, <1>t, <1>k1 DEF hvars, HttpInv, Owed, k
  <1>2. CASE Main /\ ~ UNCHANGED <<g_running, signals, hvars, stopping>>
    BY <1>2, <1>g, ConstantsAssumption
    DEF Main, Start, LoopTest, CycleEnd, SleepTest, SleepEnd, Flush, Join, hvars
  <1>3. CASE Accept
    <2>1. k = k' + 1 /\ wait' = IoTimeout /\ k' \in Nat
      BY <1>3, <1>g, <1>t, <1>k1, ConstantsAssumption DEF Accept, Again, Owed, k, TypeOK
    <2>2. Cost(k) = Cost(k') + IoTimeout /\ Cost(k') \in Nat
      BY <2>1, CostStep
    <2>3. stopping' = stopping /\ stopping + wait + Cost(k) <= HttpBound
      BY <1>3, <1>g, <1>t DEF Accept, HttpInv, k
    <2> QED BY <2>1, <2>2, <2>3, <1>t, Bounds, ConstantsAssumption DEF TypeOK
  <1>4. CASE HttpTest \/ PollTimedOut \/ RecvFails \/ HangUp
    BY <1>4, <1>g DEF HttpTest, PollTimedOut, RecvFails, HangUp, Again
  <1>5. CASE Request \/ Send \/ SendFails
    <2>1. wait' = IoTimeout /\ k' \in Nat /\ k' + 1 \in Nat /\ k' + 1 <= k
      <3>1. CASE Request
        BY <3>1, <1>t, <1>k1, ConstantsAssumption DEF Request, Part, Owed, k, TypeOK
      <3>2. CASE Send
        BY <3>2, <1>g, <1>t, <1>k1, ConstantsAssumption
        DEF Send, Part, Again, Owed, k, TypeOK
      <3>3. CASE SendFails
        BY <3>3, <1>g, <1>t, <1>k1, ConstantsAssumption
        DEF SendFails, Part, Again, Owed, k, TypeOK, HttpInv
      <3> QED BY <1>5, <3>1, <3>2, <3>3
    <2>2. Cost(k') + IoTimeout <= Cost(k) /\ Cost(k') \in Nat
      BY <2>1, <1>k, CostStep, CostMonotone
    <2>3. stopping' = stopping /\ stopping + wait + Cost(k) <= HttpBound
      BY <1>5, <1>g, <1>t DEF Request, Send, SendFails, HttpInv, k
    <2> QED BY <2>1, <2>2, <2>3, <1>t, <1>k, Bounds, ConstantsAssumption DEF TypeOK
  <1>6. CASE (SignalMain \/ SignalHttp) /\ g_running = 0
    <2>1. k = k' + 1 /\ k' \in Nat /\ (wait' = wait \/ wait' = IoTimeout)
      BY <1>6, <1>g, <1>t, <1>k1, ConstantsAssumption
      DEF SignalMain, SignalHttp, Handled, Again, hvars, Owed, k, TypeOK, HttpInv
    <2>2. Cost(k) = Cost(k') + IoTimeout /\ Cost(k') \in Nat
      BY <2>1, CostStep
    <2>3. stopping' = stopping /\ stopping + wait + Cost(k) <= HttpBound
      BY <1>6, <1>g, <1>t DEF SignalMain, SignalHttp, Again, hvars, HttpInv, k
    <2> QED BY <2>1, <2>2, <2>3, <1>t, Bounds, ConstantsAssumption DEF TypeOK
  <1>7. CASE (SignalMain \/ SignalHttp) /\ g_running = 1
    <2>1. stopping' = 0 /\ hpc' = hpc /\ left' = left /\ signals' = signals + 1
      BY <1>7, <1>g, <1>t DEF SignalMain, SignalHttp, Handled, Again, hvars, MainInv
    <2>2. k' \in Nat /\ k' + 1 \in Nat /\ (k' + 1 <= 2 * MaxSends + MaxSignals
                \/ (hpc = "poll" /\ k' <= 2 * MaxSends + MaxSignals))
      BY <2>1, <1>g, <1>t, <1>k1, ConstantsAssumption DEF Owed, TypeOK, HttpInv
    <2>3. CASE k' + 1 <= 2 * MaxSends + MaxSignals
      <3>1. Cost(k') + IoTimeout <= Cost(2 * MaxSends + MaxSignals) /\ Cost(k') \in Nat
        BY <2>2, <2>3, ConstantsAssumption,
           2 * MaxSends + MaxSignals \in Nat, CostStep, CostMonotone
      <3>2. wait' <= IoTimeout \/ wait' <= PollTimeout
        BY <1>g, <1>l DEF limits
      <3>3. Cost(2 * MaxSends + MaxSignals) \in Nat
        BY ConstantsAssumption, 2 * MaxSends + MaxSignals \in Nat, CostStep
      <3> QED BY <3>1, <3>2, <3>3, <2>1, <1>t, Bounds, ConstantsAssumption DEF TypeOK
    <2>4. CASE hpc = "poll" /\ k' <= 2 * MaxSends + MaxSignals
      <3>1. Cost(k') <= Cost(2 * MaxSends + MaxSignals) /\ Cost(k') \in Nat
        BY <2>2, <2>4, ConstantsAssumption, 2 * MaxSends + MaxSignals \in Nat,
           CostStep, CostMonotone
      <3>2. wait' <= PollTimeout
        BY <2>1, <2>4, <1>l DEF limits
      <3>3. Cost(2 * MaxSends + MaxSignals) \in Nat
        BY ConstantsAssumption, 2 * MaxSends + MaxSignals \in Nat, CostStep
      <3> QED BY <3>1, <3>2, <3>3, <2>1, <1>t, Bounds, ConstantsAssumption DEF TypeOK
    <2> QED BY <2>2, <2>3, <2>4
  <1>8. CASE Tick
    <2>1. k' = k /\ wait > 0 /\ wait' = wait - 1 /\ stopping' <= stopping + 1
      BY <1>8, <1>g, <1>t, <1>k1 DEF Tick, HttpBlocked, Less, Owed, k, TypeOK
    <2>2. stopping + wait + Cost(k) <= HttpBound
      BY <1>8, <1>g, <1>t DEF Tick, HttpInv, k
    <2> QED BY <2>1, <2>2, <1>k, <1>t, Bounds DEF TypeOK
  <1>9. CASE Connect \/ Exited \/ UNCHANGED vars
    BY <1>9, <1>1 DEF Connect, Exited, vars
  <1>10. g_running \in {0, 1}
    BY <1>t DEF TypeOK
  <1> QED BY <1>1, <1>2, <1>3, <1>4, <1>5, <1>6, <1>7, <1>8, <1>9, <1>10 DEF Next, Http, Peer

\* The main thread or the /metrics thread is within its bound, so that the
\* process is within the larger of the two.
LEMMA ExitStep == IInv /\ [Next]_vars => ExitBounded'
  <1> SUFFICES ASSUME IInv, [Next]_vars PROVE ExitBounded'
    OBVIOUS
  <1>t. TypeOK /\ MainInv /\ HttpInv /\ ExitBounded
    BY DEF IInv
  <1>1. CASE Tick
    <2>1. CASE mpc \in {"cycle", "sleep"} /\ busy > 0
      BY <1>1, <2>1, <1>t, Bounds DEF Tick, TypeOK, MainInv, ExitBounded
    <2>2. CASE mpc = "join" /\ hpc # "closed" /\ g_running = 0 /\ hpc # "none"
      <3>1. hpc \in {"poll", "recv", "header", "body"} /\ wait > 0
        BY <1>1, <2>2 DEF Tick, HttpBlocked
      <3>2. stopping + wait + Cost(Owed + (MaxSignals - signals)) <= HttpBound
        BY <2>2, <3>1, <1>t DEF HttpInv
      <3>3. Cost(Owed + (MaxSignals - signals)) \in Nat
        BY <1>t, OwedType, CostStep
      <3> QED BY <1>1, <3>1, <3>2, <3>3, <1>t, Bounds DEF Tick, TypeOK, ExitBounded
    <2>3. CASE g_running = 1
      BY <1>1, <2>3, <1>t DEF Tick, ExitBounded
    <2> QED BY <1>1, <2>1, <2>2, <2>3, <1>t DEF Tick, MainBlocked, TypeOK, MainInv
  <1>2. CASE ~ Tick
    <2>1. stopping' = stopping
      BY <1>2 DEF Next, Main, Start, LoopTest, CycleEnd, SleepTest, SleepEnd, Flush, Join,
        Http, HttpTest, PollTimedOut, Accept, RecvFails, SendFails,
        Peer, Connect, Request, HangUp, Send, SignalMain, SignalHttp, Exited, vars
    <2> QED BY <2>1, <1>t DEF ExitBounded
  <1> QED BY <1>1, <1>2

-----------------------------------------------------------------------------
(* Theorems.                                                               *)

\* IInv is an invariant.
THEOREM Invariant == Spec => []IInv
  <1>1. IInv /\ [Next]_vars => IInv'
    BY TypeStep, MainStep, HttpStep, ExitStep DEF IInv
  <1> QED BY InitInv, <1>1, PTL DEF Spec

\* Every variable keeps its type; in particular the loop of collect_run never
\* counts beyond the interval.
THEOREM TypeCorrect == Spec => []TypeOK
  <1>1. IInv => TypeOK
    BY DEF IInv
  <1> QED BY Invariant, <1>1, PTL

\* Whatever the interval and whichever thread gets the signals, a cycle never
\* starts before the interval after the last one has passed.
THEOREM Spacing == Spec => CyclesApart
  <1> DEFINE A == mpc = "test" /\ mpc' = "cycle" => rest >= Interval
  <1>1. IInv /\ [Next]_vars => [A]_vars
    <2> SUFFICES ASSUME IInv, Next, mpc = "test", mpc' = "cycle" PROVE rest >= Interval
      OBVIOUS
    <2>1. g_running = 1
      BY DEF Next, Main, Start, LoopTest, CycleEnd, SleepTest, SleepEnd, Flush, Join,
        Http, HttpTest, PollTimedOut, Accept, RecvFails, SendFails, mvars,
        Peer, Connect, Request, HangUp, Send, SignalMain, SignalHttp, Tick, Exited, vars
    <2> QED BY <2>1 DEF IInv, SleepInv
  <1> QED BY Invariant, <1>1, PTL DEF Spec, CyclesApart

\* The collection loop ends within the work of one cycle, or one sleep(1), of
\* the signal, for every number of clients and signals.
THEOREM PromptStop == Spec => []CollectorPrompt
  <1>1. IInv => CollectorPrompt
    BY Bounds DEF IInv, TypeOK, MainInv, CollectorPrompt
  <1> QED BY Invariant, <1>1, PTL

\* The process is gone within ExitBound seconds of the signal, for all values
\* of the timeouts, of the sends a response takes and of the signals sent.
THEOREM BoundedExit == Spec => []ExitBounded
  <1>1. IInv => ExitBounded
    BY DEF IInv
  <1> QED BY Invariant, <1>1, PTL
=============================================================================
