--------------------------- MODULE EndpointProofs ---------------------------
(***************************************************************************)
(* The endpoint leaves nothing behind, answers what was asked and sends    *)
(* the answer whole, for any number of addresses, requests and connections *)
(* and wherever segments end and sends stop short.                         *)
(***************************************************************************)
EXTENDS Endpoint, SequenceTheorems, TLAPS

\* What is open and allocated at each step of the start, while no thread runs ...
StartInv ==
    /\ pc \in {"parse", "failed"} => fds = {} /\ heap = {}
    /\ pc = "socket" => fds = {} /\ heap = {"res"}
    /\ pc = "bind" => fds = {sfd} /\ heap = {"res"}
    /\ pc = "listen" => fds = {sfd} /\ heap = {}
    /\ pc = "create" => fds = {sfd} /\ heap = {"fdp"}

\* ... and at each step of the thread.  Descriptor 0 is the connection's.
ThreadInv ==
    /\ hpc = "new" => fds = {sfd} /\ heap = {"fdp"}
    /\ hpc \in {"test", "poll", "accept"} => fds = {sfd} /\ heap = {}
    /\ hpc = "recv" => fds = {sfd, 0} /\ heap = {}
    /\ hpc \in {"header", "body", "close"} => fds = {sfd, 0} /\ heap \subseteq {"body"}
    /\ hpc = "ended" => fds = {} /\ heap = {}

\* Every step knows what it holds.
OwnInv ==
    /\ rp \in Nat /\ sfd \in Int
    /\ pc \in {"bind", "listen", "create", "started"} => sfd # 0
    /\ pc = "bind" => rp > 0
    /\ pc # "started" => hpc = "none" /\ StartInv
    /\ pc = "started" => hpc # "none" /\ ThreadInv
    /\ pc \in {"parse", "socket", "bind", "listen", "create", "failed", "started"}

\* The steps of http_metrics_start and make_listener keep the account.
LEMMA StartPreserves == OwnInv /\ Starting => OwnInv'
<1> SUFFICES ASSUME OwnInv, Starting PROVE OwnInv'
  OBVIOUS
<1> USE DEF OwnInv, StartInv, ThreadInv, thread
<1>1. CASE ResolveFails \/ NoneBound
  BY <1>1 DEF ResolveFails, NoneBound
<1>2. ASSUME NEW n \in 0..MaxResults, Resolve(n) PROVE OwnInv'
  BY <1>2 DEF Resolve
<1>3. CASE Socket
  BY <1>3 DEF Socket
<1>4. CASE SocketFails
  BY <1>4 DEF SocketFails
<1>5. CASE BindFails \/ Bind
  BY <1>5 DEF BindFails, Bind
<1>6. CASE StartFails \/ Listen \/ Create
  BY <1>6 DEF StartFails, Listen, Create
<1> QED
  BY <1>1, <1>2, <1>3, <1>4, <1>5, <1>6 DEF Starting

\* So do those of metrics_thread and handle_conn, which leave the start alone.
LEMMA ServePreserves == OwnInv /\ Serving => OwnInv'
<1> SUFFICES ASSUME OwnInv, Serving PROVE OwnInv'
  OBVIOUS
<1>0. UNCHANGED <<pc, rp, sfd>> /\ pc = "started"
  BY DEF Serving, OwnInv, ThreadStart, Test, PollNothing, Poll, AcceptFails, Accept, RecvFails,
         Recv, Send, SendInterrupted, SendFails, Close, world, start
<1> SUFFICES hpc' # "none" /\ ThreadInv'
  BY <1>0 DEF OwnInv
<1> USE <1>0 DEF OwnInv, ThreadInv
<1>1. CASE ThreadStart \/ Test
  BY <1>1 DEF ThreadStart, Test
<1>2. CASE PollNothing \/ Poll \/ AcceptFails \/ RecvFails
  BY <1>2 DEF PollNothing, Poll, AcceptFails, RecvFails
<1>3. CASE Accept
  BY <1>3 DEF Accept
<1>4. CASE Recv
  <2>1. hpc = "recv" /\ hpc' = "header" /\ fds' = fds
    BY <1>4 DEF Recv
  <2>2. heap' = heap \/ heap' = heap \cup {"body"}
    BY <1>4 DEF Recv, Choose
  <2> QED
    BY <2>1, <2>2
<1>5. CASE SendInterrupted \/ SendFails
  BY <1>5 DEF SendInterrupted, SendFails, NextBuffer
<1>6. ASSUME NEW k \in 1..Len(Buffer), Send(k) PROVE hpc' # "none" /\ ThreadInv'
  BY <1>6 DEF Send, NextBuffer
<1>7. CASE Close
  BY <1>7 DEF Close
<1> QED
  BY <1>1, <1>2, <1>3, <1>4, <1>5, <1>6, <1>7 DEF Serving

\* Clients and signals own nothing.
LEMMA OthersPreserve ==
  ASSUME OwnInv, UNCHANGED <<pc, rp, sfd, fds, heap, hpc>> PROVE OwnInv'
  BY DEF OwnInv, StartInv, ThreadInv

-----------------------------------------------------------------------------
(* Words.                                                                  *)

\* The smallest element is the one that is no larger than any other.
LEMMA MinIs ==
  ASSUME NEW S, NEW x \in S, \A y \in S : y \in Int /\ x <= y
  PROVE  Min(S) = x
<1>1. Min(S) \in S /\ \A y \in S : Min(S) <= y
  BY DEF Min
<1>2. Min(S) \in Int /\ x \in Int
  BY <1>1
<1>3. Min(S) <= x /\ x <= Min(S)
  BY <1>1
<1> QED
  BY <1>2, <1>3

\* The smaller of two numbers.
LEMMA MinOfTwo ==
  ASSUME NEW a \in Int, NEW b \in Int
  PROVE  Min({a, b}) = IF a <= b THEN a ELSE b
<1>1. CASE a <= b
  BY <1>1, MinIs
<1>2. CASE ~(a <= b)
  BY <1>2, MinIs
<1> QED
  BY <1>1, <1>2

\* A part of a text.
LEMMA Part ==
  ASSUME NEW s \in Seq(STRING), NEW a \in 1..(Len(s) + 1), NEW b \in Int, b <= Len(s)
  PROVE  /\ SubSeq(s, a, b) \in Seq(STRING)
         /\ Len(SubSeq(s, a, b)) = IF a <= b THEN b - a + 1 ELSE 0
         /\ \A i \in 1..(b - a + 1) : SubSeq(s, a, b)[i] = s[a + i - 1]
<1>1. \A i \in a..b : s[i] \in STRING
  BY ElementOfSeq, LenProperties
<1>2. a \in Int
  BY LenProperties
<1> QED
  BY <1>1, <1>2, SubSeqProperties

\* Two texts of the same pieces are the same.
LEMMA SameText ==
  ASSUME NEW s \in Seq(STRING), NEW t \in Seq(STRING), Len(s) = Len(t),
         \A i \in 1..Len(s) : s[i] = t[i]
  PROVE  s = t
  BY SeqEqual

\* A text of one piece.
LEMMA Single ==
  ASSUME NEW S, NEW x \in S
  PROVE  <<x>> \in Seq(S) /\ Len(<<x>>) = 1 /\ <<x>>[1] = x
  OBVIOUS

\* One text after another.
LEMMA Joined ==
  ASSUME NEW s \in Seq(STRING), NEW t \in Seq(STRING), NEW h, h = s \o t
  PROVE  /\ h \in Seq(STRING) /\ Len(h) = Len(s) + Len(t)
         /\ \A i \in 1..(Len(s) + Len(t)) : h[i] = IF i <= Len(s) THEN s[i] ELSE t[i - Len(s)]
  BY ConcatProperties

\* A word ends before the first blank, or with the text.
LEMMA WordIs ==
  ASSUME NEW s \in Seq(STRING), NEW n \in 0..Len(s), \A i \in 1..n : s[i] # SP,
         n = Len(s) \/ s[n + 1] = SP
  PROVE  Word(s) = SubSeq(s, 1, n) /\ AfterWord(s) = SubSeq(s, n + 1, Len(s))
<1>1. Len(s) \in Nat
  BY LenProperties
<1>2. Min(Blank(s) \cup {Len(s) + 1}) = n + 1
  <2>1. n + 1 \in Blank(s) \cup {Len(s) + 1}
    <3>1. CASE n = Len(s)
      BY <3>1
    <3>2. CASE n # Len(s)
      <4>1. n + 1 \in 1..Len(s) /\ s[n + 1] = SP
        BY <1>1, <3>2
      <4> QED
        BY <4>1 DEF Blank
    <3> QED
      BY <3>1, <3>2
  <2>2. ASSUME NEW y \in Blank(s) \cup {Len(s) + 1} PROVE y \in Int /\ n + 1 <= y
    <3>1. CASE y \in Blank(s)
      <4>1. y \in 1..Len(s) /\ s[y] = SP
        BY <3>1 DEF Blank
      <4>2. y \notin 1..n
        BY <4>1
      <4> QED
        BY <1>1, <4>1, <4>2
    <3> QED
      BY <1>1, <3>1
  <2> QED
    BY <2>1, <2>2, MinIs
<1>3. Word(s) = SubSeq(s, 1, n)
  <2>1. Word(s) = SubSeq(s, 1, (n + 1) - 1)
    BY <1>2 DEF Word
  <2>2. (n + 1) - 1 = n
    BY <1>1
  <2> QED
    BY <2>1, <2>2
<1>4. Len(Word(s)) = n
  <2>1. 1 \in 1..(Len(s) + 1) /\ n \in Int /\ n <= Len(s)
    BY <1>1
  <2>2. Len(SubSeq(s, 1, n)) = IF 1 <= n THEN n - 1 + 1 ELSE 0
    BY <2>1, Part
  <2> QED
    BY <1>1, <1>3, <2>2
<1> QED
  BY <1>3, <1>4 DEF AfterWord

\* Nothing is skipped before a word ...
LEMMA SkipNone ==
  ASSUME NEW s \in Seq(STRING), Len(s) = 0 \/ s[1] # SP
  PROVE  SkipBlanks(s) = s
<1>1. Len(s) \in Nat
  BY LenProperties
<1>2. Min({k \in 1..(Len(s) + 1) : k \notin Blank(s)}) = 1
  <2> DEFINE K == {k \in 1..(Len(s) + 1) : k \notin Blank(s)}
  <2>1. \A y \in K : y \in Int /\ 1 <= y
    BY <1>1
  <2>2. 1 \in 1..(Len(s) + 1) /\ 1 \notin Blank(s)
    BY <1>1 DEF Blank
  <2>3. 1 \in K
    BY <2>2
  <2> HIDE DEF K
  <2>4. Min(K) = 1
    BY <2>1, <2>3, MinIs
  <2> QED
    BY <2>4 DEF K
<1> QED
  BY <1>1, <1>2, SubSeqFull DEF SkipBlanks

\* ... and one blank between two words.
LEMMA SkipOne ==
  ASSUME NEW s \in Seq(STRING), Len(s) > 0, s[1] = SP, Len(s) = 1 \/ s[2] # SP
  PROVE  SkipBlanks(s) = SubSeq(s, 2, Len(s))
<1>1. Len(s) \in Nat
  BY LenProperties
<1>2. Min({k \in 1..(Len(s) + 1) : k \notin Blank(s)}) = 2
  <2> DEFINE K == {k \in 1..(Len(s) + 1) : k \notin Blank(s)}
  <2>1. 1 \in Blank(s) /\ 2 \in 1..(Len(s) + 1) /\ 2 \notin Blank(s)
    BY <1>1 DEF Blank
  <2>2. \A y \in K : y \in Int /\ 2 <= y
    BY <1>1, <2>1
  <2>3. 2 \in K
    BY <2>1
  <2> HIDE DEF K
  <2>4. Min(K) = 2
    BY <2>2, <2>3, MinIs
  <2> QED
    BY <2>4 DEF K
<1> QED
  BY <1>2 DEF SkipBlanks

-----------------------------------------------------------------------------
(* Answers.                                                                *)

\* What stands where in the text of a request.
LEMMA TextParts ==
  ASSUME NEW r \in Requests
  PROVE  /\ r.method \in Seq(STRING) /\ r.path \in Seq(STRING)
         /\ Len(r.method) \in Nat \ {0} /\ Len(r.path) \in Nat
         /\ Text(r) \in Seq(STRING) /\ Len(Text(r)) \in Nat
         /\ \A i \in 1..Len(r.method) : Text(r)[i] = r.method[i] /\ r.method[i] # SP
         /\ Len(r.path) = 0 => Len(Text(r)) = Len(r.method)
         /\ Len(r.path) > 0 =>
              /\ Len(Text(r)) >= Len(r.method) + 1 + Len(r.path)
              /\ Text(r)[Len(r.method) + 1] = SP
              /\ \A i \in 1..Len(r.path) : Text(r)[Len(r.method) + 1 + i] = r.path[i] /\ r.path[i] # SP
              /\ Len(Text(r)) > Len(r.method) + 1 + Len(r.path) =>
                   Text(r)[Len(r.method) + 1 + Len(r.path) + 1] = SP
<1> DEFINE M == r.method
           P == r.path
           R == r.rest
<1>1. /\ M \in Seq(STRING) /\ P \in Seq(STRING) /\ R \in Seq(STRING) /\ M # <<>>
      /\ \A i \in 1..Len(M) : M[i] # SP
      /\ \A i \in 1..Len(P) : P[i] # SP
      /\ P = <<>> => R = <<>>
      /\ R = <<>> \/ R[1] = SP
  BY ConstantsAssumption
<1>2. Text(r) = M \o (IF P = <<>> THEN <<>> ELSE <<SP>> \o P) \o R
  BY DEF Text
<1> HIDE DEF M, P, R
<1>3. Len(M) \in Nat \ {0} /\ Len(P) \in Nat /\ Len(R) \in Nat
  BY <1>1, EmptySeq, LenProperties
<1>4. CASE P = <<>>
  <2>1. Text(r) = M
    BY <1>1, <1>2, <1>4, ConcatEmptySeq
  <2>2. Len(P) = 0
    BY <1>4
  <2> QED
    BY <1>1, <1>3, <2>1, <2>2 DEF M, P
<1>5. CASE P # <<>>
  <2>1. Len(P) > 0
    BY <1>1, <1>3, <1>5, EmptySeq
  <2> DEFINE B == <<SP>> \o P
             H == M \o B
  <2>2. /\ B \in Seq(STRING) /\ Len(B) = 1 + Len(P) /\ B[1] = SP
        /\ \A i \in 1..Len(P) : B[1 + i] = P[i]
    <3>1. <<SP>> \in Seq(STRING) /\ Len(<<SP>>) = 1 /\ <<SP>>[1] = SP
      BY ConstantsAssumption, Single
    <3>2. \A i \in 1..(1 + Len(P)) : B[i] = IF i <= 1 THEN <<SP>>[i] ELSE P[i - 1]
      BY <1>1, <3>1, ConcatProperties
    <3>3. \A i \in 1..Len(P) : 1 + i \in 1..(1 + Len(P)) /\ ~(1 + i <= 1) /\ (1 + i) - 1 = i
      BY <1>3
    <3>4. B[1] = SP
      BY <1>3, <3>1, <3>2
    <3> QED
      BY <1>1, <3>1, <3>2, <3>3, <3>4, ConcatProperties
  <2> HIDE DEF B
  <2>3. /\ H \in Seq(STRING) /\ Len(H) = Len(M) + Len(B)
        /\ \A i \in 1..(Len(M) + Len(B)) : H[i] = IF i <= Len(M) THEN M[i] ELSE B[i - Len(M)]
    <3>1. M \in Seq(STRING) /\ B \in Seq(STRING) /\ H = M \o B
      BY <1>1, <2>2
    <3> HIDE DEF H
    <3> QED
      BY <3>1, Joined, Zenon
  <2> HIDE DEF H
  <2>4. Text(r) = H \o R
    BY <1>2, <1>5 DEF H, B
  <2>5. /\ Text(r) \in Seq(STRING) /\ Len(Text(r)) = Len(H) + Len(R)
        /\ \A i \in 1..(Len(H) + Len(R)) : Text(r)[i] = IF i <= Len(H) THEN H[i] ELSE R[i - Len(H)]
    <3>1. H \in Seq(STRING) /\ R \in Seq(STRING) /\ Text(r) = H \o R
      BY <1>1, <2>3, <2>4
    <3> QED
      BY <3>1, Joined, Zenon
  <2>6. Len(H) = Len(M) + 1 + Len(P) /\ Len(H) \in Nat
    BY <1>3, <2>2, <2>3
  <2>7. \A i \in 1..Len(H) : Text(r)[i] = IF i <= Len(M) THEN M[i] ELSE B[i - Len(M)]
    BY <1>3, <2>2, <2>3, <2>5, <2>6
  <2>8. ASSUME NEW i \in 1..Len(M) PROVE Text(r)[i] = M[i]
    BY <1>3, <2>6, <2>7
  <2>9. Text(r)[Len(M) + 1] = SP
    <3>1. Len(M) + 1 \in 1..Len(H) /\ ~(Len(M) + 1 <= Len(M)) /\ Len(M) + 1 - Len(M) = 1
      BY <1>3, <2>6
    <3> QED
      BY <2>2, <2>7, <3>1
  <2>10. ASSUME NEW i \in 1..Len(P) PROVE Text(r)[Len(M) + 1 + i] = P[i]
    <3>1. /\ Len(M) + 1 + i \in 1..Len(H) /\ ~(Len(M) + 1 + i <= Len(M))
          /\ Len(M) + 1 + i - Len(M) = 1 + i
      BY <1>3, <2>6
    <3>2. Text(r)[Len(M) + 1 + i] = B[Len(M) + 1 + i - Len(M)]
      BY <2>7, <3>1
    <3> QED
      BY <2>2, <3>1, <3>2
  <2>11. ASSUME Len(Text(r)) > Len(H) PROVE Text(r)[Len(H) + 1] = SP
    <3>1. /\ Len(H) + 1 \in 1..(Len(H) + Len(R)) /\ ~(Len(H) + 1 <= Len(H))
          /\ Len(H) + 1 - Len(H) = 1 /\ Len(R) > 0
      BY <1>3, <2>5, <2>6, <2>11
    <3>2. R[1] = SP
      BY <1>1, <3>1
    <3> QED
      BY <2>5, <3>1, <3>2
  <2>12. Len(Text(r)) \in Nat /\ Len(Text(r)) >= Len(M) + 1 + Len(P)
    BY <1>3, <2>5, <2>6
  <2>13. Len(Text(r)) > Len(M) + 1 + Len(P) => Text(r)[Len(M) + 1 + Len(P) + 1] = SP
    BY <2>6, <2>11
  <2>14. /\ \A i \in 1..Len(M) : Text(r)[i] = M[i] /\ M[i] # SP
         /\ \A i \in 1..Len(P) : Text(r)[Len(M) + 1 + i] = P[i] /\ P[i] # SP
    BY <1>1, <2>8, <2>10
  <2>15. ~(Len(P) = 0)
    BY <1>3, <2>1
  <2> QED
    BY <1>1, <1>3, <2>1, <2>5, <2>9, <2>12, <2>13, <2>14, <2>15, Zenon DEF M, P
<1> QED
  BY <1>4, <1>5

\* The answer depends on two words.
LEMMA DispatchIs ==
  ASSUME NEW req, NEW method, NEW path, Word(SkipBlanks(req)) = method,
         Word(SkipBlanks(AfterWord(SkipBlanks(req)))) = path
  PROVE  Dispatch(req) = Wanted(method, path)
<1>0. Metrics # <<>> /\ Slash # <<>> /\ Health # <<>> /\ Metrics # Slash /\ Metrics # Health
  BY DEF Metrics, Slash, Health
<1>1. CASE path = <<>>
  BY <1>0, <1>1 DEF Dispatch, Wanted
<1>2. CASE path # <<>> /\ method # GET
  BY <1>2 DEF Dispatch, Wanted
<1>3. CASE path # <<>> /\ method = GET
  <2>1. CASE path = Metrics
    BY <1>0, <1>3, <2>1 DEF Dispatch, Wanted
  <2>2. CASE path # Metrics /\ path \in {Slash, Health}
    BY <1>3, <2>2 DEF Dispatch, Wanted
  <2>3. CASE path # Metrics /\ path \notin {Slash, Health}
    BY <1>3, <2>3 DEF Dispatch, Wanted
  <2> QED
    BY <2>1, <2>2, <2>3
<1> QED
  BY <1>1, <1>2, <1>3

\* What the text gives after any number of pieces is what the request wants, with the
\* path as far as it is there.
LEMMA Answered ==
  ASSUME NEW r \in Requests, NEW n \in 0..Len(Text(r))
  PROVE  Dispatch(Prefix(Text(r), n))
           = Wanted(r.method, Prefix(r.path, Min({n - Len(r.method) - 1, Len(r.path)})))
<1> DEFINE M == r.method
           P == r.path
           T == Text(r)
           q == n - Len(M) - 1
           req == Prefix(T, n)
<1>0. /\ M \in Seq(STRING) /\ P \in Seq(STRING) /\ T \in Seq(STRING)
      /\ Len(M) \in Nat \ {0} /\ Len(P) \in Nat /\ Len(T) \in Nat
      /\ \A i \in 1..Len(M) : T[i] = M[i] /\ M[i] # SP
      /\ Len(P) = 0 => Len(T) = Len(M)
      /\ Len(P) > 0 => /\ Len(T) >= Len(M) + 1 + Len(P) /\ T[Len(M) + 1] = SP
                       /\ \A i \in 1..Len(P) : T[Len(M) + 1 + i] = P[i] /\ P[i] # SP
                       /\ Len(T) > Len(M) + 1 + Len(P) => T[Len(M) + 1 + Len(P) + 1] = SP
  BY TextParts
<1>1. req = SubSeq(T, 1, n) /\ n \in 0..Len(T) /\ q = n - Len(M) - 1
  BY DEF Prefix
<1> SUFFICES Dispatch(req) = Wanted(M, Prefix(P, Min({q, Len(P)})))
  OBVIOUS
<1> HIDE DEF M, P, T, q, req
<1>2. req \in Seq(STRING) /\ Len(req) = n /\ n \in Nat /\ \A i \in 1..n : req[i] = T[i]
  <2>1. 1 \in 1..(Len(T) + 1) /\ n \in Int /\ n <= Len(T) /\ n - 1 + 1 = n
    BY <1>0, <1>1
  <2>2. /\ req \in Seq(STRING) /\ Len(req) = IF 1 <= n THEN n - 1 + 1 ELSE 0
        /\ \A i \in 1..(n - 1 + 1) : req[i] = T[1 + i - 1]
    BY <1>0, <1>1, <2>1, Part
  <2> QED
    BY <1>0, <1>1, <2>1, <2>2
<1>3. SkipBlanks(req) = req
  <2>1. n > 0 => 1 \in 1..n /\ 1 \in 1..Len(M)
    BY <1>0, <1>2
  <2>2. Len(req) = 0 \/ req[1] # SP
    BY <1>0, <1>2, <2>1
  <2> QED
    BY <1>2, <2>2, SkipNone
<1>4. CASE n <= Len(M)
  <2>1. \A i \in 1..n : req[i] # SP
    BY <1>0, <1>1, <1>2, <1>4
  <2>2. AfterWord(req) = SubSeq(req, n + 1, n)
    <3>1. n \in 0..Len(req) /\ n = Len(req)
      BY <1>2
    <3> QED
      BY <1>2, <2>1, <3>1, WordIs
  <2>3. AfterWord(req) = <<>>
    BY <1>2, <2>2, SubSeqEmpty
  <2>4. <<>> \in Seq(STRING) /\ Len(<<>>) = 0
    OBVIOUS
  <2>5. SkipBlanks(<<>>) = <<>>
    BY <2>4, SkipNone
  <2>6. Word(<<>>) = <<>>
    <3>1. 0 \in 0..Len(<<>>) /\ \A i \in 1..0 : <<>>[i] # SP
      BY <2>4
    <3>2. Word(<<>>) = SubSeq(<<>>, 1, 0)
      BY <2>4, <3>1, WordIs
    <3> QED
      BY <3>2, SubSeqEmpty
  <2>7. Dispatch(req) = Wanted(Word(req), <<>>)
    BY <1>3, <2>3, <2>5, <2>6, DispatchIs
  <2>8. q < 0 /\ q \in Int
    BY <1>0, <1>1, <1>2, <1>4
  <2>9. Min({q, Len(P)}) = q
    BY <1>0, <2>8, MinOfTwo
  <2>10. Prefix(P, q) = <<>>
    BY <2>8, SubSeqEmpty DEF Prefix
  <2> QED
    BY <2>7, <2>9, <2>10 DEF Wanted
<1>5. CASE n > Len(M)
  <2>1. Len(P) > 0 /\ q \in Nat /\ n = Len(M) + 1 + q
    BY <1>0, <1>1, <1>2, <1>5
  <2>2. Word(req) = M /\ AfterWord(req) = SubSeq(req, Len(M) + 1, n)
    <3>0. Len(M) \in 0..Len(req) /\ \A i \in 1..Len(M) : i \in 1..n
      BY <1>0, <1>2, <1>5
    <3>1. \A i \in 1..Len(M) : req[i] # SP
      BY <1>0, <1>2, <3>0
    <3>2. req[Len(M) + 1] = SP
      BY <1>0, <1>2, <1>5, <2>1
    <3>3. Word(req) = SubSeq(req, 1, Len(M)) /\ AfterWord(req) = SubSeq(req, Len(M) + 1, n)
      BY <1>2, <3>0, <3>1, <3>2, WordIs
    <3>4. 1 \in 1..(Len(req) + 1) /\ Len(M) \in Int /\ Len(M) <= Len(req) /\ Len(M) - 1 + 1 = Len(M)
      BY <1>0, <1>2, <1>5
    <3>5. /\ SubSeq(req, 1, Len(M)) \in Seq(STRING)
          /\ Len(SubSeq(req, 1, Len(M))) = IF 1 <= Len(M) THEN Len(M) - 1 + 1 ELSE 0
          /\ \A i \in 1..(Len(M) - 1 + 1) : SubSeq(req, 1, Len(M))[i] = req[1 + i - 1]
      BY <1>2, <3>4, Part
    <3>6. /\ Len(SubSeq(req, 1, Len(M))) = Len(M)
          /\ \A i \in 1..Len(M) : SubSeq(req, 1, Len(M))[i] = M[i]
      BY <1>0, <1>2, <1>5, <3>4, <3>5
    <3> QED
      BY <1>0, <3>3, <3>5, <3>6, SameText
  <2> DEFINE A == AfterWord(req)
             Q == SkipBlanks(A)
  <2>3. /\ A \in Seq(STRING) /\ Len(A) = 1 + q /\ A[1] = SP
        /\ \A i \in 1..q : A[1 + i] = T[Len(M) + 1 + i]
    <3>1. Len(M) + 1 \in 1..(Len(req) + 1) /\ n \in Int /\ n <= Len(req) /\ n - (Len(M) + 1) + 1 = 1 + q
      BY <1>0, <1>2, <1>5, <2>1
    <3>2. /\ A \in Seq(STRING) /\ Len(A) = IF Len(M) + 1 <= n THEN n - (Len(M) + 1) + 1 ELSE 0
          /\ \A i \in 1..(n - (Len(M) + 1) + 1) : A[i] = req[Len(M) + 1 + i - 1]
      BY <1>2, <2>2, <3>1, Part
    <3>3. Len(A) = 1 + q /\ \A i \in 1..(1 + q) : A[i] = req[Len(M) + i]
      BY <1>0, <1>2, <2>1, <3>1, <3>2
    <3>4. \A i \in 1..(1 + q) : Len(M) + i \in 1..n /\ A[i] = T[Len(M) + i]
      BY <1>0, <1>2, <2>1, <3>3
    <3>5. A[1] = SP
      BY <1>0, <2>1, <3>4
    <3>6. ASSUME NEW i \in 1..q PROVE A[1 + i] = T[Len(M) + 1 + i]
      <4>1. 1 + i \in 1..(1 + q) /\ Len(M) + (1 + i) = Len(M) + 1 + i
        BY <1>0, <2>1
      <4> QED
        BY <3>4, <4>1
    <3> QED
      BY <3>2, <3>3, <3>5, <3>6
  <2> HIDE DEF A
  <2>4. Q = SubSeq(A, 2, 1 + q)
    <3>1. Len(A) > 0 /\ (Len(A) = 1 \/ A[2] # SP)
      <4>1. CASE q = 0
        BY <2>3, <4>1
      <4>2. CASE q > 0
        <5>1. A[1 + 1] = T[Len(M) + 1 + 1]
          BY <2>1, <2>3, <4>2
        <5>2. T[Len(M) + 1 + 1] # SP
          BY <1>0, <2>1, SMTT(30)
        <5> QED
          BY <2>1, <2>3, <5>1, <5>2
      <4> QED
        BY <2>1, <4>1, <4>2
    <3> QED
      BY <2>3, <3>1, SkipOne
  <2>5. Q \in Seq(STRING) /\ Len(Q) = q /\ \A i \in 1..q : Q[i] = T[Len(M) + 1 + i]
    <3>1. 2 \in 1..(Len(A) + 1) /\ 1 + q \in Int /\ 1 + q <= Len(A) /\ (1 + q) - 2 + 1 = q
      BY <2>1, <2>3
    <3>2. /\ Q \in Seq(STRING) /\ Len(Q) = IF 2 <= 1 + q THEN (1 + q) - 2 + 1 ELSE 0
          /\ \A i \in 1..((1 + q) - 2 + 1) : Q[i] = A[2 + i - 1]
      BY <2>3, <2>4, <3>1, Part
    <3>3. Len(Q) = q
      BY <2>1, <3>1, <3>2
    <3>4. \A i \in 1..q : Q[i] = A[1 + i]
      <4>1. \A i \in 1..q : 2 + i - 1 = 1 + i
        BY <2>1
      <4> QED
        BY <3>1, <3>2, <4>1
    <3> QED
      BY <2>3, <3>2, <3>3, <3>4
  <2> HIDE DEF Q
  <2> DEFINE w == IF q <= Len(P) THEN q ELSE Len(P)
  <2>6. w \in 0..Len(Q) /\ w <= Len(P) /\ w \in Nat /\ \A i \in 1..w : Q[i] = P[i] /\ Q[i] # SP
    <3>1. w \in 0..Len(Q) /\ w <= Len(P) /\ w \in Nat /\ w <= q
      BY <1>0, <2>1, <2>5
    <3> HIDE DEF w
    <3>2. \A i \in 1..w : i \in 1..q /\ i \in 1..Len(P)
      BY <1>0, <2>1, <3>1
    <3>3. \A i \in 1..w : Q[i] = P[i] /\ Q[i] # SP
      BY <1>0, <2>1, <2>5, <3>2
    <3> QED
      BY <3>1, <3>3
  <2>7. w = Len(Q) \/ Q[w + 1] = SP
    <3>1. CASE q > Len(P)
      <4>1. Len(P) + 1 \in 1..q /\ Len(M) + 1 + (Len(P) + 1) = Len(M) + 1 + Len(P) + 1
        BY <1>0, <2>1, <3>1
      <4>2. Len(T) > Len(M) + 1 + Len(P)
        BY <1>0, <1>1, <2>1, <3>1
      <4>3. Q[Len(P) + 1] = SP
        BY <1>0, <2>1, <2>5, <4>1, <4>2
      <4>4. w = Len(P)
        BY <1>0, <2>1, <3>1
      <4> QED
        BY <4>3, <4>4
    <3> QED
      BY <1>0, <2>1, <2>5, <3>1
  <2>8. Min({q, Len(P)}) = w
    <3>1. q \in Int /\ Len(P) \in Int
      BY <1>0, <2>1
    <3> QED
      BY <3>1, MinOfTwo, Zenon
  <2> HIDE DEF w
  <2>9. Word(Q) = SubSeq(Q, 1, w)
    BY <2>5, <2>6, <2>7, WordIs
  <2>10. SubSeq(Q, 1, w) = SubSeq(P, 1, w)
    <3>1. /\ 1 \in 1..(Len(Q) + 1) /\ 1 \in 1..(Len(P) + 1) /\ w \in Int /\ w <= Len(Q) /\ w <= Len(P)
          /\ w - 1 + 1 = w
      BY <1>0, <2>1, <2>5, <2>6
    <3>2. /\ SubSeq(Q, 1, w) \in Seq(STRING) /\ Len(SubSeq(Q, 1, w)) = IF 1 <= w THEN w - 1 + 1 ELSE 0
          /\ \A i \in 1..(w - 1 + 1) : SubSeq(Q, 1, w)[i] = Q[1 + i - 1]
      BY <2>5, <3>1, Part
    <3>3. /\ SubSeq(P, 1, w) \in Seq(STRING) /\ Len(SubSeq(P, 1, w)) = IF 1 <= w THEN w - 1 + 1 ELSE 0
          /\ \A i \in 1..(w - 1 + 1) : SubSeq(P, 1, w)[i] = P[1 + i - 1]
      BY <1>0, <3>1, Part
    <3>4. Len(SubSeq(Q, 1, w)) = w /\ Len(SubSeq(P, 1, w)) = w
      BY <2>6, <3>2, <3>3
    <3>5. \A i \in 1..w : SubSeq(Q, 1, w)[i] = SubSeq(P, 1, w)[i]
      BY <2>6, <3>1, <3>2, <3>3
    <3> QED
      BY <3>2, <3>3, <3>4, <3>5, SameText
  <2>11. Word(SkipBlanks(req)) = M
    BY <1>3, <2>2
  <2>12. Word(SkipBlanks(AfterWord(SkipBlanks(req)))) = Prefix(P, w)
    BY <1>3, <2>9, <2>10 DEF A, Q, Prefix
  <2>13. Dispatch(req) = Wanted(M, Prefix(P, w))
    BY <2>11, <2>12, DispatchIs
  <2> QED
    BY <2>8, <2>13
<1> QED
  BY <1>2, <1>0, <1>4, <1>5

-----------------------------------------------------------------------------
(* A connection from its request to its end.                               *)

Handling == {"recv", "header", "body", "close"}

\* Nothing has been taken from the connection or written to it.
Fresh == taken = 0 /\ answer = NoAnswer /\ off = 0 /\ sent = <<>> /\ got = <<>> /\ failed = {}

\* The thread handles the client that is connected, and a request is answered once.
ConnInv ==
    /\ hpc = "accept" => client \in {"connecting", "gone"}
    /\ hpc \in Handling => client \in {"open", "gone"}
    /\ hpc \notin Handling => client # "open"
    /\ client \in {"none", "connecting"} => Fresh
    /\ client \in {"open", "gone"} /\ hpc \notin {"header", "body", "close"} => Fresh

Piece == [code : Int, n : Int]

\* Where send_all is in its buffer.
OffInv ==
    /\ off \in Nat
    /\ hpc = "header" => off < 2
    /\ hpc = "body" => off < answer.length
    /\ hpc \notin {"header", "body"} => off = 0

\* What is written is the response as far as it goes, and how far is known, as long
\* as the header was sent; what the client has is what was written as far as it goes.
StreamInv ==
    /\ sent \in Seq(Piece) /\ got \in Seq(Piece)
    /\ \A i \in 1..Len(got) : got[i] = sent[i]
    /\ hpc \in {"recv", "header"} => failed = {}
    /\ "header" \notin failed =>
         /\ Len(sent) <= 2 + answer.length
         /\ \A i \in 1..Len(sent) : sent[i] = Response(answer)[i]
         /\ hpc = "header" => Len(sent) = off
         /\ hpc = "body" => Len(sent) = 2 + off
    /\ failed = {} /\ hpc = "close" /\ answer # NoAnswer => Len(sent) = 2 + answer.length
    /\ client = "ended" /\ answer # NoAnswer /\ taken = Len(Text(request)) /\ failed = {}
         => Len(got) = 2 + answer.length

IInv == TypeOK /\ OwnInv /\ ConnInv /\ OffInv /\ StreamInv /\ AnswerFits

\* The types of what the start, the thread and the clients change, in three parts.
StartType ==
    /\ metrics_addr \in Addrs
    /\ pc \in {"parse", "socket", "bind", "listen", "create", "failed", "started"}
    /\ rp \in 0..MaxResults /\ sfd \in -1..MaxResults
    /\ fds \subseteq 0..MaxResults /\ heap \subseteq {"res", "fdp", "body"}
    /\ hpc \in {"none", "new", "test", "poll", "accept", "recv", "header", "body", "close", "ended"}

ClientType ==
    /\ client \in {"none", "connecting", "open", "gone", "ended", "left"}
    /\ request \in Requests /\ arrived \in 0..Len(Text(request))
    /\ conns \in 0..MaxConns /\ signals \in 0..MaxSignals

ReplyType ==
    /\ taken \in 0..(ReqSize - 1)
    /\ answer \in [code : {-1, 0, 200, 400, 404, 405}, length : 0..MaxBody]
    /\ failed \subseteq {"header", "body"}
    /\ Len(got) <= Len(sent)

OffType == off \in 0..(IF hpc = "header" THEN 2 ELSE answer.length)

\* Together they are all.
LEMMA TypeParts ==
  TypeOK <=> StartType /\ ClientType /\ ReplyType /\ OffType /\ g_running \in BOOLEAN
  BY Zenon DEF TypeOK, StartType, ClientType, ReplyType, OffType

\* The start and the thread: what they open and allocate.
LEMMA StartTypeStep == ASSUME StartType, OwnInv, [Next]_vars PROVE StartType'
<1> USE ConstantsAssumption DEF StartType
<1>1. CASE ResolveFails \/ NoneBound
  BY <1>1 DEF ResolveFails, NoneBound, thread
<1>2. ASSUME NEW n \in 0..MaxResults, Resolve(n) PROVE StartType'
  BY <1>2 DEF Resolve, thread
<1>3. CASE Socket
  <2>1. /\ UNCHANGED <<metrics_addr, rp, heap, hpc>> /\ pc' = "bind" /\ sfd' = rp
        /\ fds' = fds \cup {rp}
    BY <1>3 DEF Socket, thread
  <2>2. rp \in -1..MaxResults
    OBVIOUS
  <2>3. fds' \subseteq 0..MaxResults
    BY <2>1, Zenon
  <2> QED
    BY <2>1, <2>2, <2>3
<1>4. CASE SocketFails
  BY <1>4 DEF SocketFails, thread
<1>5. CASE BindFails
  BY <1>5 DEF BindFails, thread, OwnInv
<1>6. CASE Bind \/ StartFails \/ Listen \/ Create
  BY <1>6 DEF Bind, StartFails, Listen, Create, thread
<1>7. CASE ThreadStart \/ Test
  BY <1>7 DEF ThreadStart, Test, world, start
<1>8. CASE PollNothing \/ Poll \/ AcceptFails \/ RecvFails
  BY <1>8 DEF PollNothing, Poll, AcceptFails, RecvFails, world, start
<1>9. CASE Accept
  BY <1>9 DEF Accept, world, start
<1>10. CASE Recv
  <2>1. UNCHANGED <<metrics_addr, pc, rp, sfd, fds>> /\ hpc' = "header"
    BY <1>10 DEF Recv, world, start
  <2>2. heap' = heap \/ heap' = heap \cup {"body"}
    BY <1>10 DEF Recv, Choose
  <2> QED
    BY <2>1, <2>2
<1>11. CASE SendInterrupted \/ SendFails
  BY <1>11 DEF SendInterrupted, SendFails, NextBuffer, world, start
<1>12. ASSUME NEW k \in 1..Len(Buffer), Send(k) PROVE StartType'
  BY <1>12 DEF Send, NextBuffer, world, start
<1>13. CASE Close
  <2>1. UNCHANGED <<metrics_addr, pc, rp, sfd>> /\ hpc' = "test" /\ fds' \subseteq fds /\ heap' \subseteq heap
    BY <1>13 DEF Close, world, start
  <2>2. fds' \subseteq 0..MaxResults /\ heap' \subseteq {"res", "fdp", "body"}
    BY <2>1, Zenon
  <2> QED
    BY <2>1, <2>2
<1>14. CASE UNCHANGED <<metrics_addr, pc, rp, sfd, fds, heap, hpc>>
  BY <1>14
<1>15. (\E r \in Requests : Connect(r)) \/ (\E k \in 1..Len(Text(request)) : Arrive(k)) \/ HangUp \/ Stop
          \/ Done \/ UNCHANGED vars
         => UNCHANGED <<metrics_addr, pc, rp, sfd, fds, heap, hpc>>
  BY DEF Connect, Arrive, HangUp, Stop, Done, vars, world, start
<1> QED
  BY <1>1, <1>2, <1>3, <1>4, <1>5, <1>6, <1>7, <1>8, <1>9, <1>10, <1>11, <1>12, <1>13, <1>14, <1>15
     DEF Next, Starting, Serving

\* The steps that neither read from a connection nor write to it.
Quiet ==
    \/ Starting \/ ThreadStart \/ Test \/ PollNothing \/ Poll \/ RecvFails \/ SendInterrupted
    \/ Stop \/ Done \/ UNCHANGED vars

\* They leave the connection and the reply alone.
LEMMA QuietKeeps ==
  Quiet => UNCHANGED <<client, request, arrived, taken, answer, off, sent, got, failed, conns>>
<1>1. Starting => UNCHANGED <<conn, reply, conns>>
  BY DEF Starting, ResolveFails, Resolve, Socket, SocketFails, BindFails, Bind, NoneBound, StartFails,
         Listen, Create, thread
<1>2. Quiet => UNCHANGED <<conn, reply, conns>>
  BY <1>1 DEF Quiet, ThreadStart, Test, PollNothing, Poll, RecvFails, SendInterrupted, Stop, Done, vars,
              world
<1> QED
  BY <1>2 DEF conn, reply

\* The steps of a connection are the others.
LEMMA NotQuiet ==
  ASSUME [Next]_vars, ~Quiet
  PROVE  \/ AcceptFails \/ Accept \/ Recv \/ (\E k \in 1..Len(Buffer) : Send(k))
         \/ SendFails \/ Close \/ (\E r \in Requests : Connect(r))
         \/ (\E k \in 1..Len(Text(request)) : Arrive(k)) \/ HangUp
  BY DEF Next, Serving, Quiet

\* A client's request and how much of it has arrived.
LEMMA ClientTypeStep == ASSUME ClientType, [Next]_vars PROVE ClientType'
<1> USE ConstantsAssumption
<1>0. Len(Text(request)) \in Nat /\ signals \in 0..MaxSignals
  BY TextParts DEF ClientType
<1>1. CASE Quiet
  <2>1. UNCHANGED <<client, request, arrived, conns>>
    BY <1>1, QuietKeeps
  <2>2. signals' \in 0..MaxSignals
    <3>1. CASE SendInterrupted
      BY <1>0, <3>1 DEF SendInterrupted
    <3>2. CASE Starting
      <4>1. signals' = signals
        BY <3>2 DEF Starting, ResolveFails, Resolve, Socket, SocketFails, BindFails, Bind, NoneBound,
                    StartFails, Listen, Create, thread
      <4> QED
        BY <1>0, <4>1
    <3>3. CASE Quiet /\ ~SendInterrupted /\ ~Starting
      <4>1. signals' = signals
        BY <3>3 DEF Quiet, ThreadStart, Test, PollNothing, Poll, RecvFails, Stop, Done, vars, world
      <4> QED
        BY <1>0, <4>1
    <3> QED
      BY <1>1, <3>1, <3>2, <3>3
  <2> QED
    BY <2>1, <2>2 DEF ClientType
<1>2. CASE AcceptFails \/ Accept \/ HangUp
  BY <1>2 DEF AcceptFails, Accept, HangUp, world, ClientType
<1>3. CASE Close \/ Recv \/ SendFails
  <2>1. UNCHANGED <<request, arrived, conns, signals>>
    BY <1>3 DEF Close, Recv, SendFails, world, conn
  <2>2. client' \in {client, "ended", "left"}
    BY <1>3 DEF Close, Recv, SendFails, conn
  <2> QED
    BY <2>1, <2>2 DEF ClientType
<1>4. ASSUME NEW k \in 1..Len(Buffer), Send(k) PROVE ClientType'
  BY <1>4 DEF Send, conn, world, ClientType
<1>5. ASSUME NEW r \in Requests, Connect(r) PROVE ClientType'
  <2>1. /\ client' = "connecting" /\ request' = r /\ arrived' = 0 /\ conns' = conns + 1
        /\ conns < MaxConns /\ signals' = signals
    BY <1>5 DEF Connect
  <2>2. Len(Text(r)) \in Nat
    BY TextParts
  <2> QED
    BY <2>1, <2>2 DEF ClientType
<1>6. ASSUME NEW k \in 1..Len(Text(request)), Arrive(k) PROVE ClientType'
  <2>1. /\ UNCHANGED <<client, request, conns, signals>> /\ arrived' = arrived + k
        /\ arrived + k <= Len(Text(request))
    BY <1>6 DEF Arrive, world
  <2>2. arrived' \in 0..Len(Text(request))
    BY <1>0, <2>1 DEF ClientType
  <2> QED
    BY <2>1, <2>2 DEF ClientType
<1> QED
  BY <1>1, <1>2, <1>3, <1>4, <1>5, <1>6, NotQuiet

\* The flag is a flag.
LEMMA FlagStep == ASSUME g_running \in BOOLEAN, [Next]_vars PROVE g_running' \in BOOLEAN
<1>1. g_running' = g_running \/ g_running' = FALSE
  <2>1. Starting => UNCHANGED g_running
    BY DEF Starting, ResolveFails, Resolve, Socket, SocketFails, BindFails, Bind, NoneBound, StartFails,
           Listen, Create, thread
  <2>2. Serving => UNCHANGED g_running
    BY DEF Serving, ThreadStart, Test, PollNothing, Poll, AcceptFails, Accept, RecvFails, Recv,
           Send, SendInterrupted, SendFails, Close, world
  <2> QED
    BY <2>1, <2>2 DEF Next, Connect, Arrive, HangUp, Stop, Done, vars, world
<1> QED
  BY <1>1, Zenon

\* The thread and its client keep to each other.
LEMMA ConnStep == ASSUME TypeOK, OwnInv, ConnInv, [Next]_vars PROVE ConnInv'
<1>1. CASE Starting
  <2>1. UNCHANGED <<client, taken, answer, off, sent, got, failed>>
    BY <1>1, QuietKeeps DEF Quiet
  <2>2. hpc' = hpc \/ (hpc = "none" /\ hpc' = "new")
    BY <1>1 DEF Starting, ResolveFails, Resolve, Socket, SocketFails, BindFails, Bind, NoneBound,
                StartFails, Listen, Create, thread, OwnInv
  <2> QED
    BY <2>1, <2>2 DEF ConnInv, Fresh, Handling
<1>2. CASE ThreadStart \/ Test \/ PollNothing \/ Poll \/ RecvFails
  <2>1. UNCHANGED <<client, taken, answer, off, sent, got, failed>>
    BY <1>2, QuietKeeps DEF Quiet
  <2>2. \/ hpc \in {"new", "test", "poll"} /\ hpc' \in {"test", "poll", "ended"}
        \/ hpc = "poll" /\ hpc' = "accept" /\ client \in {"connecting", "gone"}
        \/ hpc = "recv" /\ hpc' = "close"
    BY <1>2 DEF ThreadStart, Test, PollNothing, Poll, RecvFails
  <2> QED
    BY <2>1, <2>2 DEF ConnInv, Fresh, Handling
<1>3. CASE SendInterrupted \/ Stop \/ Done \/ UNCHANGED vars
  <2>1. UNCHANGED <<client, taken, answer, off, sent, got, failed>>
    BY <1>3, QuietKeeps DEF Quiet
  <2>2. hpc' = hpc
    BY <1>3 DEF SendInterrupted, Stop, Done, vars
  <2> QED
    BY <2>1, <2>2 DEF ConnInv, Fresh
<1>4. CASE AcceptFails \/ Accept
  BY <1>4 DEF AcceptFails, Accept, reply, ConnInv, Fresh, Handling
<1>5. CASE Recv
  BY <1>5 DEF Recv, conn, ConnInv, Fresh, Handling
<1>6. CASE SendFails
  BY <1>6 DEF SendFails, NextBuffer, conn, ConnInv, Handling
<1>7. ASSUME NEW k \in 1..Len(Buffer), Send(k) PROVE ConnInv'
  BY <1>7 DEF Send, NextBuffer, conn, ConnInv, Handling
<1>8. CASE Close
  BY <1>8 DEF Close, ConnInv, Handling
<1>9. ASSUME NEW r \in Requests, Connect(r) PROVE ConnInv'
  BY <1>9 DEF Connect, ConnInv, Fresh, Handling
<1>10. ASSUME NEW k \in 1..Len(Text(request)), Arrive(k) PROVE ConnInv'
  BY <1>10 DEF Arrive, reply, ConnInv, Fresh
<1>11. CASE HangUp
  BY <1>11 DEF HangUp, reply, ConnInv, Fresh, Handling
<1> QED
  BY <1>1, <1>2, <1>3, <1>4, <1>5, <1>6, <1>7, <1>8, <1>9, <1>10, <1>11, NotQuiet DEF Quiet

-----------------------------------------------------------------------------
(* The stream.                                                             *)

Answer == [code : {-1, 0, 200, 400, 404, 405}, length : 0..MaxBody]

\* What a response consists of.
LEMMA ResponseParts ==
  ASSUME NEW a \in Answer
  PROVE  /\ a.length \in Nat
         /\ Header(a) \in Seq(Piece) /\ Len(Header(a)) = 2
         /\ Body(a) \in Seq(Piece) /\ Len(Body(a)) = a.length
         /\ Response(a) \in Seq(Piece) /\ Len(Response(a)) = 2 + a.length
         /\ \A i \in 1..2 : Response(a)[i] = Header(a)[i]
         /\ \A i \in 1..a.length : Response(a)[2 + i] = Body(a)[i]
<1>1. a.length \in Nat /\ a.code \in Int
  BY ConstantsAssumption DEF Answer
<1>2. Header(a) \in Seq(Piece) /\ Len(Header(a)) = 2
  <2>1. [code |-> a.code, n |-> -1] \in Piece /\ [code |-> a.code, n |-> a.length] \in Piece
    BY <1>1 DEF Piece
  <2> QED
    BY <2>1 DEF Header
<1>3. Body(a) \in Seq(Piece) /\ Len(Body(a)) = a.length
  <2>1. \A k \in 1..a.length : [code |-> -1, n |-> k] \in Piece
    BY <1>1 DEF Piece
  <2> QED
    BY <1>1, <2>1 DEF Body
<1> DEFINE h == Header(a)
           b == Body(a)
<1>4. /\ h \in Seq(Piece) /\ b \in Seq(Piece) /\ Response(a) = h \o b
      /\ Len(h) = 2 /\ Len(b) = a.length
  BY <1>2, <1>3 DEF Response
<1> HIDE DEF h, b
<1>5. /\ Response(a) \in Seq(Piece) /\ Len(Response(a)) = Len(h) + Len(b)
      /\ \A i \in 1..(Len(h) + Len(b)) : Response(a)[i] = IF i <= Len(h) THEN h[i] ELSE b[i - Len(h)]
  <2> DEFINE t == Response(a)
  <2>1. t = h \o b
    BY <1>4
  <2> HIDE DEF t
  <2>2. /\ t \in Seq(Piece) /\ Len(t) = Len(h) + Len(b)
        /\ \A i \in 1..(Len(h) + Len(b)) : t[i] = IF i <= Len(h) THEN h[i] ELSE b[i - Len(h)]
    BY <1>4, <2>1, ConcatProperties, Zenon
  <2> QED
    BY <2>2 DEF t
<1>6. ASSUME NEW i \in 1..2 PROVE Response(a)[i] = h[i]
  <2>1. i \in 1..(Len(h) + Len(b)) /\ i <= Len(h)
    BY <1>1, <1>4
  <2> QED
    BY <1>5, <2>1
<1>7. ASSUME NEW i \in 1..a.length PROVE Response(a)[2 + i] = b[i]
  <2>1. 2 + i \in 1..(Len(h) + Len(b)) /\ ~(2 + i <= Len(h)) /\ 2 + i - Len(h) = i
    BY <1>1, <1>4
  <2> QED
    BY <1>5, <2>1
<1>8. Len(Response(a)) = 2 + a.length
  BY <1>4, <1>5
<1> QED
  BY <1>1, <1>2, <1>3, <1>5, <1>6, <1>7, <1>8 DEF h, b

\* The pieces of the response before the buffer.
Base == IF hpc = "header" THEN 0 ELSE 2

\* The buffer is its part of the response.
LEMMA BufferIs ==
  ASSUME answer \in Answer
  PROVE  /\ Buffer \in Seq(Piece) /\ Len(Buffer) \in Nat
         /\ Len(Buffer) = (IF hpc = "header" THEN 2 ELSE answer.length)
         /\ Base + Len(Buffer) <= 2 + answer.length
         /\ \A i \in 1..Len(Buffer) : Response(answer)[Base + i] = Buffer[i]
<1>1. /\ answer.length \in Nat
      /\ Header(answer) \in Seq(Piece) /\ Len(Header(answer)) = 2
      /\ Body(answer) \in Seq(Piece) /\ Len(Body(answer)) = answer.length
      /\ \A i \in 1..2 : Response(answer)[i] = Header(answer)[i]
      /\ \A i \in 1..answer.length : Response(answer)[2 + i] = Body(answer)[i]
  BY ResponseParts
<1>2. CASE hpc = "header"
  <2>1. Buffer = Header(answer) /\ Base = 0
    BY <1>2 DEF Buffer, Base
  <2>2. \A i \in 1..2 : Response(answer)[0 + i] = Header(answer)[i]
    <3>1. \A i \in 1..2 : 0 + i = i
      OBVIOUS
    <3> QED
      BY <1>1, <3>1
  <2>3. 0 + 2 <= 2 + answer.length /\ 2 \in Nat
    BY <1>1
  <2>4. Len(Buffer) = 2
    BY <1>1, <2>1
  <2> QED
    BY <1>1, <1>2, <2>1, <2>2, <2>3, <2>4
<1>3. CASE hpc # "header"
  <2>1. Buffer = Body(answer) /\ Base = 2
    BY <1>3 DEF Buffer, Base
  <2> QED
    BY <1>1, <1>3, <2>1
<1> QED
  BY <1>2, <1>3

\* What recv takes and what is chosen for it.
LEMMA RecvAnswers ==
  ASSUME TypeOK, Recv
  PROVE  /\ taken' \in 0..(ReqSize - 1) /\ taken' \in 0..Len(Text(request))
         /\ answer' \in Answer /\ answer' # NoAnswer
         /\ answer'.code = Dispatch(Prefix(Text(request), taken'))
<1> USE ConstantsAssumption
<1>1. Len(Text(request)) \in Nat /\ arrived \in 0..Len(Text(request)) /\ ReqSize - 1 \in Nat
  BY TextParts DEF TypeOK
<1>2. taken' = Min({arrived, ReqSize - 1})
  BY DEF Recv
<1>3. taken' = IF arrived <= ReqSize - 1 THEN arrived ELSE ReqSize - 1
  <2>1. arrived \in Int /\ ReqSize - 1 \in Int
    BY <1>1
  <2> QED
    BY <1>2, <2>1, MinOfTwo, Zenon
<1>4. taken' \in 0..(ReqSize - 1) /\ taken' \in 0..Len(Text(request))
  BY <1>1, <1>3
<1> DEFINE code == Dispatch(Prefix(Text(request), taken'))
<1>5. code \in {0, 200, 400, 404, 405}
  <2>1. \A x : \E m, p : Dispatch(x) = Wanted(m, p)
    BY DispatchIs
  <2>2. \A m, p : Wanted(m, p) \in {0, 200, 400, 404, 405}
    BY DEF Wanted
  <2>3. PICK m, p : code = Wanted(m, p)
    BY <2>1, Zenon
  <2> HIDE DEF code
  <2> QED
    BY <2>2, <2>3
<1>6. Choose(code)
  BY DEF Recv
<1> HIDE DEF code
<1>7. \E n \in 0..MaxBody : answer' = [code |-> code, length |-> n]
  <2>1. CASE code = 0
    BY <1>6, <2>1 DEF Choose
  <2>2. CASE code # 0
    <3>1. answer' = [code |-> code, length |-> 1] /\ 1 \in 0..MaxBody
      BY <1>6, <2>2 DEF Choose
    <3> QED
      BY <3>1
  <2> QED
    BY <2>1, <2>2
<1>8. answer' \in Answer /\ answer'.code = code
  BY <1>5, <1>7 DEF Answer
<1>9. answer' # NoAnswer
  BY <1>5, <1>8 DEF NoAnswer
<1> QED
  BY <1>4, <1>8, <1>9 DEF code

\* At the end the client has what was sent, or as much of it as the reset left.
LEMMA CloseGives ==
  ASSUME StreamInv, Close
  PROVE  /\ sent' = sent /\ got' \in Seq(Piece) /\ Len(got') \in Nat /\ Len(got') <= Len(sent)
         /\ \A i \in 1..Len(got') : got'[i] = sent[i]
         /\ client = "open" /\ taken = Len(Text(request)) => got' = sent
<1>1. sent \in Seq(Piece) /\ Len(sent) \in Nat /\ sent' = sent
  BY LenProperties DEF StreamInv, Close
<1>2. CASE got' = sent
  BY <1>1, <1>2
<1>3. ASSUME ~(client = "open" /\ taken = Len(Text(request))),
             NEW k \in 0..Len(sent), got' = Prefix(sent, k)
      PROVE  /\ got' \in Seq(Piece) /\ Len(got') = k /\ \A i \in 1..Len(got') : got'[i] = sent[i]
  <2>1. \A i \in 1..k : sent[i] \in Piece
    BY <1>1, ElementOfSeq
  <2>2. got' = SubSeq(sent, 1, k)
    BY <1>3 DEF Prefix
  <2>3. /\ SubSeq(sent, 1, k) \in Seq(Piece)
        /\ Len(SubSeq(sent, 1, k)) = IF 1 <= k THEN k - 1 + 1 ELSE 0
        /\ \A i \in 1..(k - 1 + 1) : SubSeq(sent, 1, k)[i] = sent[1 + i - 1]
    BY <1>1, <2>1, SubSeqProperties
  <2>4. Len(got') = k
    BY <1>1, <2>2, <2>3
  <2>5. ASSUME NEW i \in 1..k PROVE got'[i] = sent[i]
    <3>1. i \in 1..(k - 1 + 1) /\ 1 + i - 1 = i
      BY <1>1
    <3> QED
      BY <2>2, <2>3, <3>1
  <2> QED
    BY <2>2, <2>3, <2>4, <2>5
<1>4. \/ got' = sent
      \/ /\ ~(client = "open" /\ taken = Len(Text(request)))
         /\ \E k \in 0..Len(sent) : got' = Prefix(sent, k)
  BY DEF Close
<1>5. CASE /\ ~(client = "open" /\ taken = Len(Text(request)))
           /\ \E k \in 0..Len(sent) : got' = Prefix(sent, k)
  <2>1. PICK k \in 0..Len(sent) : got' = Prefix(sent, k)
    BY <1>5
  <2>2. got' \in Seq(Piece) /\ Len(got') = k /\ \A i \in 1..Len(got') : got'[i] = sent[i]
    BY <1>3, <1>5, <2>1
  <2> QED
    BY <1>1, <1>5, <2>2
<1> QED
  BY <1>2, <1>4, <1>5

\* What send takes is added to the stream.
LEMMA SendAdds ==
  ASSUME answer \in Answer, OffInv, StreamInv, NEW k \in 1..Len(Buffer), Send(k)
  PROVE  /\ sent' \in Seq(Piece) /\ Len(sent) \in Nat /\ Len(sent') = Len(sent) + k
         /\ \A i \in 1..Len(sent) : sent'[i] = sent[i]
         /\ \A i \in 1..k : sent'[Len(sent) + i] = Buffer[off + i]
<1>1. /\ off + k <= Len(Buffer) /\ off \in Nat /\ k \in Nat /\ k >= 1
      /\ sent' = sent \o SubSeq(Buffer, off + 1, off + k)
      /\ Buffer \in Seq(Piece) /\ Len(Buffer) \in Nat
  BY BufferIs DEF Send, OffInv
<1>2. sent \in Seq(Piece) /\ Len(sent) \in Nat
  BY LenProperties DEF StreamInv
<1>4. off + 1 \in Int /\ off + k \in Int /\ off + 1 <= off + k
  BY <1>1
<1> DEFINE b == SubSeq(Buffer, off + 1, off + k)
<1>5. /\ b \in Seq(Piece) /\ Len(b) = k /\ \A i \in 1..k : b[i] = Buffer[off + i]
  <2>1. \A i \in (off + 1)..(off + k) : Buffer[i] \in Piece
    <3>1. \A i \in (off + 1)..(off + k) : i \in 1..Len(Buffer)
      BY <1>1, <1>4
    <3> QED
      BY <1>1, <3>1, ElementOfSeq
  <2>2. /\ b \in Seq(Piece) /\ Len(b) = IF off + 1 <= off + k THEN (off + k) - (off + 1) + 1 ELSE 0
        /\ \A i \in 1..((off + k) - (off + 1) + 1) : b[i] = Buffer[(off + 1) + i - 1]
    BY <1>4, <2>1, SubSeqProperties
  <2>3. (off + k) - (off + 1) + 1 = k /\ \A i \in 1..k : (off + 1) + i - 1 = off + i
    BY <1>1
  <2> QED
    BY <1>4, <2>2, <2>3
<1>6. sent' = sent \o b
  BY <1>1
<1> HIDE DEF b
<1>7. /\ sent' \in Seq(Piece) /\ Len(sent') = Len(sent) + Len(b)
      /\ \A i \in 1..(Len(sent) + Len(b)) : sent'[i] = IF i <= Len(sent) THEN sent[i] ELSE b[i - Len(sent)]
  BY <1>2, <1>5, <1>6, ConcatProperties
<1>9. ASSUME NEW i \in 1..Len(sent) PROVE sent'[i] = sent[i]
  <2>1. i \in 1..(Len(sent) + Len(b)) /\ i <= Len(sent)
    BY <1>1, <1>2, <1>5
  <2> QED
    BY <1>7, <2>1
<1>10. ASSUME NEW i \in 1..k PROVE sent'[Len(sent) + i] = Buffer[off + i]
  <2> DEFINE j == Len(sent) + i
  <2>1. j \in 1..(Len(sent) + Len(b)) /\ ~(j <= Len(sent)) /\ j - Len(sent) = i
    BY <1>1, <1>2, <1>5
  <2> HIDE DEF j
  <2>2. sent'[j] = b[j - Len(sent)]
    BY <1>7, <2>1
  <2>3. sent'[j] = b[i]
    BY <2>1, <2>2
  <2> QED
    BY <1>5, <2>3 DEF j
<1> QED
  BY <1>2, <1>5, <1>7, <1>9, <1>10

\* As long as the header was sent, it goes where it belongs.
LEMMA SendFits ==
  ASSUME answer \in Answer, OffInv, StreamInv, NEW k \in 1..Len(Buffer), Send(k),
         "header" \notin failed
  PROVE  /\ Len(sent') = Base + off + k /\ Len(sent') <= 2 + answer.length
         /\ \A i \in 1..Len(sent') : sent'[i] = Response(answer)[i]
<1>1. /\ off + k <= Len(Buffer) /\ off \in Nat /\ k \in Nat /\ k >= 1 /\ hpc \in {"header", "body"}
      /\ Len(Buffer) \in Nat /\ Base + Len(Buffer) <= 2 + answer.length /\ Base \in Nat
      /\ answer.length \in Nat
      /\ \A i \in 1..Len(Buffer) : Response(answer)[Base + i] = Buffer[i]
  BY BufferIs, ResponseParts DEF Send, OffInv, Base
<1>2. Len(sent) = Base + off /\ \A i \in 1..Len(sent) : sent[i] = Response(answer)[i]
  BY <1>1 DEF StreamInv, Base
<1>3. /\ Len(sent') = Len(sent) + k
      /\ \A i \in 1..Len(sent) : sent'[i] = sent[i]
      /\ \A i \in 1..k : sent'[Len(sent) + i] = Buffer[off + i]
  BY SendAdds
<1>4. Len(sent') = Base + off + k /\ Len(sent') <= 2 + answer.length
  BY <1>1, <1>2, <1>3
<1>5. ASSUME NEW i \in 1..Len(sent') PROVE sent'[i] = Response(answer)[i]
  <2>1. CASE i <= Len(sent)
    <3>1. i \in 1..Len(sent)
      BY <1>1, <1>2, <2>1
    <3> QED
      BY <1>2, <1>3, <3>1
  <2>2. CASE ~(i <= Len(sent))
    <3> DEFINE j == i - Len(sent)
    <3>1. /\ j \in 1..k /\ Len(sent) + j = i /\ off + j \in 1..Len(Buffer)
          /\ Base + (off + j) = i
      BY <1>1, <1>2, <1>4, <2>2
    <3> HIDE DEF j
    <3>2. sent'[i] = Buffer[off + j]
      BY <1>3, <3>1
    <3>3. Response(answer)[Base + (off + j)] = Buffer[off + j]
      BY <1>1, <3>1
    <3> QED
      BY <3>1, <3>2, <3>3
  <2> QED
    BY <2>1, <2>2
<1> QED
  BY <1>4, <1>5

\* The steps that leave the reply alone.
LEMMA ReplyKept ==
  ASSUME [Next]_vars,
         Quiet \/ AcceptFails \/ Accept \/ HangUp \/ \E k \in 1..Len(Text(request)) : Arrive(k)
  PROVE  UNCHANGED <<request, taken, answer, off, sent, got, failed>>
<1>1. CASE Quiet
  BY <1>1, QuietKeeps
<1>2. CASE ~Quiet
  BY <1>2 DEF AcceptFails, Accept, HangUp, Arrive, reply
<1> QED
  BY <1>1, <1>2

\* They leave the thread where it is, or do not bring it to an answer.
LEMMA ThreadKept ==
  ASSUME OwnInv, [Next]_vars,
         Quiet \/ AcceptFails \/ Accept \/ HangUp \/ \E k \in 1..Len(Text(request)) : Arrive(k)
  PROVE  \/ hpc' = hpc
         \/ hpc \notin Handling /\ hpc' \notin Handling
         \/ hpc = "accept" /\ hpc' = "recv"
         \/ hpc = "recv" /\ hpc' = "close"
<1>1. CASE Starting
  BY <1>1 DEF Starting, ResolveFails, Resolve, Socket, SocketFails, BindFails, Bind, NoneBound,
              StartFails, Listen, Create, thread, OwnInv, Handling
<1>2. CASE ~Starting
  BY <1>2 DEF Quiet, ThreadStart, Test, PollNothing, Poll, AcceptFails, Accept, RecvFails,
              SendInterrupted, HangUp, Arrive, Stop, Done, vars, Handling
<1> QED
  BY <1>1, <1>2

\* The reply: what was taken, chosen and sent.
LEMMA ReplyTypeStep == ASSUME TypeOK, ConnInv, OffInv, StreamInv, [Next]_vars PROVE ReplyType'
<1> USE ConstantsAssumption
<1>0. ReplyType /\ sent \in Seq(Piece) /\ got \in Seq(Piece) /\ Len(sent) \in Nat /\ Len(got) \in Nat
  BY TypeParts, LenProperties DEF StreamInv
<1>1. CASE Quiet \/ AcceptFails \/ Accept \/ HangUp \/ \E k \in 1..Len(Text(request)) : Arrive(k)
  <2>1. UNCHANGED <<taken, answer, sent, got, failed>>
    BY <1>1, ReplyKept
  <2> QED
    BY <1>0, <2>1, Zenon DEF ReplyType
<1>2. CASE Recv
  <2>1. taken' \in 0..(ReqSize - 1) /\ answer' \in Answer
    BY <1>2, RecvAnswers
  <2>2. UNCHANGED <<sent, got, failed>>
    BY <1>2 DEF Recv
  <2>3. answer' \in [code : {-1, 0, 200, 400, 404, 405}, length : 0..MaxBody]
    BY <2>1 DEF Answer
  <2>4. failed \subseteq {"header", "body"} /\ Len(got) <= Len(sent)
    BY <1>0 DEF ReplyType
  <2> QED
    BY <2>1, <2>2, <2>3, <2>4, Zenon DEF ReplyType
<1>4. ASSUME NEW k \in 1..Len(Buffer), Send(k) PROVE ReplyType'
  <2>0. answer \in Answer
    BY <1>0 DEF ReplyType, Answer
  <2>1. Len(sent') = Len(sent) + k /\ k \in Nat
    <3>1. Len(Buffer) \in Nat
      BY <2>0, BufferIs
    <3> QED
      BY <1>4, <2>0, <3>1, SendAdds
  <2>2. UNCHANGED <<taken, answer, got, failed>>
    BY <1>4 DEF Send
  <2>3. Len(got) <= Len(sent) + k
    BY <1>0, <2>1 DEF ReplyType
  <2> QED
    BY <1>0, <2>1, <2>2, <2>3 DEF ReplyType
<1>5. CASE SendFails
  BY <1>0, <1>5 DEF SendFails, ReplyType
<1>6. CASE Close
  <2>1. UNCHANGED <<taken, answer, failed>> /\ Len(got') <= Len(sent')
    BY <1>6, CloseGives DEF Close
  <2> QED
    BY <1>0, <2>1 DEF ReplyType
<1>7. ASSUME NEW r \in Requests, Connect(r) PROVE ReplyType'
  <2>1. taken' = 0 /\ answer' = NoAnswer /\ failed' = {} /\ sent' = <<>> /\ got' = <<>>
    BY <1>7 DEF Connect
  <2> QED
    BY <2>1 DEF ReplyType, NoAnswer
<1> QED
  BY <1>1, <1>2, <1>4, <1>5, <1>6, <1>7, NotQuiet

\* send_all stays within its buffer, and starts at the beginning of the next one.
LEMMA OffStep == ASSUME TypeOK, OwnInv, ConnInv, OffInv, [Next]_vars PROVE OffInv'
<1>0. answer \in Answer /\ answer.length \in Nat
  <2>1. answer \in Answer
    BY DEF TypeOK, Answer
  <2> QED
    BY <2>1, ResponseParts
<1>1. CASE Quiet \/ AcceptFails \/ Accept \/ HangUp \/ \E k \in 1..Len(Text(request)) : Arrive(k)
  <2>1. UNCHANGED <<answer, off>>
    BY <1>1, ReplyKept
  <2> QED
    BY <1>1, <2>1, ThreadKept DEF OffInv, Handling
<1>2. CASE Recv
  BY <1>2 DEF Recv, OffInv
<1>3. ASSUME NEW k \in 1..Len(Buffer), Send(k) PROVE OffInv'
  <2>1. /\ Len(Buffer) \in Nat /\ k \in Nat /\ off \in Nat /\ hpc \in {"header", "body"} /\ answer' = answer
        /\ Len(Buffer) = (IF hpc = "header" THEN 2 ELSE answer.length)
    BY <1>0, <1>3, BufferIs DEF OffInv, Send
  <2>2. CASE off + k < Len(Buffer) /\ off' = off + k /\ hpc' = hpc
    <3>1. off' \in Nat /\ off' < Len(Buffer)
      BY <2>1, <2>2
    <3> QED
      BY <2>1, <2>2, <3>1 DEF OffInv
  <2>3. CASE NextBuffer
    BY <1>0, <2>1, <2>3 DEF NextBuffer, OffInv
  <2> QED
    BY <1>3, <2>2, <2>3 DEF Send
<1>4. CASE SendFails
  BY <1>0, <1>4 DEF SendFails, NextBuffer, OffInv
<1>5. CASE Close
  BY <1>5 DEF Close, OffInv
<1>6. ASSUME NEW r \in Requests, Connect(r) PROVE OffInv'
  BY <1>6 DEF Connect, ConnInv, Handling, OffInv
<1> QED
  BY <1>1, <1>2, <1>3, <1>4, <1>5, <1>6, NotQuiet

\* A step that leaves the stream alone, and does not bring the thread to an answer or
\* to the end of one, keeps what is known of it.
LEMMA StreamKept ==
  ASSUME StreamInv, UNCHANGED <<request, taken, answer, off, sent, got, failed>>,
         hpc' \in {"header", "body"} => hpc' = hpc,
         hpc' = "recv" => failed = {},
         hpc' = "close" /\ answer # NoAnswer => hpc = "close",
         client' = "ended" => client = "ended"
  PROVE  StreamInv'
  BY DEF StreamInv

\* No step puts a piece in the wrong place or loses one.
LEMMA StreamStep == ASSUME TypeOK, OwnInv, ConnInv, OffInv, StreamInv, [Next]_vars PROVE StreamInv'
<1> USE ConstantsAssumption
<1>0. /\ sent \in Seq(Piece) /\ got \in Seq(Piece) /\ Len(sent) \in Nat /\ Len(got) \in Nat
      /\ answer \in Answer /\ answer.length \in Nat /\ Len(got) <= Len(sent)
  <2>1. answer \in Answer /\ Len(got) <= Len(sent)
    BY DEF TypeOK, Answer
  <2> QED
    BY <2>1, LenProperties, ResponseParts DEF StreamInv
<1>1. CASE Quiet \/ AcceptFails \/ Accept \/ HangUp \/ \E k \in 1..Len(Text(request)) : Arrive(k)
  <2>1. UNCHANGED <<request, taken, answer, off, sent, got, failed>>
    BY <1>1, ReplyKept
  <2>2. \/ hpc' = hpc
        \/ hpc \notin Handling /\ hpc' \notin Handling
        \/ hpc = "accept" /\ hpc' = "recv"
        \/ hpc = "recv" /\ hpc' = "close"
    BY <1>1, ThreadKept
  <2>3. client' = "ended" => client = "ended"
    <3>1. CASE Quiet
      BY <3>1, QuietKeeps
    <3>2. CASE ~Quiet
      BY <1>1, <3>2 DEF AcceptFails, Accept, HangUp, Arrive, ConnInv
    <3> QED
      BY <3>1, <3>2
  <2>4. hpc \in {"accept", "recv"} => answer = NoAnswer /\ failed = {}
    BY DEF ConnInv, Handling, Fresh
  <2>5. hpc' \in {"header", "body"} => hpc' = hpc
    BY <2>2 DEF Handling
  <2>6. hpc' = "recv" => failed = {}
    BY <2>2, <2>4 DEF Handling
  <2>7. hpc' = "close" /\ answer # NoAnswer => hpc = "close"
    BY <2>2, <2>4 DEF Handling
  <2> QED
    BY <2>1, <2>3, <2>5, <2>6, <2>7, StreamKept
<1>2. CASE Recv
  <2>1. answer' \in Answer
    BY <1>2, RecvAnswers
  <2>2. /\ sent' = <<>> /\ got' = <<>> /\ hpc' = "header" /\ failed' = {} /\ off' = 0
        /\ client' \in {"open", "gone"}
    BY <1>2 DEF Recv, ConnInv, Handling, Fresh, conn
  <2>3. answer'.length \in Nat
    BY <2>1, ResponseParts
  <2> QED
    BY <2>2, <2>3 DEF StreamInv
<1>4. ASSUME NEW k \in 1..Len(Buffer), Send(k) PROVE StreamInv'
  <2>1. /\ UNCHANGED <<client, taken, request, answer, got, failed>> /\ client # "ended"
        /\ hpc \in {"header", "body"} /\ off \in Nat /\ k \in Nat
        /\ Len(Buffer) = (IF hpc = "header" THEN 2 ELSE answer.length)
    BY <1>0, <1>4, BufferIs DEF Send, conn, ConnInv, Handling, OffInv
  <2>2. /\ sent' \in Seq(Piece) /\ Len(sent') = Len(sent) + k
        /\ \A i \in 1..Len(sent) : sent'[i] = sent[i]
    BY <1>0, <1>4, SendAdds
  <2>3. \/ off + k < Len(Buffer) /\ off' = off + k /\ hpc' = hpc
        \/ off + k = Len(Buffer) /\ NextBuffer
    BY <1>4 DEF Send
  <2>4. \A i \in 1..Len(got) : got[i] = sent'[i]
    <3>1. \A i \in 1..Len(got) : i \in 1..Len(sent)
      BY <1>0
    <3> QED
      BY <2>2, <3>1 DEF StreamInv
  <2>5. hpc' \in {"recv", "header"} => failed = {}
    BY <2>1, <2>3 DEF NextBuffer, StreamInv
  <2>6. ASSUME "header" \notin failed
        PROVE  /\ Len(sent') = Base + off + k /\ Len(sent') <= 2 + answer.length
               /\ \A i \in 1..Len(sent') : sent'[i] = Response(answer)[i]
    BY <1>0, <1>4, <2>6, SendFits
  <2>7. ASSUME "header" \notin failed
        PROVE  /\ hpc' = "header" => Len(sent') = off'
               /\ hpc' = "body" => Len(sent') = 2 + off'
               /\ hpc' = "close" => Len(sent') = 2 + answer.length
    <3>1. CASE hpc = "header"
      <4>1. Len(sent') = off + k /\ Len(Buffer) = 2
        BY <2>1, <2>6, <2>7, <3>1 DEF Base
      <4> QED
        BY <1>0, <2>1, <2>3, <3>1, <4>1 DEF NextBuffer
    <3>2. CASE hpc = "body"
      <4>1. Len(sent') = 2 + off + k /\ Len(Buffer) = answer.length
        BY <2>1, <2>6, <2>7, <3>2 DEF Base
      <4> QED
        BY <1>0, <2>1, <2>3, <3>2, <4>1 DEF NextBuffer
    <3> QED
      BY <2>1, <3>1, <3>2
  <2> QED
    BY <1>0, <2>1, <2>2, <2>4, <2>5, <2>6, <2>7 DEF StreamInv
<1>5. CASE SendFails
  <2>1. /\ UNCHANGED <<client, taken, request, answer, sent, got>> /\ failed' = failed \cup {hpc}
        /\ hpc' \in {"body", "close"} /\ hpc \in {"header", "body"} /\ failed' # {}
        /\ hpc = "body" => hpc' = "close"
    BY <1>5 DEF SendFails, NextBuffer, conn
  <2>2. "header" \notin failed' => "header" \notin failed /\ hpc' = "close"
    BY <2>1
  <2> QED
    BY <2>1, <2>2 DEF StreamInv
<1>6. CASE Close
  <2>1. /\ UNCHANGED <<taken, request, answer, off, failed>> /\ hpc = "close" /\ hpc' = "test"
        /\ client' = IF client = "open" THEN "ended" ELSE "left"
    BY <1>6 DEF Close
  <2>2. /\ sent' = sent /\ got' \in Seq(Piece) /\ \A i \in 1..Len(got') : got'[i] = sent[i]
        /\ client = "open" /\ taken = Len(Text(request)) => got' = sent
    BY <1>6, CloseGives
  <2>3. client' = "ended" /\ answer # NoAnswer /\ taken = Len(Text(request)) /\ failed = {}
          => Len(got') = 2 + answer.length
    BY <2>1, <2>2 DEF StreamInv
  <2> QED
    BY <1>0, <2>1, <2>2, <2>3 DEF StreamInv
<1>7. ASSUME NEW r \in Requests, Connect(r) PROVE StreamInv'
  <2>1. /\ sent' = <<>> /\ got' = <<>> /\ client' = "connecting" /\ answer' = NoAnswer /\ failed' = {}
        /\ hpc' = hpc /\ hpc \notin Handling
    BY <1>7 DEF Connect, ConnInv
  <2>2. answer'.length = 0
    BY <2>1 DEF NoAnswer
  <2> QED
    BY <2>1, <2>2 DEF StreamInv, Handling
<1> QED
  BY <1>1, <1>2, <1>4, <1>5, <1>6, <1>7, NotQuiet

\* An answer, once chosen, stays the answer to that request.
LEMMA AnswerStep == ASSUME TypeOK, AnswerFits, [Next]_vars PROVE AnswerFits'
<1>1. CASE UNCHANGED <<request, taken, answer>>
  BY <1>1 DEF AnswerFits
<1>2. CASE Recv
  <2>1. /\ request' = request /\ request \in Requests
        /\ taken' \in 0..Len(Text(request)) /\ answer'.code = Dispatch(Prefix(Text(request), taken'))
    BY <1>2, RecvAnswers DEF Recv, conn, TypeOK
  <2>2. answer'.code = Wanted(request.method, Prefix(request.path,
                          Min({taken' - Len(request.method) - 1, Len(request.path)})))
    BY <2>1, Answered
  <2> QED
    BY <2>1, <2>2 DEF AnswerFits
<1>3. ASSUME NEW r \in Requests, Connect(r) PROVE AnswerFits'
  BY <1>3 DEF Connect, AnswerFits
<1>4. CASE ~Recv /\ ~(\E r \in Requests : Connect(r))
  <2>1. CASE Quiet
    BY <2>1, QuietKeeps, <1>1
  <2>2. CASE ~Quiet
    <3>1. UNCHANGED <<request, taken, answer>>
      BY <1>4, <2>2, NotQuiet DEF AcceptFails, Accept, Send, SendFails, Close, Arrive,
                                 HangUp, conn, reply
    <3> QED
      BY <1>1, <3>1
  <2> QED
    BY <2>1, <2>2
<1> QED
  BY <1>2, <1>3, <1>4

-----------------------------------------------------------------------------
(* Results.                                                                *)

\* What holds between any two steps of the start, the thread and the clients.
THEOREM Invariant == Spec => []IInv
<1> USE ConstantsAssumption
<1>1. Init => IInv
  <2> SUFFICES ASSUME Init PROVE IInv
    OBVIOUS
  <2>1. NoAnswer.length = 0 /\ NoAnswer \in Answer
    BY DEF NoAnswer, Answer
  <2>2. Len(Text(request)) \in Nat
    BY TextParts DEF Init
  <2>3. StartType /\ ClientType
    BY <2>2 DEF Init, StartType, ClientType
  <2>4. ReplyType
    BY <2>1 DEF Init, ReplyType, Answer
  <2>5. g_running \in BOOLEAN
    BY Zenon DEF Init
  <2>11. OffInv /\ OffType
    BY <2>1 DEF Init, OffInv, OffType
  <2>6. TypeOK
    BY <2>3, <2>4, <2>5, <2>11, TypeParts
  <2>7. OwnInv
    BY DEF Init, OwnInv, StartInv
  <2>8. ConnInv
    BY DEF Init, ConnInv, Fresh, Handling
  <2>9. StreamInv
    BY <2>1 DEF Init, StreamInv
  <2>10. AnswerFits
    BY DEF Init, AnswerFits
  <2> QED
    BY <2>6, <2>7, <2>8, <2>9, <2>10, <2>11 DEF IInv
<1>2. ASSUME IInv, [Next]_vars PROVE IInv'
  <2>1. OwnInv'
    <3> SUFFICES ASSUME ~Starting, ~Serving PROVE OwnInv'
      BY <1>2, StartPreserves, ServePreserves DEF IInv
    <3>1. UNCHANGED <<pc, rp, sfd, fds, heap, hpc>>
      BY <1>2 DEF Next, Connect, Arrive, HangUp, Stop, Done, vars, world, start
    <3> QED
      BY <1>2, <3>1, OthersPreserve DEF IInv
  <2>2. TypeOK'
    <3>1. StartType /\ ClientType /\ ReplyType /\ g_running \in BOOLEAN
      BY <1>2, TypeParts, Zenon DEF IInv
    <3>2. StartType' /\ ClientType'
      BY <1>2, <3>1, StartTypeStep, ClientTypeStep DEF IInv
    <3>3. ReplyType'
      BY <1>2, ReplyTypeStep DEF IInv
    <3>4. g_running' \in BOOLEAN
      BY <1>2, <3>1, FlagStep, Zenon
    <3>5. OffInv' /\ answer'.length \in Nat
      BY <1>2, <3>3, OffStep DEF IInv, ReplyType
    <3>6. OffType'
      BY <3>5 DEF OffInv, OffType
    <3> QED
      BY <3>2, <3>3, <3>4, <3>6, Zenon DEF TypeOK, StartType, ClientType, ReplyType, OffType
  <2>3. ConnInv' /\ OffInv' /\ StreamInv' /\ AnswerFits'
    BY <1>2, ConnStep, OffStep, StreamStep, AnswerStep DEF IInv
  <2> QED
    BY <2>1, <2>2, <2>3 DEF IInv
<1> QED
  BY <1>1, <1>2, PTL DEF Spec

\* Whatever fails at the start and whatever clients do, no descriptor and no memory
\* is left behind.
THEOREM NothingLeaks == Spec => []DescriptorsOwned
<1>1. IInv => DescriptorsOwned
  BY DEF IInv, OwnInv, StartInv, ThreadInv, DescriptorsOwned
<1> QED
  BY <1>1, Invariant, PTL

\* Every variable of the endpoint keeps its type: recv never fills the request buffer
\* to its last byte, and a client never has more than was written.
THEOREM TypeCorrect == Spec => []TypeOK
<1>1. IInv => TypeOK
  BY DEF IInv
<1> QED
  BY <1>1, Invariant, PTL

\* Wherever the segments of a request end, what handle_conn answers is right for the
\* part of the path it has.
THEOREM AnswersRight == Spec => []AnswerFits
<1>1. IInv => AnswerFits
  BY DEF IInv
<1> QED
  BY <1>1, Invariant, PTL

\* However often send is short or interrupted, the client has the response from its
\* start without a gap unless send_all failed to send the header, and all of it
\* unless it left, sent too much or send_all failed.
THEOREM StreamRight == Spec => []StreamExact
<1>1. ASSUME IInv PROVE StreamExact
  <2>0. /\ sent \in Seq(Piece) /\ got \in Seq(Piece) /\ Len(sent) \in Nat /\ Len(got) \in Nat
        /\ Len(got) <= Len(sent) /\ answer \in Answer
    BY <1>1, LenProperties DEF IInv, TypeOK, StreamInv, Answer
  <2>1. /\ answer.length \in Nat /\ Response(answer) \in Seq(Piece)
        /\ Len(Response(answer)) = 2 + answer.length
    BY <2>0, ResponseParts
  <2>2. ASSUME "header" \notin failed
        PROVE  Len(got) <= 2 + answer.length /\ \A i \in 1..Len(got) : got[i] = Response(answer)[i]
    <3>1. \A i \in 1..Len(got) : i \in 1..Len(sent)
      BY <2>0
    <3>2. Len(sent) <= 2 + answer.length
      BY <1>1, <2>2 DEF IInv, StreamInv
    <3>3. \A i \in 1..Len(got) : got[i] = Response(answer)[i]
      BY <1>1, <2>2, <3>1 DEF IInv, StreamInv
    <3> QED
      BY <2>0, <2>1, <3>2, <3>3
  <2>3. ASSUME "header" \notin failed PROVE got = Prefix(Response(answer), Len(got))
    <3> DEFINE g == Len(got)
               p == SubSeq(Response(answer), 1, g)
    <3>1. g \in 0..Len(Response(answer)) /\ g \in Int /\ g - 1 + 1 = g
      BY <2>0, <2>1, <2>2, <2>3
    <3>2. \A i \in 1..g : Response(answer)[i] \in Piece
      BY <2>1, <3>1, ElementOfSeq
    <3>3. /\ p \in Seq(Piece) /\ Len(p) = IF 1 <= g THEN g - 1 + 1 ELSE 0
          /\ \A i \in 1..(g - 1 + 1) : p[i] = Response(answer)[1 + i - 1]
      BY <3>1, <3>2, SubSeqProperties
    <3>4. Len(p) = g
      BY <2>0, <3>1, <3>3
    <3>5. \A i \in 1..g : p[i] = Response(answer)[i]
      <4>1. \A i \in 1..g : 1 + i - 1 = i
        BY <3>1
      <4> QED
        BY <3>1, <3>3, <4>1
    <3>6. got = p
      BY <2>0, <2>2, <2>3, <3>3, <3>4, <3>5, SeqEqual
    <3> QED
      BY <3>6 DEF Prefix
  <2>4. client = "ended" /\ answer # NoAnswer /\ taken = Len(Text(request)) /\ failed = {}
          => got = Response(answer)
    <3> SUFFICES ASSUME Len(got) = 2 + answer.length, failed = {} PROVE got = Response(answer)
      BY <1>1 DEF IInv, StreamInv
    <3> QED
      BY <2>0, <2>1, <2>2, SeqEqual
  <2> QED
    BY <2>3, <2>4 DEF StreamExact
<1> QED
  BY <1>1, Invariant, PTL
=============================================================================
