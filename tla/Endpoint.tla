------------------------------ MODULE Endpoint ------------------------------
(***************************************************************************)
(* http.c: how the /metrics endpoint comes up, what it answers, and what   *)
(* it holds.  http_metrics_start opens a listener and may fail at every    *)
(* step; the thread then serves one connection at a time.  A request is a  *)
(* sequence of pieces of text that arrive in segments, and one recv is all *)
(* the code reads of it.  Lifecycle has the seconds and the timeouts.      *)
(***************************************************************************)
EXTENDS Integers, Sequences, FiniteSetsExt

CONSTANTS
    Addrs,       \* values of metrics_addr, as sequences of pieces
    Digits,      \* the pieces that are numbers
    TooLong,     \* the pieces that do not fit their buffers
    MaxResults,  \* bound: addresses getaddrinfo finds
    Requests,    \* what clients ask: [method, path, rest]
    ReqSize,     \* pieces that fit into req
    MaxBody,     \* bound: pieces of a body
    MaxConns,    \* bound: connections
    MaxSignals   \* bound: sends a signal interrupts

\* The piece that is a blank.
SP == "SP"

ASSUME ConstantsAssumption ==
    /\ MaxResults \in Nat /\ ReqSize \in Nat \ {0}
    /\ MaxBody \in Nat \ {0} /\ MaxConns \in Nat /\ MaxSignals \in Nat
    /\ SP \in STRING
    /\ \A r \in Requests :
          /\ r.method \in Seq(STRING) /\ r.path \in Seq(STRING) /\ r.rest \in Seq(STRING)
          /\ r.method # <<>> /\ \A k \in 1..Len(r.method) : r.method[k] # SP
          /\ \A k \in 1..Len(r.path) : r.path[k] # SP
          /\ r.path = <<>> => r.rest = <<>>
          /\ r.rest = <<>> \/ r.rest[1] = SP

VARIABLES
    g_running,
    metrics_addr,
    pc,       \* http_metrics_start: "parse", "socket", "bind", "listen",
              \* "create", "failed", "started"
    rp,       \* the results of getaddrinfo not yet tried
    sfd,      \* the listening descriptor or -1
    fds,      \* open descriptors: 0 is a connection, k the socket of result k
    heap,     \* what is allocated: "res", "fdp", "body"
    hpc,      \* metrics_thread: "none", "new", "test", "poll", "accept", "recv", "header",
              \* "body", "close", "ended"
    client,   \* "none", "connecting", "open", "gone", "ended", "left"
    request,  \* what the client sends
    arrived,  \* pieces of it that have arrived
    taken,    \* pieces that recv took
    answer,   \* the code and the body the code chose
    off,      \* send_all: pieces of its buffer sent
    sent,     \* the stream written to the connection
    got,      \* what the client has of it
    failed,   \* the calls of send_all that failed: "header", "body"
    conns, signals

start == <<metrics_addr, pc, rp, sfd>>
conn  == <<client, request, arrived>>
reply == <<taken, answer, off, sent, got, failed>>
world == <<g_running, start, conns, signals>>
vars  == <<g_running, start, fds, heap, hpc, conn, reply, conns, signals>>

-----------------------------------------------------------------------------
(* Text.                                                                   *)

\* "host:port": the part behind the last colon has to be a number, the part before
\* it may be empty or in brackets.
parse_addr(addr) ==
    LET colons == {k \in 1..Len(addr) : addr[k] = ":"}
        port == SubSeq(addr, Max(colons) + 1, Len(addr))
        host == SubSeq(addr, 1, Max(colons) - 1)
    IN /\ colons # {}
       /\ port # <<>> /\ \A k \in 1..Len(port) : port[k] \in Digits \ TooLong
       /\ \A k \in 1..Len(host) : host[k] \notin TooLong

Blank(s) == {k \in 1..Len(s) : s[k] = SP}

\* Words as sscanf finds them: blanks are skipped, a word ends at the next one.  They
\* are within the widths of the format, 15 and 511 bytes.
SkipBlanks(s) == SubSeq(s, Min({k \in 1..(Len(s) + 1) : k \notin Blank(s)}), Len(s))
Word(s) == SubSeq(s, 1, Min(Blank(s) \cup {Len(s) + 1}) - 1)
AfterWord(s) == SubSeq(s, Len(Word(s)) + 1, Len(s))

GET == <<"GE", "T">>
Slash == <<"/">>
Metrics == <<"/", "metrics">>
Health == <<"/", "health">>

\* Mutant: the path is compared by its beginning.
Dispatch_prefix(req) ==
    LET method == Word(SkipBlanks(req))
        path == Word(SkipBlanks(AfterWord(SkipBlanks(req))))
    IN CASE path = <<>> -> 400
         [] path # <<>> /\ method # GET -> 405
         [] Len(path) > 1 /\ SubSeq(path, 1, 2) = Metrics /\ method = GET -> 0
         [] path \in {Slash, Health} /\ method = GET -> 200
         [] OTHER -> 404

\* The answer to the text req: the code, with 200 for the text of "/" and "/health"
\* and 0 for a scrape.
Dispatch(req) ==
    LET method == Word(SkipBlanks(req))
        path == Word(SkipBlanks(AfterWord(SkipBlanks(req))))
    IN CASE path = <<>> -> 400
         [] path # <<>> /\ method # GET -> 405
         [] path = Metrics /\ method = GET -> 0
         [] path \in {Slash, Health} /\ method = GET -> 200
         [] OTHER -> 404

Text(r) == r.method \o (IF r.path = <<>> THEN <<>> ELSE <<SP>> \o r.path) \o r.rest

\* Header with the code and the length of the body, then the body, piece by piece.
Header(a) == <<[code |-> a.code, n |-> -1], [code |-> a.code, n |-> a.length]>>
Body(a) == [k \in 1..a.length |-> [code |-> -1, n |-> k]]
Response(a) == Header(a) \o Body(a)

NoAnswer == [code |-> -1, length |-> 0]
Prefix(s, k) == SubSeq(s, 1, k)

-----------------------------------------------------------------------------
TypeOK ==
    /\ g_running \in BOOLEAN /\ metrics_addr \in Addrs
    /\ pc \in {"parse", "socket", "bind", "listen", "create", "failed", "started"}
    /\ rp \in 0..MaxResults /\ sfd \in -1..MaxResults
    /\ fds \subseteq 0..MaxResults /\ heap \subseteq {"res", "fdp", "body"}
    /\ hpc \in {"none", "new", "test", "poll", "accept", "recv", "header", "body", "close", "ended"}
    /\ client \in {"none", "connecting", "open", "gone", "ended", "left"}
    /\ request \in Requests /\ arrived \in 0..Len(Text(request))
    /\ taken \in 0..(ReqSize - 1)
    /\ answer \in [code : {-1, 0, 200, 400, 404, 405}, length : 0..MaxBody]
    /\ off \in 0..(IF hpc = "header" THEN 2 ELSE answer.length)
    /\ failed \subseteq {"header", "body"}
    /\ Len(got) <= Len(sent)
    /\ conns \in 0..MaxConns /\ signals \in 0..MaxSignals

Init ==
    /\ g_running = TRUE /\ metrics_addr \in Addrs
    /\ pc = "parse" /\ rp = 0 /\ sfd = -1 /\ fds = {} /\ heap = {}
    /\ hpc = "none" /\ client = "none" /\ request \in Requests /\ arrived = 0
    /\ taken = 0 /\ answer = NoAnswer /\ off = 0 /\ sent = <<>> /\ got = <<>>
    /\ failed = {} /\ conns = 0 /\ signals = 0

-----------------------------------------------------------------------------
(* http_metrics_start and make_listener.                                   *)

thread == <<g_running, hpc, conn, reply, conns, signals>>

\* No address, a malformed one, or one that getaddrinfo does not know.
ResolveFails ==
    /\ pc = "parse"
    /\ pc' = "failed"
    /\ UNCHANGED <<metrics_addr, rp, sfd, fds, heap, thread>>

Resolve(n) ==
    /\ pc = "parse" /\ parse_addr(metrics_addr)
    /\ pc' = "socket" /\ rp' = n /\ heap' = heap \cup {"res"}
    /\ UNCHANGED <<metrics_addr, sfd, fds, thread>>

Socket ==
    /\ pc = "socket" /\ rp > 0
    /\ pc' = "bind" /\ sfd' = rp /\ fds' = fds \cup {rp}
    /\ UNCHANGED <<metrics_addr, rp, heap, thread>>

SocketFails ==
    /\ pc = "socket" /\ rp > 0
    /\ rp' = rp - 1 /\ sfd' = -1
    /\ UNCHANGED <<metrics_addr, pc, fds, heap, thread>>

\* Mutant: the socket that could not be bound stays open.
BindFailsOpen ==
    /\ pc = "bind"
    /\ pc' = "socket" /\ rp' = rp - 1 /\ sfd' = -1
    /\ UNCHANGED <<metrics_addr, fds, heap, thread>>

BindFails ==
    /\ pc = "bind"
    /\ pc' = "socket" /\ rp' = rp - 1 /\ sfd' = -1 /\ fds' = fds \ {sfd}
    /\ UNCHANGED <<metrics_addr, heap, thread>>

\* bind succeeds; freeaddrinfo.
Bind ==
    /\ pc = "bind"
    /\ pc' = "listen" /\ heap' = heap \ {"res"}
    /\ UNCHANGED <<metrics_addr, rp, sfd, fds, thread>>

\* No result could be bound.
NoneBound ==
    /\ pc = "socket" /\ rp = 0
    /\ pc' = "failed" /\ heap' = heap \ {"res"}
    /\ UNCHANGED <<metrics_addr, rp, sfd, fds, thread>>

\* listen, malloc or pthread_create fails: free and close.
StartFails ==
    /\ pc \in {"listen", "create"}
    /\ pc' = "failed" /\ fds' = fds \ {sfd} /\ heap' = heap \ {"fdp"}
    /\ UNCHANGED <<metrics_addr, rp, sfd, thread>>

\* listen, then malloc for the thread's argument.
Listen ==
    /\ pc = "listen"
    /\ pc' = "create" /\ heap' = heap \cup {"fdp"}
    /\ UNCHANGED <<metrics_addr, rp, sfd, fds, thread>>

Create ==
    /\ pc = "create"
    /\ pc' = "started" /\ hpc' = "new"
    /\ UNCHANGED <<metrics_addr, rp, sfd, fds, heap, g_running, conn, reply, conns, signals>>

Starting ==
    \/ ResolveFails \/ (\E n \in 0..MaxResults : Resolve(n)) \/ Socket \/ SocketFails
    \/ BindFails \/ Bind \/ NoneBound \/ StartFails \/ Listen \/ Create

-----------------------------------------------------------------------------
(* metrics_thread.                                                         *)

ThreadStart ==
    /\ hpc = "new"
    /\ hpc' = "test" /\ heap' = heap \ {"fdp"}
    /\ UNCHANGED <<world, fds, conn, reply>>

Test ==
    /\ hpc = "test"
    /\ IF g_running THEN hpc' = "poll" /\ UNCHANGED fds
                    ELSE hpc' = "ended" /\ fds' = fds \ {sfd}
    /\ UNCHANGED <<world, heap, conn, reply>>

\* A timeout, a signal or an event other than POLLIN.
PollNothing ==
    /\ hpc = "poll"
    /\ hpc' = "test"
    /\ UNCHANGED <<world, fds, heap, conn, reply>>

Poll ==
    /\ hpc = "poll" /\ client \in {"connecting", "gone"}
    /\ hpc' = "accept"
    /\ UNCHANGED <<world, fds, heap, conn, reply>>

\* A signal, no descriptor is left, or the connection was withdrawn.
AcceptFails ==
    /\ hpc = "accept"
    /\ hpc' = "test"
    /\ UNCHANGED client \/ (client = "gone" /\ client' = "left")
    /\ UNCHANGED <<world, fds, heap, request, arrived, reply>>

Accept ==
    /\ hpc = "accept"
    /\ hpc' = "recv" /\ fds' = fds \cup {0}
    /\ client' = IF client = "connecting" THEN "open" ELSE client
    /\ UNCHANGED <<world, heap, request, arrived, reply>>

\* Nothing came before the timeout or a signal, or the client is gone.
RecvFails ==
    /\ hpc = "recv" /\ (arrived = 0 \/ client = "gone")
    /\ hpc' = "close"
    /\ UNCHANGED <<world, fds, heap, conn, reply>>

\* The text n of prom_render is allocated unless it is a null pointer; the other
\* bodies are literals.
Choose(code) ==
    IF code = 0
    THEN \E n \in 0..MaxBody :
           /\ answer' = [code |-> code, length |-> n]
           /\ heap' = heap \cup {"body"} \/ (n = 0 /\ heap' = heap)
    ELSE answer' = [code |-> code, length |-> 1] /\ UNCHANGED heap

\* Mutant: no room is left for the terminating null.
RecvFull ==
    /\ hpc = "recv" /\ arrived > 0
    /\ taken' = Min({arrived, ReqSize})
    /\ Choose(Dispatch(Prefix(Text(request), taken')))
    /\ hpc' = "header"
    /\ UNCHANGED <<world, fds, conn, off, sent, got, failed>>

\* recv takes what has arrived, and that is the request.
Recv ==
    /\ hpc = "recv" /\ arrived > 0
    /\ taken' = Min({arrived, ReqSize - 1})
    /\ Choose(Dispatch(Prefix(Text(request), taken')))
    /\ hpc' = "header"
    /\ UNCHANGED <<world, fds, conn, off, sent, got, failed>>

\* What send_all is given: the header, then the body.
Buffer == IF hpc = "header" THEN Header(answer) ELSE Body(answer)

\* send_all has returned, and whatever its result the body follows the header, if
\* there is one.
NextBuffer ==
    /\ hpc' = IF hpc = "header" /\ answer.length > 0 THEN "body" ELSE "close"
    /\ off' = 0

\* Mutant: after a short write the buffer is sent from its beginning.
SendAgain(k) ==
    /\ hpc \in {"header", "body"} /\ off + k <= Len(Buffer)
    /\ sent' = sent \o SubSeq(Buffer, 1, k)
    /\ \/ off + k < Len(Buffer) /\ off' = off + k /\ UNCHANGED hpc
       \/ off + k = Len(Buffer) /\ NextBuffer
    /\ UNCHANGED <<world, fds, heap, conn, taken, answer, got, failed>>

\* send takes k pieces of what is left of the buffer, also when the client is gone
\* and the reset has not come yet.
Send(k) ==
    /\ hpc \in {"header", "body"} /\ off + k <= Len(Buffer)
    /\ sent' = sent \o SubSeq(Buffer, off + 1, off + k)
    /\ \/ off + k < Len(Buffer) /\ off' = off + k /\ UNCHANGED hpc
       \/ off + k = Len(Buffer) /\ NextBuffer
    /\ UNCHANGED <<world, fds, heap, conn, taken, answer, got, failed>>

\* EINTR: send again.
SendInterrupted ==
    /\ hpc \in {"header", "body"} /\ signals < MaxSignals
    /\ signals' = signals + 1
    /\ UNCHANGED <<g_running, start, fds, heap, hpc, conn, reply, conns>>

\* There is no room in the send buffer for the timeout, or the client is gone.  A
\* header cut short is followed by the body all the same.
SendFails ==
    /\ hpc \in {"header", "body"}
    /\ failed' = failed \cup {hpc} /\ NextBuffer
    /\ UNCHANGED <<world, fds, heap, conn, taken, answer, sent, got>>

\* free(body) and close(cfd).  A client that has not been read to its end gets a
\* reset, which may overtake the answer.
Close ==
    /\ hpc = "close"
    /\ hpc' = "test" /\ fds' = fds \ {0} /\ heap' = heap \ {"body"}
    /\ IF client = "open" /\ taken = Len(Text(request))
       THEN got' = sent
       ELSE \E k \in 0..Len(sent) : got' = Prefix(sent, k)
    /\ client' = IF client = "open" THEN "ended" ELSE "left"
    /\ UNCHANGED <<world, request, arrived, taken, answer, off, sent, failed>>

Serving ==
    \/ ThreadStart \/ Test \/ PollNothing \/ Poll \/ AcceptFails \/ Accept \/ RecvFails \/ Recv
    \/ (\E k \in 1..Len(Buffer) : Send(k)) \/ SendInterrupted \/ SendFails \/ Close

-----------------------------------------------------------------------------
(* Clients and signals.                                                    *)

Connect(r) ==
    /\ pc \in {"create", "started"} /\ sfd \in fds
    /\ client \in {"none", "ended", "left"} /\ conns < MaxConns
    /\ client' = "connecting" /\ request' = r /\ arrived' = 0 /\ conns' = conns + 1
    /\ taken' = 0 /\ answer' = NoAnswer /\ off' = 0 /\ sent' = <<>> /\ got' = <<>>
    /\ failed' = {}
    /\ UNCHANGED <<g_running, start, fds, heap, hpc, signals>>

\* A segment arrives.
Arrive(k) ==
    /\ client \in {"connecting", "open"}
    /\ arrived + k <= Len(Text(request)) /\ arrived' = arrived + k
    /\ UNCHANGED <<world, fds, heap, hpc, client, request, reply>>

HangUp ==
    /\ client \in {"connecting", "open"}
    /\ client' = "gone"
    /\ UNCHANGED <<world, fds, heap, hpc, request, arrived, reply>>

Stop ==
    /\ g_running
    /\ g_running' = FALSE
    /\ UNCHANGED <<start, fds, heap, hpc, conn, reply, conns, signals>>

Done == (pc = "failed" \/ hpc = "ended") /\ UNCHANGED vars

Next ==
    \/ Starting \/ Serving
    \/ (\E r \in Requests : Connect(r)) \/ (\E k \in 1..Len(Text(request)) : Arrive(k))
    \/ HangUp \/ Stop \/ Done

Spec == Init /\ [][Next]_vars

-----------------------------------------------------------------------------
(* Properties.                                                             *)

\* Whichever step of the start fails, no descriptor and no memory stays behind; a
\* thread between two connections holds the listener only, and nothing at its end.
DescriptorsOwned ==
    /\ pc = "failed" => fds = {} /\ heap = {}
    /\ hpc \in {"test", "poll", "accept"} => fds = {sfd} /\ heap = {}
    /\ hpc = "ended" => fds = {} /\ heap = {}

\* What a request should be answered.
Wanted(method, path) ==
    IF path = <<>> THEN 400
    ELSE IF method # GET THEN 405
    ELSE IF path = Metrics THEN 0
    ELSE IF path \in {Slash, Health} THEN 200 ELSE 404

\* The answer is the right one for the path as far as the first recv had it: right
\* for the request if that had the whole path, and 405 or a scrape never by mistake
\* of the method, wherever the segments end.
AnswerFits ==
    answer # NoAnswer =>
      LET seen == taken - Len(request.method) - 1
          path == Prefix(request.path, Min({seen, Len(request.path)}))
      IN answer.code = Wanted(request.method, path)

\* A client has the response from its start and without a gap, under a header that
\* tells the whole length, unless the send of that header failed; and it has all of
\* it if it stayed, its whole request was read and no send failed, however often
\* send was short or interrupted.
StreamExact ==
    /\ answer # NoAnswer /\ "header" \notin failed => got = Prefix(Response(answer), Len(got))
    /\ client = "ended" /\ answer # NoAnswer /\ taken = Len(Text(request)) /\ failed = {}
         => got = Response(answer)
=============================================================================
