------------------------------ MODULE Request ------------------------------
(***************************************************************************)
(* HW3Wet/request.c: what a worker does with a request once it has it, and *)
(* the statistics it reports in every answer.  The client's bytes are      *)
(* abstracted to what the code tells apart: the method, the kind of uri,   *)
(* how many header lines come and whether an empty line ends them.         *)
(***************************************************************************)
EXTENDS Timeval, Sequences, FiniteSets

CONSTANTS
    Threads,
    Methods,      \* "GET" and others
    Uris,         \* records [dotdot, cgi, query, slash : BOOLEAN]
    Endings,      \* how the headers end: "blank", or "eof" without one
    MaxHeaders,   \* bound on the header lines of a request
    MaxRequests,  \* bound on the requests a thread handles
    Times         \* values gettimeofday may return

ASSUME TimesAssumption == Times \subseteq Timevals
ASSUME MethodsAssumption == "GET" \in Methods
ASSUME UrisAssumption == Uris \subseteq [dotdot : BOOLEAN, cgi : BOOLEAN,
                                         query : BOOLEAN, slash : BOOLEAN]
\* There is a request to handle, and a bound on what a client sends.
ASSUME RequestsAssumption ==
    Uris # {} /\ Endings # {} /\ Times # {} /\ MaxHeaders \in Nat

VARIABLES
    rpc,       \* where each worker is in requestHandle
    stats,     \* struct Stats of each worker
    req,       \* the request, as the worker knows it
    lines,     \* header lines the client has still to send
    buf,       \* the last line read by requestReadhdrs
    answers,   \* per worker, the answers sent so far
    exited

requestVars == <<rpc, stats, req, lines, buf, answers, exited>>

Requests == [method : Methods, uri : Uris, ending : Endings,
             arrival : Times, dispatch : Times]

\* What stat() may say of the file: the file system is not ours.
FileStates == {"missing", "special", "unreadable", "empty", "regular"}

\* requestParseURI: static or dynamic, and the file meant.
ParseURI(u) ==
    IF u.dotdot THEN [static |-> TRUE, file |-> "home.html"]
    ELSE [static |-> ~u.cgi,
          file |-> IF ~u.cgi /\ u.slash THEN "uri/home.html"
                   ELSE IF u.cgi /\ u.query THEN "uri before ?" ELSE "uri"]

\* init_stats
RequestInit ==
    /\ rpc = [w \in Threads |-> "idle"]
    /\ stats = [w \in Threads |->
                   [thread_count |-> 0, thread_static |-> 0, thread_dynamic |-> 0]]
    /\ req \in [Threads -> {CHOOSE r \in Requests : TRUE}]
    /\ lines = [w \in Threads |-> 0]
    /\ buf = [w \in Threads |-> "unset"]
    /\ answers = [w \in Threads |-> << >>]
    /\ exited = FALSE

\* Fault: the request is not counted.
CountLate(s) == s

\* stats->thread_count++, before anything is known of the request.
CountRequest(s) == [s EXCEPT !.thread_count = @ + 1]

\* requestHandle is called with a dequeued request.  The clock is not turned
\* back between its arrival and its dispatch.
Begin(w, r) ==
    /\ rpc[w] = "idle" /\ Len(answers[w]) < MaxRequests
    /\ Total(r.arrival) <= Total(r.dispatch)
    /\ req' = [req EXCEPT ![w] = r]
    /\ lines' \in {[lines EXCEPT ![w] = n] : n \in 0..MaxHeaders}
    /\ buf' = [buf EXCEPT ![w] = "unset"]
    /\ stats' = [stats EXCEPT ![w] = CountRequest(@)]
    /\ rpc' = [rpc EXCEPT ![w] = "line"]
    /\ UNCHANGED <<answers, exited>>

\* strcasecmp(method, "GET")
IsGet(m) == m = "GET"

\* The request line decides on 501 before the headers are read.  A client that
\* closes without sending it leaves the method and the uri uninitialized: any
\* request with no header and ending "eof".
ReadRequestLine(w) ==
    /\ rpc[w] = "line"
    /\ rpc' = [rpc EXCEPT ![w] = IF IsGet(req[w].method) THEN "headers"
                                 ELSE "501"]
    /\ UNCHANGED <<stats, req, lines, buf, answers, exited>>

\* Fault: the loop of requestReadhdrs ends at a line that is not empty.
EndsAtHeader(b) == b = "header"

\* ! strcmp(buf, "\r\n")
EndsHeaders(b) == b = "blank"

LineComes(w) == lines[w] > 0

(***************************************************************************)
(* One round of requestReadhdrs.  At the end of the stream Rio_readlineb   *)
(* returns 0 and leaves buf as it was; before the first line buf is not    *)
(* initialized, so it may compare equal to the empty line or not.          *)
(***************************************************************************)
ReadHeader(w) ==
    /\ rpc[w] = "headers" /\ ~EndsHeaders(buf[w])
    /\ \/ /\ LineComes(w)
          /\ lines' = [lines EXCEPT ![w] = @ - 1]
          /\ buf' = [buf EXCEPT ![w] = "header"]
       \/ /\ ~LineComes(w) /\ req[w].ending = "blank"
          /\ buf' = [buf EXCEPT ![w] = "blank"]
          /\ lines' = lines
       \/ /\ ~LineComes(w) /\ req[w].ending = "eof"
          /\ IF buf[w] = "unset"
                THEN \E b \in {"header", "blank"} : buf' = [buf EXCEPT ![w] = b]
                ELSE buf' = buf
          /\ lines' = lines
    /\ UNCHANGED <<rpc, stats, req, answers, exited>>

\* S_ISREG and the permission bit the kind of content asks for.
CanServe(st) == st \in {"empty", "regular"}

\* The headers are over: requestParseURI, stat, permissions, statistics.
Classify(w) ==
    /\ rpc[w] = "headers" /\ EndsHeaders(buf[w])
    /\ \E st \in FileStates :
          LET uri == ParseURI(req[w].uri) IN
          \/ /\ st = "missing"
             /\ rpc' = [rpc EXCEPT ![w] = "404"]
             /\ stats' = stats
          \/ /\ st # "missing" /\ ~CanServe(st)
             /\ rpc' = [rpc EXCEPT ![w] = "403"]
             /\ stats' = stats
          \/ /\ CanServe(st) /\ uri.static
             /\ rpc' = [rpc EXCEPT ![w] = IF st = "empty" THEN "empty" ELSE "static"]
             /\ stats' = [stats EXCEPT ![w].thread_static = @ + 1]
          \/ /\ CanServe(st) /\ ~uri.static
             /\ rpc' = [rpc EXCEPT ![w] = "dynamic"]
             /\ stats' = [stats EXCEPT ![w].thread_dynamic = @ + 1]
    /\ UNCHANGED <<req, lines, buf, answers, exited>>

\* The statistics headers of requestError and of the two serving functions.
Answer(w, status) ==
    [status |-> status, static |-> ParseURI(req[w].uri).static,
     method |-> req[w].method, stats |-> stats[w],
     interval |-> DispatchInterval(req[w].dispatch, req[w].arrival),
     waited |-> Total(req[w].dispatch) - Total(req[w].arrival)]

\* requestError; requestServeStatic; the header requestServeDynamic writes.
SendAnswer(w) ==
    /\ rpc[w] \in {"501", "404", "403", "static", "dynamic"}
    /\ answers' = [answers EXCEPT ![w] = Append(@, Answer(w,
                      IF rpc[w] \in {"static", "dynamic"} THEN "200" ELSE rpc[w]))]
    /\ rpc' = [rpc EXCEPT ![w] = IF rpc[w] = "dynamic" THEN "cgi" ELSE "idle"]
    /\ UNCHANGED <<stats, req, lines, buf, exited>>

\* waitpid returns: the CGI program has ended, or could not be executed.
CgiEnds(w) ==
    /\ rpc[w] = "cgi"
    /\ rpc' = [rpc EXCEPT ![w] = "idle"]
    /\ UNCHANGED <<stats, req, lines, buf, answers, exited>>

\* A wrapper of segel.c fails: reading or writing the connection, opening or
\* mapping the file, forking once the header of a CGI answer has been sent.
\* Mapping an empty file always fails.
WrapperFails(w) ==
    /\ rpc[w] # "idle"
    /\ exited' = TRUE
    /\ UNCHANGED <<rpc, stats, req, lines, buf, answers>>

Step(w) ==
    \/ ReadRequestLine(w) \/ ReadHeader(w) \/ Classify(w)
    \/ SendAnswer(w) \/ CgiEnds(w)

RequestNext ==
    \/ /\ ~exited
       /\ \E w \in Threads :
             \/ \E r \in Requests : Begin(w, r)
             \/ Step(w)
             \/ WrapperFails(w)
    \/ /\ exited \/ \A w \in Threads : rpc[w] = "idle" /\ Len(answers[w]) = MaxRequests
       /\ UNCHANGED requestVars

RequestSpec == RequestInit /\ [][RequestNext]_requestVars

\* A worker is scheduled, its client sends what it has to send, its CGI program
\* ends; mapping an empty file fails and ends the process.
RequestFairSpec ==
    /\ RequestSpec
    /\ \A w \in Threads : WF_requestVars(~exited /\ Step(w))
    /\ \A w \in Threads : WF_requestVars(~exited /\ rpc[w] = "empty" /\ WrapperFails(w))

----------------------------------------------------------------------------
\* The type invariant of the workers and their statistics.
RequestTypeOK ==
    /\ rpc \in [Threads -> {"idle", "line", "headers", "501", "404", "403",
                            "static", "empty", "dynamic", "cgi"}]
    /\ stats \in [Threads -> [thread_count : Nat, thread_static : Nat,
                              thread_dynamic : Nat]]
    /\ req \in [Threads -> Requests]
    /\ lines \in [Threads -> 0..MaxHeaders]
    /\ buf \in [Threads -> {"unset", "header", "blank"}]
    /\ exited \in BOOLEAN

CountOf(w, n, P(_)) == Cardinality({i \in 1..n : P(answers[w][i])})
IsStatic(a) == a.status = "200" /\ a.static
IsDynamic(a) == a.status = "200" /\ ~a.static

\* The statistics in the n-th answer of a thread are those of its first n
\* answers, the n-th included: every request is counted once, the invalid ones
\* too, and only as what it was (request.c:251, 281, 288 against 61-64).
StatsTellHistory ==
    \A w \in Threads : \A n \in 1..Len(answers[w]) :
       answers[w][n].stats = [thread_count |-> n,
                              thread_static |-> CountOf(w, n, IsStatic),
                              thread_dynamic |-> CountOf(w, n, IsDynamic)]

\* What the statistics of a thread hold between answers: all of its answers, and the
\* request under way as far as it has been classified.
StatsPending ==
    \A w \in Threads :
       LET n == Len(answers[w])
           now(states) == IF rpc[w] \in states THEN 1 ELSE 0
       IN  stats[w] = [thread_count |-> n + (IF rpc[w] \in {"idle", "cgi"} THEN 0 ELSE 1),
                       thread_static |-> CountOf(w, n, IsStatic) + now({"static", "empty"}),
                       thread_dynamic |-> CountOf(w, n, IsDynamic) + now({"dynamic"})]

\* Inductive: what was reported is true of the history of its thread, because what is
\* kept agrees with it at every step between two answers (request.c:251, 281, 288).
StatsInv == RequestTypeOK /\ StatsTellHistory /\ StatsPending

\* The dispatch interval is normalised and is exactly the time the request
\* waited, across any borrow (request.c:42-58, 153-169, 214-230).
IntervalExact ==
    \A w \in Threads : \A n \in 1..Len(answers[w]) :
       LET a == answers[w][n]
       IN  a.interval \in Timevals /\ Total(a.interval) = a.waited

\* A request is done with in the end and its worker goes back to the pool, if the
\* client ends its headers with an empty line, however many there are and whatever the
\* answer is (request.c:83-90, 245-295).  If it closes before, requestReadhdrs may read
\* the end of the stream for ever.
ReturnsIfHeadersEnd ==
    \A w \in Threads : (rpc[w] # "idle" /\ req[w].ending = "blank")
                          ~> (rpc[w] = "idle" \/ exited)
=============================================================================
