------------------------------ MODULE NetAsync ------------------------------
(***************************************************************************)
(* The asynchronous network module (src/modules/net_async.c, not yet part  *)
(* of the build): Net.fetch() and Net.__pump() on the QuickJS thread and   *)
(* one net_fetch_worker() thread per request, which share the single       *)
(* record request under request_mutex.  A critical section is one step.    *)
(*                                                                         *)
(* A fetch, its promise, its URL, its worker and its response body are all *)
(* named by the number of the fetch; 0 is NULL or JS_UNDEFINED.            *)
(***************************************************************************)
EXTENDS Integers

CONSTANTS
  MaxFetches,   \* bound on the fetches of a behaviour
  ReadChunk,    \* VITAJS_HTTP_READ_CHUNK
  MaxResponse   \* VITAJS_HTTP_MAX_RESPONSE

ASSUME NetAssumption ==
  /\ MaxFetches \in Nat
  /\ ReadChunk \in Nat \ {0} /\ MaxResponse \in Nat

Fetches  == 1 .. MaxFetches
Unborn   == -2
Pending  == -1
Rejected == 0

VARIABLES
  stages,   \* how many of net_ensure_initialized()'s six stages have succeeded
  request,  \* [state, url, resolve, body]; resolve stands for resolve and reject
  js,       \* where the QuickJS thread is
  fetches,  \* number of fetches so far; the last is the one in progress
  taken,    \* what __pump() took out of request
  promise,  \* fetch -> Unborn, Pending, Rejected or whose response it got
  worker,   \* fetch -> [pc, url, length, capacity, bytes_read, new_capacity, error]
  bodies,   \* response bodies allocated and not freed
  low       \* TRUE iff QuickJS may be out of memory when a promise is settled

vars == <<stages, request, js, fetches, taken, promise, worker, bodies, low>>

Stages == 6
Idle   == [state |-> "IDLE", url |-> 0, resolve |-> 0, body |-> 0]
NoWorker == [pc |-> "none", url |-> 0, length |-> 0, capacity |-> 0,
             bytes_read |-> 0, new_capacity |-> 0, error |-> FALSE]

Init ==
  /\ stages = 0 /\ request = Idle
  /\ js = "idle" /\ fetches = 0 /\ taken = Idle
  /\ promise = [f \in Fetches |-> Unborn]
  /\ worker = [f \in Fetches |-> NoWorker]
  /\ bodies = {} /\ low \in BOOLEAN

-----------------------------------------------------------------------------
(* Net.fetch() *)

\* is_connected(), get_ip(), or a fetch() that throws: stages succeed until one fails
\* or all are done; those that succeeded are neither undone nor repeated.
EnsureOnly ==
  /\ js = "idle" /\ stages < Stages
  /\ stages' \in stages .. Stages
  /\ UNCHANGED <<request, js, fetches, taken, promise, worker, bodies, low>>

\* net_ensure_initialized() and JS_NewPromiseCapability.
FetchBegins ==
  /\ js = "idle" /\ fetches < MaxFetches
  /\ stages' = Stages
  /\ fetches' = fetches + 1
  /\ promise' = [promise EXCEPT ![fetches'] = Pending]
  /\ js' = "fetch"
  /\ UNCHANGED <<request, taken, worker, bodies, low>>

\* reject_promise_immediately(): make_error() may fail.
RejectNow(f) ==
  /\ promise' \in {[promise EXCEPT ![f] = Rejected]}
                    \cup (IF low THEN {promise} ELSE {})
  /\ js' = "idle"

\* Another request is running or waits to be pumped, or strdup(url) fails.
FetchRefused ==
  /\ js = "fetch" /\ RejectNow(fetches)
  /\ UNCHANGED <<stages, request, fetches, taken, worker, bodies, low>>

\* Mutation: the state is not looked at.
FetchAcceptedAlways ==
  /\ js = "fetch"
  /\ request' = [state |-> "RUNNING", url |-> fetches, resolve |-> fetches, body |-> 0]
  /\ js' = "create"
  /\ UNCHANGED <<stages, fetches, taken, promise, worker, bodies, low>>

FetchAccepted ==
  /\ js = "fetch" /\ request.state = "IDLE"
  /\ request' = [state |-> "RUNNING", url |-> fetches, resolve |-> fetches, body |-> 0]
  /\ js' = "create"
  /\ UNCHANGED <<stages, fetches, taken, promise, worker, bodies, low>>

CreateThread ==
  /\ js = "create" /\ js' = "start"
  /\ UNCHANGED <<stages, request, fetches, taken, promise, worker, bodies, low>>

\* Mutation: the promise is forgotten.
ThreadFailsSilently ==
  /\ js \in {"create", "start"} /\ js' = "idle"
  /\ request' = [request EXCEPT !.state = "IDLE", !.url = 0, !.resolve = 0]
  /\ UNCHANGED <<stages, fetches, taken, promise, worker, bodies, low>>

\* sceKernelCreateThread or sceKernelStartThread fails: request is emptied again.
ThreadFails ==
  /\ js \in {"create", "start"}
  /\ request' = [request EXCEPT !.state = "IDLE", !.url = 0, !.resolve = 0]
  /\ RejectNow(request.resolve)
  /\ UNCHANGED <<stages, fetches, taken, worker, bodies, low>>

StartThread ==
  /\ js = "start" /\ js' = "idle"
  /\ worker' = [worker EXCEPT ![fetches].pc = "copy"]
  /\ UNCHANGED <<stages, request, fetches, taken, promise, bodies, low>>

-----------------------------------------------------------------------------
(* Net.__pump() *)

\* A result is there: take it and make room for the next request.
PumpTakes ==
  /\ js = "idle" /\ request.state \in {"DONE", "ERROR"}
  /\ taken' = request /\ request' = Idle
  /\ js' = "settle"
  /\ UNCHANGED <<stages, fetches, promise, worker, bodies, low>>

\* Mutation: the body of a response is not freed.
PumpSettlesLeak ==
  /\ js = "settle" /\ js' = "idle"
  /\ promise' = [promise EXCEPT ![taken.resolve] =
                   IF taken.state = "DONE" THEN taken.body ELSE Rejected]
  /\ taken' = Idle
  /\ UNCHANGED <<stages, request, fetches, worker, bodies, low>>

\* Outside the mutex: fulfil with the response (reject if it cannot be made), or
\* reject with the error (nothing happens if it cannot be made); free the body.  The
\* call of either function may fail for want of memory, which is ignored.  A response
\* without a body is named by its request all the same.
PumpSettles ==
  /\ js = "settle" /\ js' = "idle"
  /\ LET f == taken.resolve
         of == IF taken.body = 0 THEN taken.url ELSE taken.body
         Outcomes == {IF taken.state = "DONE" THEN of ELSE Rejected}
                       \cup (IF low THEN {Rejected, promise[f]} ELSE {})
     IN \E v \in Outcomes : promise' = [promise EXCEPT ![f] = v]
  /\ bodies' = bodies \ {taken.body}
  /\ taken' = Idle
  /\ UNCHANGED <<stages, request, fetches, worker, low>>

-----------------------------------------------------------------------------
(* net_fetch_worker() *)

\* Copy the URL under the mutex; strdup may fail.
WorkerCopies(f) ==
  /\ worker[f].pc = "copy"
  /\ \/ worker' = [worker EXCEPT ![f].pc = "http", ![f].url = request.url]
     \/ worker' = [worker EXCEPT ![f].pc = "finish", ![f].error = TRUE]
  /\ UNCHANGED <<stages, request, js, fetches, taken, promise, bodies, low>>

\* Template, connection, request, headers, send and status: any may fail.
WorkerSends(f) ==
  /\ worker[f].pc = "http"
  /\ \/ worker' = [worker EXCEPT ![f].pc = "read"]
     \/ worker' = [worker EXCEPT ![f].pc = "finish", ![f].error = TRUE]
  /\ UNCHANGED <<stages, request, js, fetches, taken, promise, bodies, low>>

\* What n more bytes need: the piece and the terminating NUL.
Required(f, n) == worker[f].length + n + 1

\* n more bytes; where they do not fit, the worker starts from one chunk or from twice
\* the capacity ...
WorkerReads(f) ==
  /\ worker[f].pc = "read"
  /\ \E n \in 1 .. ReadChunk :
       /\ Required(f, n) <= MaxResponse + 1
       /\ worker' = IF Required(f, n) <= worker[f].capacity
                    THEN [worker EXCEPT ![f].length = @ + n]
                    ELSE [worker EXCEPT
                            ![f].pc = "grow", ![f].bytes_read = n,
                            ![f].new_capacity = IF worker[f].capacity = 0 THEN ReadChunk
                                                ELSE worker[f].capacity * 2]
  /\ UNCHANGED <<stages, request, js, fetches, taken, promise, bodies, low>>

\* Mutation: never doubled again.
EnoughAlways(f) == TRUE

Enough(f) == worker[f].new_capacity >= Required(f, worker[f].bytes_read)

\* ... and doubles that until it is enough.
WorkerDoubles(f) ==
  /\ worker[f].pc = "grow" /\ ~Enough(f)
  /\ worker' = [worker EXCEPT ![f].new_capacity = @ * 2]
  /\ UNCHANGED <<stages, request, js, fetches, taken, promise, bodies, low>>

\* It is cut off at the largest response with its NUL; the bytes are copied.
WorkerReallocs(f) ==
  /\ worker[f].pc = "grow" /\ Enough(f)
  /\ worker' = [worker EXCEPT
       ![f].pc = "read", ![f].length = @ + worker[f].bytes_read,
       ![f].capacity = IF worker[f].new_capacity > MaxResponse + 1 THEN MaxResponse + 1
                       ELSE worker[f].new_capacity,
       ![f].bytes_read = 0, ![f].new_capacity = 0]
  /\ bodies' = bodies \cup {f}
  /\ UNCHANGED <<stages, request, js, fetches, taken, promise, low>>

\* Too long a response, a failed read and a failed realloc end in an error, with the
\* body kept until the worker finishes.
WorkerReadFails(f) ==
  /\ worker[f].pc = "read" \/ (worker[f].pc = "grow" /\ Enough(f))
  /\ worker' = [worker EXCEPT ![f].pc = "finish", ![f].error = TRUE]
  /\ UNCHANGED <<stages, request, js, fetches, taken, promise, bodies, low>>

\* sceHttpReadData returns 0: terminate the body.
WorkerReadsAll(f) ==
  /\ worker[f].pc = "read"
  /\ worker' = [worker EXCEPT ![f].pc = "finish"]
  /\ UNCHANGED <<stages, request, js, fetches, taken, promise, bodies, low>>

\* Publish under the mutex, then exit, with the thread's variables gone.
WorkerPublishes(f) ==
  /\ worker[f].pc = "finish"
  /\ IF worker[f].error
     THEN /\ bodies' = bodies \ {f}
          /\ request' = [request EXCEPT !.state = "ERROR"]
     ELSE /\ request' = [request EXCEPT !.state = "DONE",
                           !.body = IF worker[f].capacity = 0 THEN 0 ELSE f]
          /\ UNCHANGED bodies
  /\ worker' = [worker EXCEPT ![f] = [NoWorker EXCEPT !.pc = "exited"]]
  /\ UNCHANGED <<stages, js, fetches, taken, promise, low>>

-----------------------------------------------------------------------------

Fetching == FetchRefused \/ FetchAccepted \/ CreateThread \/ ThreadFails \/ StartThread
Pump     == PumpTakes \/ PumpSettles
Worker(f) ==
  \/ WorkerCopies(f) \/ WorkerSends(f)
  \/ WorkerReads(f) \/ WorkerDoubles(f) \/ WorkerReallocs(f)
  \/ WorkerReadFails(f) \/ WorkerReadsAll(f) \/ WorkerPublishes(f)

Next == EnsureOnly \/ FetchBegins \/ Fetching \/ Pump \/ \E f \in Fetches : Worker(f)

Spec == Init /\ [][Next]_vars

\* Threads are scheduled; the script calls __pump() again and again (from its game
\* loop), and a worker's HTTP calls return (MaxResponse bounds the reads).
FairSpec ==
  /\ Spec
  /\ WF_vars(Fetching) /\ WF_vars(Pump)
  /\ \A f \in Fetches : WF_vars(Worker(f))

-----------------------------------------------------------------------------
(* Properties *)

\* The types of the variables; the received bytes and the terminating NUL fit into
\* the buffer that realloc made, up to and including a response of exactly the
\* largest size.
TypeOK ==
  /\ stages \in 0 .. Stages
  /\ request \in [state : {"IDLE", "RUNNING", "DONE", "ERROR"}, url : 0 .. fetches,
                  resolve : 0 .. fetches, body : 0 .. fetches]
  /\ taken \in [state : {"IDLE", "DONE", "ERROR"}, url : 0 .. fetches,
                resolve : 0 .. fetches, body : 0 .. fetches]
  /\ js \in {"idle", "fetch", "create", "start", "settle"}
  /\ fetches \in 0 .. MaxFetches
  /\ promise \in [Fetches -> {Unborn, Pending, Rejected} \cup Fetches]
  /\ worker \in [Fetches -> [pc : {"none", "copy", "http", "read", "grow", "finish", "exited"},
                             url : 0 .. fetches, length : 0 .. MaxResponse,
                             capacity : 0 .. MaxResponse + 1,
                             bytes_read : 0 .. ReadChunk, new_capacity : Nat,
                             error : BOOLEAN]]
  /\ \A f \in Fetches : worker[f].length > 0 => worker[f].length < worker[f].capacity
  /\ bodies \subseteq Fetches /\ low \in BOOLEAN

\* Every response body has one owner, its worker until it publishes, then request,
\* then __pump(): none is leaked on an error path and none is freed twice.
BodyOwned ==
  bodies = {f \in Fetches : worker[f].pc \in {"read", "grow", "finish"} /\ worker[f].capacity > 0}
             \cup ({request.body, taken.body} \ {0})

\* net_async.c keeps the promises of FetchSpec.
InFlight == IF js = "settle" THEN taken.resolve ELSE request.resolve
Abstract == INSTANCE FetchSpec WITH flight <- InFlight

\* Every step of the threads is a step of FetchSpec or leaves it unchanged.
KeepsPromises == Abstract!Spec

\* Every fetch is settled as long as the script pumps and QuickJS has memory.
FetchSettles ==
  \A f \in Fetches : promise[f] = Pending ~> promise[f] # Pending \/ low

=============================================================================
