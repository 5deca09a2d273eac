-------------------------------- MODULE Net ---------------------------------
(***************************************************************************)
(* The synchronous network module (src/modules/net.c).  It starts the      *)
(* network libraries in stages, each of which can fail and is then tried   *)
(* again by the next call, and term() stops those that were started.  A    *)
(* request opens a template, a connection and a request of the HTTP        *)
(* library and collects the response in a buffer that grows.  Everything   *)
(* runs on the QuickJS thread; a step is one call of a library.            *)
(***************************************************************************)
EXTENDS Naturals

CONSTANTS
  ReadChunk,   \* VITAJS_HTTP_READ_CHUNK
  MaxResponse  \* VITAJS_HTTP_MAX_RESPONSE

ASSUME NetAssumption == ReadChunk \in Nat \ {0} /\ MaxResponse \in Nat

VARIABLES
  at,        \* where the call in progress is; "idle" when there is none
  goal,      \* what the call wants once the network is there
  started,   \* the flags net_module_loaded, net_initialized, ..., and net_memory
  up,        \* stage -> how often the system has it: modules loaded, pools allocated
  handles,   \* HTTP objects created and not deleted
  body,      \* [length, capacity] of response_body; capacity 0 is NULL
  growing,   \* [bytes_read, new_capacity] while room is made for a piece
  received,  \* bytes of the response the server has sent so far
  strings,   \* what the call passes to JS_FreeCString when it is done
  outcome    \* what the last request gave the script

vars == <<at, goal, started, up, handles, body, growing, received, strings, outcome>>

\* POOL is the memory of sceNetInit.
Stages == {"NET_MODULE", "POOL", "NET", "NETCTL", "HTTP_MODULE", "HTTP"}
Objects == {"tpl", "conn", "req"}
NoBody == [length |-> 0, capacity |-> 0]
NotGrowing == [bytes_read |-> 0, new_capacity |-> 0]
Threw == [type |-> "threw", length |-> 0]

Init ==
  /\ at = "idle" /\ goal = "none"
  /\ started = {} /\ up = [s \in Stages |-> 0]
  /\ handles = {} /\ body = NoBody /\ growing = NotGrowing /\ received = 0
  /\ strings = {} /\ outcome = Threw

network == <<started, up>>
transfer == <<handles, body, growing, received>>

-----------------------------------------------------------------------------
(* Calls *)

\* The C strings that get(), post() and request() make of their arguments and free at
\* the end.  post(url, body, null) uses its literal "application/json" but frees it
\* like a string of the caller, because it only looks at the number of arguments.
Arguments ==
  {{"url"}} \cup {{"url", "body"} \cup type : type \in {{}, {"type"}, {"literal"}}}
            \cup {{"method", "url"} \cup more : more \in {{}, {"body"}, {"type"}, {"body", "type"}}}

\* request() throws at once for a method that there is not.
Request(args) ==
  /\ at = "idle" /\ goal' = "request"
  /\ \/ at' = "ensure" /\ UNCHANGED outcome
     \/ "method" \in args /\ at' = "return" /\ outcome' = Threw
  /\ strings' = args
  /\ body' = NoBody /\ received' = 0
  /\ UNCHANGED <<network, handles, growing>>

\* is_connected() and get_ip().
Query ==
  /\ at = "idle" /\ at' = "ensure" /\ goal' = "query"
  /\ UNCHANGED <<network, transfer, strings, outcome>>

Return ==
  /\ at = "return" /\ "literal" \notin strings
  /\ at' = "idle" /\ goal' = "none"
  /\ strings' = {}
  /\ UNCHANGED <<network, transfer, outcome>>

\* JS_FreeCString writes a reference count in front of its argument, and there the
\* literal is read-only: the program dies.
ReturnCrashes ==
  /\ at = "return" /\ "literal" \in strings
  /\ at' = "crashed"
  /\ UNCHANGED <<goal, network, transfer, strings, outcome>>

Crashed == at = "crashed" /\ UNCHANGED vars

-----------------------------------------------------------------------------
(* net_ensure_initialized() *)

Starts(s) ==
  /\ started' = started \cup {s}
  /\ up' = [up EXCEPT ![s] = @ + 1]

\* The first stage that is not done; net_memory is not looked at.
NextStage ==
  IF "NET_MODULE" \notin started THEN "NET_MODULE"
  ELSE IF "NET" \notin started THEN "POOL"
  ELSE IF "NETCTL" \notin started THEN "NETCTL"
  ELSE IF "HTTP_MODULE" \notin started THEN "HTTP_MODULE"
  ELSE "HTTP"

EnsureStage ==
  /\ at = "ensure" /\ "HTTP" \notin started
  /\ Starts(NextStage)
  /\ at' = IF NextStage = "POOL" THEN "init" ELSE "ensure"
  /\ UNCHANGED <<goal, transfer, strings, outcome>>

EnsureFails ==
  /\ at = "ensure" /\ "HTTP" \notin started
  /\ at' = "return" /\ outcome' = Threw
  /\ UNCHANGED <<goal, network, transfer, strings>>

\* sceNetInit with the pool just allocated ...
NetInit ==
  /\ at = "init" /\ at' = "ensure"
  /\ Starts("NET")
  /\ UNCHANGED <<goal, transfer, strings, outcome>>

\* Mutation: the pool is kept.
NetInitFailsKeepsPool ==
  /\ at = "init" /\ at' = "return"
  /\ outcome' = Threw
  /\ UNCHANGED <<goal, network, transfer, strings>>

\* Mutation: it is tried again until it succeeds.
NetInitFailsRetries ==
  /\ at = "init" /\ at' = "ensure"
  /\ started' = started \ {"POOL"} /\ up' = [up EXCEPT !["POOL"] = @ - 1]
  /\ UNCHANGED <<goal, transfer, strings, outcome>>

\* ... which is freed when it fails.
NetInitFails ==
  /\ at = "init" /\ at' = "return"
  /\ started' = started \ {"POOL"} /\ up' = [up EXCEPT !["POOL"] = @ - 1]
  /\ outcome' = Threw
  /\ UNCHANGED <<goal, transfer, strings>>

\* Everything is there.  A query asks sceNetCtl and returns.
EnsureDone ==
  /\ at = "ensure" /\ "HTTP" \in started
  /\ at' = IF goal = "request" THEN "create" ELSE "return"
  /\ UNCHANGED <<goal, network, transfer, strings, outcome>>

-----------------------------------------------------------------------------
(* net_shutdown() *)

\* Mutation: the pool is freed before the network is stopped.
StopNextPoolFirst ==
  IF "HTTP" \in started THEN "HTTP"
  ELSE IF "HTTP_MODULE" \in started THEN "HTTP_MODULE"
  ELSE IF "NETCTL" \in started THEN "NETCTL"
  ELSE IF "POOL" \in started THEN "POOL"
  ELSE IF "NET" \in started THEN "NET"
  ELSE "NET_MODULE"

\* Stages are stopped in the reverse order; the pool goes after the network.
StopNext ==
  IF "HTTP" \in started THEN "HTTP"
  ELSE IF "HTTP_MODULE" \in started THEN "HTTP_MODULE"
  ELSE IF "NETCTL" \in started THEN "NETCTL"
  ELSE IF "NET" \in started THEN "NET"
  ELSE IF "POOL" \in started THEN "POOL"
  ELSE "NET_MODULE"

term ==
  /\ at = "idle" /\ at' = "term"
  /\ UNCHANGED <<goal, network, transfer, strings, outcome>>

TermStep ==
  /\ at = "term" /\ started # {}
  /\ started' = started \ {StopNext}
  /\ up' = [up EXCEPT ![StopNext] = @ - 1]
  /\ UNCHANGED <<at, goal, transfer, strings, outcome>>

TermEnds ==
  /\ at = "term" /\ started = {} /\ at' = "idle"
  /\ UNCHANGED <<goal, network, transfer, strings, outcome>>

-----------------------------------------------------------------------------
(* net_request_native() *)

\* Template, connection, request; then options, headers and the request body are
\* set, the request is sent and its status read, which may all fail.
Create ==
  /\ at = "create"
  /\ LET object == IF "tpl" \notin handles THEN "tpl"
                   ELSE IF "conn" \notin handles THEN "conn" ELSE "req"
     IN /\ handles' = handles \cup {object}
        /\ at' = IF object = "req" THEN "send" ELSE "create"
  /\ UNCHANGED <<goal, network, body, growing, received, strings, outcome>>

Send ==
  /\ at = "send" /\ at' = "read"
  /\ UNCHANGED <<goal, network, transfer, strings, outcome>>

\* One of the library's functions fails.
RequestFails ==
  /\ at \in {"create", "send", "read"}
  /\ at' = "cleanup" /\ outcome' = Threw
  /\ UNCHANGED <<goal, network, transfer, strings>>

\* What n more bytes need: the piece and the terminating NUL.
Required(n) == body.length + n + 1

\* Mutation: no room for the NUL.
FitsWithoutNul(capacity, n) == capacity >= body.length + n

\* Whether a buffer of this capacity is large enough.
Fits(capacity, n) == capacity >= Required(n)

\* The n bytes of a piece are copied into a buffer of this capacity.
AppendPiece(n, capacity) ==
  /\ body' = [length |-> body.length + n, capacity |-> capacity]
  /\ at' = "read" /\ growing' = NotGrowing

\* The server sends n more bytes.  A response that is too large ends the request.
Read(n) ==
  /\ at = "read" /\ received' = received + n
  /\ \/ /\ Required(n) > MaxResponse + 1
        /\ at' = "cleanup" /\ outcome' = Threw
        /\ UNCHANGED <<body, growing>>
     \/ /\ Required(n) <= MaxResponse + 1 /\ Fits(body.capacity, n)
        /\ AppendPiece(n, body.capacity)
        /\ UNCHANGED outcome
     \/ /\ Required(n) <= MaxResponse + 1 /\ ~Fits(body.capacity, n)
        /\ growing' = [bytes_read |-> n,
                       new_capacity |-> IF body.capacity = 0 THEN ReadChunk
                                        ELSE body.capacity * 2]
        /\ at' = "grow"
        /\ UNCHANGED <<body, outcome>>
  /\ UNCHANGED <<goal, network, handles, strings>>

\* The capacity is doubled until the piece fits ...
Double ==
  /\ at = "grow" /\ ~Fits(growing.new_capacity, growing.bytes_read)
  /\ growing' = [growing EXCEPT !.new_capacity = @ * 2]
  /\ UNCHANGED <<at, goal, network, handles, body, received, strings, outcome>>

\* ... and cut off at the largest response; realloc may fail, which ends the request.
Realloc ==
  /\ at = "grow" /\ Fits(growing.new_capacity, growing.bytes_read)
  /\ \/ /\ AppendPiece(growing.bytes_read,
                  IF growing.new_capacity > MaxResponse + 1 THEN MaxResponse + 1
                  ELSE growing.new_capacity)
        /\ UNCHANGED outcome
     \/ /\ at' = "cleanup" /\ outcome' = Threw
        /\ growing' = NotGrowing /\ UNCHANGED body
  /\ UNCHANGED <<goal, network, handles, received, strings>>

\* The response is complete: make_response() copies it, if there is memory for that.
ReadEnd ==
  /\ at = "read" /\ at' = "cleanup"
  /\ outcome' \in {Threw, [type |-> "response", length |-> body.length]}
  /\ UNCHANGED <<goal, network, transfer, strings>>

\* The buffer is freed, then request, connection and template are deleted, as far
\* as they exist.
Cleanup ==
  /\ at = "cleanup"
  /\ IF body # NoBody
     THEN body' = NoBody /\ UNCHANGED <<at, handles>>
     ELSE /\ handles' = handles \ {IF "req" \in handles THEN "req"
                                   ELSE IF "conn" \in handles THEN "conn" ELSE "tpl"}
          /\ at' = IF handles' = {} THEN "return" ELSE at
          /\ UNCHANGED body
  /\ UNCHANGED <<goal, network, growing, received, strings, outcome>>

-----------------------------------------------------------------------------

\* A call that has begun goes on until it returns.
Continue ==
  \/ Return \/ ReturnCrashes \/ EnsureStage \/ EnsureFails \/ NetInit \/ NetInitFails \/ EnsureDone
  \/ TermStep \/ TermEnds
  \/ Create \/ Send \/ RequestFails \/ Double \/ Realloc \/ ReadEnd \/ Cleanup
  \/ \E n \in 1 .. ReadChunk : Read(n)

Next ==
  \/ \E args \in Arguments : Request(args)
  \/ Query \/ term \/ Crashed
  \/ Continue

Spec == Init /\ [][Next]_vars

\* The thread runs and the functions of the libraries return.
FairSpec == Spec /\ WF_vars(Continue)

-----------------------------------------------------------------------------
(* Properties *)

\* Nothing is used before it is there or after it is gone: HTTP objects need the
\* HTTP library, a connection its template and a request its connection, the
\* libraries their modules and the network its memory pool, at every step of
\* starting, failing, trying again and term().
NetOrder ==
  /\ handles # {} => up["HTTP"] > 0
  /\ "req" \in handles => "conn" \in handles
  /\ "conn" \in handles => "tpl" \in handles
  /\ up["HTTP"] > 0 => up["HTTP_MODULE"] > 0 /\ up["NET"] > 0
  /\ up["NETCTL"] > 0 => up["NET"] > 0
  /\ up["NET"] > 0 => up["POOL"] > 0 /\ up["NET_MODULE"] > 0

\* Between calls the flags say what the system has, nothing twice, so that term()
\* releases everything; and no call leaves a string, a buffer or an HTTP object.
NothingHeld ==
  at = "idle" =>
    /\ \A s \in Stages : up[s] = IF s \in started THEN 1 ELSE 0
    /\ handles = {} /\ body = NoBody /\ strings = {}

\* The buffer always has room for the terminating NUL, and a response is what the
\* server sent, all of it, whatever the sizes of the pieces.
ResponseWhole ==
  /\ body.capacity > 0 => body.length < body.capacity /\ body.capacity <= MaxResponse + 1
  /\ at \in {"cleanup", "return"} /\ outcome.type = "response" => outcome.length = received

\* Every call returns, even if the server never stops sending and whatever fails; only
\* post() with a content type of null does not.
CallReturns == at # "idle" ~> at = "idle" \/ "literal" \in strings

=============================================================================
