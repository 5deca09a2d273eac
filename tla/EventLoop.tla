----------------------------- MODULE EventLoop -----------------------------
(***************************************************************************)
(* One run of a script: main() and runScript() (src/main.c, src/env.c) and *)
(* the event loop of the Vita-patched quickjs/quickjs-libc.c: promise      *)
(* jobs, js_os_poll() and the timers with their two owners, the list       *)
(* os_timers and the handle object the script holds.                       *)
(*                                                                         *)
(* Timers are numbered in the order of their creation.  A new timer goes   *)
(* to the tail of os_timers and none is ever moved, so the list is a set   *)
(* of numbers read in increasing order.  Of the clock only what            *)
(* js_os_poll() computes from it is kept: timeout - get_time_ms(), down to *)
(* 0.  get_time_ms() divides tv_usec by 1000000, so it moves once a second.*)
(*                                                                         *)
(* Signals (the Vita delivers none) and worker messages (their delivery is *)
(* commented out with select()) are left out.                              *)
(***************************************************************************)
EXTENDS Integers

CONSTANTS
  MaxTimers,   \* bound on the timers a run creates
  Delays,      \* delays a script may ask for, in ms; they may be negative
  Second,      \* ms in a second
  MaxJobs,     \* bound on the promise jobs pending at a time
  Captures     \* timers whose callback refers to its own handle

ASSUME LoopAssumption ==
  /\ MaxTimers \in Nat /\ MaxJobs \in Nat
  /\ Delays \subseteq Int
  /\ Second \in Nat \ {0}
  /\ Captures \subseteq 1 .. MaxTimers

VARIABLES
  at,         \* where runScript() is
  evaluated,  \* how the evaluation of the script ended: "no", "ok" or "threw"
  created,    \* number of timers created
  os_timers,  \* the linked timers
  timer,      \* timer -> [interval, left, func, has_object, root, freed]
  due,        \* timer -> ms until it should be called
  sub,        \* ms since the last full second
  running,    \* the timer whose callback runs, or 0
  jobs,       \* pending promise jobs
  failed,     \* TRUE iff a job has failed
  rw          \* TRUE iff there is a read or write handler or a worker port

clock == <<due, sub>>
vars  == <<at, evaluated, created, os_timers, timer, clock, running, jobs, failed, rw>>

Timers == 1 .. MaxTimers
Known  == 1 .. created

Unused == [interval |-> 0, left |-> 0, func |-> "undefined",
           has_object |-> FALSE, root |-> FALSE, freed |-> FALSE]

Monus(m, n) == IF m > n THEN m - n ELSE 0

Init ==
  /\ at = "load" /\ evaluated = "no"
  /\ created = 0 /\ os_timers = {}
  /\ timer = [t \in Timers |-> Unused] /\ due = [t \in Timers |-> 0]
  /\ sub = 0 /\ running = 0 /\ jobs = 0 /\ failed = FALSE /\ rw = FALSE

-----------------------------------------------------------------------------
(* What a script can do: at top level, in a job or in a callback *)

InScript == at \in {"eval", "job", "call"}

\* What is left of a delay that starts now: one of 0 or less has expired at once.
Left(delay) == Monus(delay, 0)

js_os_create_timer(interval, delay) ==
  /\ InScript /\ created < MaxTimers
  /\ created' = created + 1
  /\ os_timers' = os_timers \cup {created'}
  /\ timer' = [timer EXCEPT ![created'] =
       [interval |-> interval, left |-> Left(delay), func |-> "live",
        has_object |-> TRUE, root |-> TRUE, freed |-> FALSE]]
  /\ due' = [due EXCEPT ![created'] = Left(delay)]
  /\ UNCHANGED <<at, evaluated, sub, running, jobs, failed, rw>>

\* The interval -1 marks a timer that does not repeat, and setInterval() passes the
\* script's delay on: with -1 it makes a one-shot timer, with any other that is 0 or
\* less, as setImmediate() does, one that has expired again whenever poll looks.
js_os_setTimeout(delay)  == js_os_create_timer(-1, delay)
js_os_setInterval(delay) == js_os_create_timer(delay, delay)
js_os_setImmediate       == js_os_create_timer(0, 0)

\* A script has a handle if it kept it, or in a callback that refers to it.
HasHandle(t) == timer[t].root \/ (running = t /\ t \in Captures /\ timer[t].has_object)

js_os_clearTimeout(t) ==
  /\ InScript /\ HasHandle(t)
  /\ os_timers' = os_timers \ {t}
  /\ UNCHANGED <<at, evaluated, created, timer, clock, running, jobs, failed, rw>>

\* Mutation: the timer is freed although it is still linked.
js_os_timer_finalizerAlways(t, gone) ==
  [timer[t] EXCEPT !.root = FALSE, !.has_object = FALSE, !.freed = TRUE]

\* The handle object is destroyed; gone: its callback is destroyed with it.
js_os_timer_finalizer(t, gone) ==
  IF t \in os_timers
  THEN [timer[t] EXCEPT !.root = FALSE, !.has_object = FALSE,
                        !.func = IF gone THEN "destroyed" ELSE @]
  ELSE [timer[t] EXCEPT !.root = FALSE, !.has_object = FALSE,
                        !.func = "undefined", !.freed = TRUE]

\* The callback holds the handle and the timer the callback: a cycle.
InCycle(t) == t \in Captures /\ timer[t].func = "live"

\* The script lets go of a handle.  Without a cycle that destroys it at once.
DropHandle(t) ==
  /\ InScript /\ timer[t].root
  /\ timer' = [timer EXCEPT ![t] =
       IF InCycle(t) \/ (running = t /\ t \in Captures)
       THEN [@ EXCEPT !.root = FALSE] ELSE js_os_timer_finalizer(t, FALSE)]
  /\ UNCHANGED <<at, evaluated, created, os_timers, clock, running, jobs, failed, rw>>

\* The garbage collector takes js_os_timer_mark() at its word that the handle owns
\* the callback: it destroys both when nothing else refers to them.
Garbage == {t \in Known : timer[t].has_object /\ ~timer[t].root /\ InCycle(t) /\ running # t}

CollectGarbage ==
  /\ InScript /\ Garbage # {}
  /\ timer' = [t \in Timers |-> IF t \in Garbage THEN js_os_timer_finalizer(t, TRUE) ELSE timer[t]]
  /\ UNCHANGED <<at, evaluated, created, os_timers, clock, running, jobs, failed, rw>>

\* A promise is settled: its reactions are queued.
EnqueueJob ==
  /\ InScript /\ jobs < MaxJobs
  /\ jobs' = jobs + 1
  /\ UNCHANGED <<at, evaluated, created, os_timers, timer, clock, running, failed, rw>>

js_os_setReadHandler(on) ==
  /\ InScript /\ rw' = on /\ rw # on
  /\ UNCHANGED <<at, evaluated, created, os_timers, timer, clock, running, jobs, failed>>

-----------------------------------------------------------------------------
(* runScript() *)

\* qjs_handle_file() fails before the script has run: it cannot be read, compiled
\* or linked.
LoadFails ==
  /\ at = "load" /\ at' = "free"
  /\ UNCHANGED <<evaluated, created, os_timers, timer, clock, running, jobs, failed, rw>>

LoadScript ==
  /\ at = "load" /\ at' = "eval"
  /\ UNCHANGED <<evaluated, created, os_timers, timer, clock, running, jobs, failed, rw>>

\* js_evaluate_module() turns an exception of the script into a rejected promise,
\* which is a value like any other to qjs_eval_buf().
EvalReturns ==
  /\ at = "eval" /\ at' = "jobs"
  /\ evaluated' \in {"ok", "threw"}
  /\ UNCHANGED <<created, os_timers, timer, clock, running, jobs, failed, rw>>

\* Unlink every timer; free those the script has no handle of.
js_std_free_handlers ==
  /\ at = "free" /\ at' = "context"
  /\ os_timers' = {} /\ rw' = FALSE
  /\ timer' = [t \in Timers |->
       IF t \in os_timers /\ ~timer[t].has_object
       THEN [timer[t] EXCEPT !.freed = TRUE, !.func = "undefined"] ELSE timer[t]]
  /\ UNCHANGED <<evaluated, created, clock, running, jobs, failed>>

\* JS_FreeContext and JS_FreeRuntime destroy every object and drop pending jobs.
FreeRuntime ==
  /\ at = "context" /\ at' = "freed"
  /\ timer' = [t \in Timers |->
       IF timer[t].has_object THEN js_os_timer_finalizer(t, FALSE) ELSE timer[t]]
  /\ jobs' = 0
  /\ UNCHANGED <<evaluated, created, os_timers, clock, running, failed, rw>>

\* main() runs the script again as long as runScript() returns a message.
RunAgain ==
  /\ at = "freed" /\ evaluated = "no" /\ at' = "load"
  /\ UNCHANGED <<evaluated, created, os_timers, timer, clock, running, jobs, failed, rw>>

-----------------------------------------------------------------------------
(* js_std_loop() *)

ExecutePendingJob ==
  /\ at = "jobs" /\ jobs > 0
  /\ at' = "job" /\ jobs' = jobs - 1
  /\ UNCHANGED <<evaluated, created, os_timers, timer, clock, running, failed, rw>>

\* A failed job ends the inner loop although others may be pending.
JobReturns ==
  /\ at = "job"
  /\ \/ at' = "jobs" /\ UNCHANGED failed
     \/ at' = "poll" /\ failed' = TRUE
  /\ UNCHANGED <<evaluated, created, os_timers, timer, clock, running, jobs, rw>>

NoMoreJobs ==
  /\ at = "jobs" /\ jobs = 0 /\ at' = "poll"
  /\ UNCHANGED <<evaluated, created, os_timers, timer, clock, running, jobs, failed, rw>>

-----------------------------------------------------------------------------
(* js_os_poll() *)

Expired == {t \in os_timers : timer[t].left = 0}

\* Mutation: only the timers are looked at.
PollEndsEarly ==
  /\ at = "poll" /\ os_timers = {}
  /\ at' = "free"
  /\ UNCHANGED <<evaluated, created, os_timers, timer, clock, running, jobs, failed, rw>>

\* No timers, handlers or ports: the loop and with it the script ends.
PollEnds ==
  /\ at = "poll" /\ os_timers = {} /\ ~rw
  /\ at' = "free"
  /\ UNCHANGED <<evaluated, created, os_timers, timer, clock, running, jobs, failed, rw>>

\* Mutation: the timeout is one too small.
PollRepeatsEarly(t) ==
  /\ at = "poll" /\ t \in Expired /\ \A u \in Expired : t <= u
  /\ timer[t].interval # -1
  /\ timer' = [timer EXCEPT ![t].left = timer[t].interval - 1]
  /\ at' = "call" /\ running' = t
  /\ UNCHANGED <<evaluated, created, os_timers, clock, jobs, failed, rw>>

\* The first expired timer of the list, if it repeats: start it again, call it.
PollRepeats(t) ==
  /\ at = "poll" /\ t \in Expired /\ \A u \in Expired : t <= u
  /\ timer[t].interval # -1
  /\ timer' = [timer EXCEPT ![t].left = Left(timer[t].interval)]
  /\ due' = [due EXCEPT ![t] = Left(timer[t].interval)]
  /\ at' = "call" /\ running' = t
  /\ UNCHANGED <<evaluated, created, os_timers, sub, jobs, failed, rw>>

\* The first expired timer of the list, if it does not: unlink it, free it if the
\* script has no handle, call it.
PollOneShot(t) ==
  /\ at = "poll" /\ t \in Expired /\ \A u \in Expired : t <= u
  /\ timer[t].interval = -1
  /\ os_timers' = os_timers \ {t}
  /\ timer' = [timer EXCEPT ![t].func = "undefined", ![t].freed = ~timer[t].has_object]
  /\ at' = "call" /\ running' = t
  /\ UNCHANGED <<evaluated, created, clock, jobs, failed, rw>>

\* Calling a callback that was destroyed is undefined: it may do anything a callback
\* does, or crash.
PollCrashes(t) ==
  /\ at = "poll" /\ t \in Expired /\ \A u \in Expired : t <= u
  /\ timer[t].func = "destroyed"
  /\ at' = "crashed"
  /\ UNCHANGED <<evaluated, created, os_timers, timer, clock, running, jobs, failed, rw>>

\* Mutation: a repeated timer is linked again after its callback.
CallReturnsRelinks ==
  /\ at = "call" /\ at' = "jobs" /\ running' = 0
  /\ os_timers' = IF timer[running].interval # -1 THEN os_timers \cup {running} ELSE os_timers
  /\ UNCHANGED <<evaluated, created, timer, clock, jobs, failed, rw>>

\* The callback returns and the loop's reference to it is dropped; the callback of a
\* one-shot timer, and a handle only it refers to, are destroyed.
CallReturns ==
  /\ at = "call" /\ at' = "jobs" /\ running' = 0
  /\ timer' = [timer EXCEPT ![running] =
       IF @.has_object /\ ~@.root /\ @.func = "undefined"
       THEN js_os_timer_finalizer(running, FALSE) ELSE @]
  /\ UNCHANGED <<evaluated, created, os_timers, clock, jobs, failed, rw>>

\* Mutation: the list is taken to be ordered by timeout, and only its head looked at.
PollIdleHead ==
  /\ at = "poll" /\ (os_timers # {} \/ rw)
  /\ \E t \in os_timers : t \notin Expired /\ \A u \in os_timers : t <= u
  /\ at' = "jobs"
  /\ UNCHANGED <<evaluated, created, os_timers, timer, clock, running, jobs, failed, rw>>

\* Nothing has expired: js_os_poll() returns without waiting.
PollIdle ==
  /\ at = "poll" /\ Expired = {} /\ (os_timers # {} \/ rw)
  /\ at' = "jobs"
  /\ UNCHANGED <<evaluated, created, os_timers, timer, clock, running, jobs, failed, rw>>

-----------------------------------------------------------------------------

\* A millisecond passes, in poll or while a callback runs; at the end of a second
\* get_time_ms() moves by 1000.
Tick ==
  /\ sub' = (sub + 1) % Second
  /\ due' = [t \in Timers |-> IF t \in os_timers THEN Monus(due[t], 1) ELSE 0]
  /\ timer' = [t \in Timers |->
       IF t \in os_timers /\ sub' = 0
       THEN [timer[t] EXCEPT !.left = Monus(@, Second)] ELSE timer[t]]
  /\ UNCHANGED <<at, evaluated, created, os_timers, running, jobs, failed, rw>>

ScriptStep ==
  \/ \E delay \in Delays : js_os_setTimeout(delay) \/ js_os_setInterval(delay)
  \/ js_os_setImmediate
  \/ \E t \in Known : js_os_clearTimeout(t) \/ DropHandle(t)
  \/ CollectGarbage \/ EnqueueJob
  \/ \E on \in BOOLEAN : js_os_setReadHandler(on)

runScript   ==
  \/ LoadFails \/ LoadScript \/ EvalReturns
  \/ js_std_free_handlers \/ FreeRuntime \/ RunAgain
js_std_loop == ExecutePendingJob \/ JobReturns \/ NoMoreJobs
js_os_poll  ==
  \/ PollEnds \/ PollIdle \/ CallReturns
  \/ \E t \in Known : PollRepeats(t) \/ PollOneShot(t) \/ PollCrashes(t)

Next == ScriptStep \/ runScript \/ js_std_loop \/ js_os_poll \/ Tick

Spec == Init /\ [][Next]_vars

\* The one thread of the runtime runs, and time passes.
FairSpec == Spec /\ WF_vars(runScript \/ js_std_loop \/ js_os_poll) /\ WF_vars(Tick)

-----------------------------------------------------------------------------
(* Properties *)

TimerType ==
  [interval : Delays \cup {-1, 0}, left : Nat,
   func : {"live", "undefined", "destroyed"}, has_object : BOOLEAN, root : BOOLEAN, freed : BOOLEAN]

\* The types of the variables; a running callback belongs to a timer of this run.
TypeOK ==
  /\ at \in {"load", "eval", "jobs", "job", "poll", "call", "free", "context", "freed", "crashed"}
  /\ evaluated \in {"no", "ok", "threw"}
  /\ created \in 0 .. MaxTimers /\ os_timers \subseteq Known
  /\ timer \in [Timers -> TimerType] /\ due \in [Timers -> Nat]
  /\ sub \in 0 .. Second - 1 /\ jobs \in 0 .. MaxJobs
  /\ failed \in BOOLEAN /\ rw \in BOOLEAN
  /\ running \in 0 .. created /\ (running # 0 <=> at = "call")

\* A timer is freed when neither the list nor the handle object refers to it any
\* more, and never before: the two owners settle it between them whatever the order
\* of firing, clearing, dropping the handle and ending the run.  A run of a script
\* leaves no timer behind, whoever still held it.
FreedByLastOwner ==
  /\ \A t \in Known : timer[t].freed <=> t \notin os_timers /\ ~timer[t].has_object
  /\ at = "freed" => \A t \in Known : timer[t].freed

\* The loop ends only when there is nothing left to call: no timer, no handler, and
\* no promise job unless a job has failed (which ends js_std_loop's inner loop early).
EndsWhenDone ==
  at = "free" /\ evaluated # "no" => os_timers = {} /\ ~rw /\ (jobs = 0 \/ failed)

\* A timer that was cleared or has fired its one shot is never called or linked
\* again, even when an interval is cleared by its own callback.
ClearedForGood ==
  [][\A t \in Known : t \notin os_timers => t \notin os_timers' /\ (running' = t => running = t)]_vars

\* A poll that looks past the repeating timers ahead of t: none of them has expired.
PollsPast(t) ==
  at = "poll" /\ at' # "poll" /\ \A u \in Expired : u < t => timer[u].interval = -1

\* A poll calls only the first expired timer of the list.  The timers ahead of one in
\* the list keep it waiting for ever only if they repeat and, from some time on, poll
\* never finds all of them running: a callback that takes as long as its interval, and
\* an interval of 0 or less other than -1, do that, and then the timers behind starve.
\* As long as poll now and then looks past the repeating ones, every timer is called
\* or cleared: one-shot timers ahead of it, late ones behind it, promise jobs and
\* timers added meanwhile do not hold it up.
TimersServed ==
  \A t \in Timers :
    []<><<PollsPast(t)>>_vars => (t \in os_timers ~> t \notin os_timers \/ running = t)

-----------------------------------------------------------------------------
(* What the documentation says and the code does not do *)

\* A 16 ms interval drives a 60 Hz loop: when a poll finds nothing to do, no timer
\* is due.
CalledWhenDue ==
  [][at = "poll" /\ at' = "jobs" => \A t \in os_timers : due[t] > 0]_vars

\* Timers and promise jobs are processed only after the script was evaluated
\* successfully.
LoopAfterSuccess == at \in {"jobs", "job", "poll", "call"} => evaluated = "ok"

\* The function of a timer that has not been cleared exists until it is called.
CallbackAlive == \A t \in os_timers : timer[t].func = "live"

=============================================================================
