-------------------------- MODULE EventLoopProofs ---------------------------
(***************************************************************************)
(* Proofs about EventLoop, for every number of timers and jobs, all delays *)
(* and whichever callbacks refer to their own handles.                     *)
(***************************************************************************)
EXTENDS EventLoop, TLAPS

(* The inductive invariant *)

\* What the script keeps is a handle object that exists.
RootsExist == \A t \in Timers : timer[t].root => timer[t].has_object

\* The two owners of a timer settle between them when it is freed.
Settled == \A t \in Known : timer[t].freed <=> t \notin os_timers /\ ~timer[t].has_object

\* What is known of the loop where the run ends.
LoopEnds ==
  /\ at = "load" => evaluated = "no"
  /\ at = "poll" => jobs = 0 \/ failed
  /\ at \in {"context", "freed"} => os_timers = {}

IInv == TypeOK /\ RootsExist /\ FreedByLastOwner /\ LoopEnds /\ EndsWhenDone

-----------------------------------------------------------------------------
(* Timers *)

\* A finalized handle leaves its timer to the list, or is the last owner and frees it.
LEMMA Finalizer ==
  ASSUME NEW t, NEW gone \in BOOLEAN, timer[t] \in TimerType,
         t \in os_timers => ~timer[t].freed
  PROVE  LET v == js_os_timer_finalizer(t, gone)
         IN v \in TimerType /\ ~v.root /\ ~v.has_object /\ (v.freed <=> t \notin os_timers)
<1> DEFINE v == js_os_timer_finalizer(t, gone)
<1>1. CASE t \in os_timers
  <2> DEFINE fn == IF gone THEN "destroyed" ELSE timer[t].func
  <2>1. fn \in {"live", "undefined", "destroyed"}
    BY DEF TimerType
  <2>2. v = [timer[t] EXCEPT !.root = FALSE, !.has_object = FALSE, !.func = fn]
    BY <1>1 DEF js_os_timer_finalizer
  <2> HIDE DEF fn, v
  <2>3. v \in TimerType
    BY <2>1, <2>2 DEF TimerType
  <2>4. v.root = FALSE /\ v.has_object = FALSE /\ v.freed = timer[t].freed
    BY <2>2 DEF TimerType
  <2> QED
    BY <1>1, <2>3, <2>4 DEF v
<1>2. CASE t \notin os_timers
  <2>1. v = [timer[t] EXCEPT !.root = FALSE, !.has_object = FALSE, !.func = "undefined", !.freed = TRUE]
    BY <1>2 DEF js_os_timer_finalizer
  <2> HIDE DEF v
  <2>2. v \in TimerType
    BY <2>1 DEF TimerType
  <2>3. v.root = FALSE /\ v.has_object = FALSE /\ v.freed = TRUE
    BY <2>1 DEF TimerType
  <2> QED
    BY <1>2, <2>2, <2>3 DEF v
<1> QED
  BY <1>1, <1>2

\* A step that changes one timer keeps the invariant of all if it keeps that one's.
LEMMA OneTimer ==
  ASSUME IInv, NEW t \in Timers, NEW v \in TimerType, timer' = [timer EXCEPT ![t] = v],
         UNCHANGED created, os_timers' = os_timers \/ os_timers' = os_timers \ {t},
         v.root => v.has_object, v.freed <=> t \notin os_timers' /\ ~v.has_object
  PROVE  timer' \in [Timers -> TimerType] /\ RootsExist' /\ Settled' /\ os_timers' \subseteq Known'
<1>1. timer \in [Timers -> TimerType] /\ os_timers \subseteq Known
  BY DEF IInv, TypeOK
<1>2. \A u \in Timers : timer'[u] = IF u = t THEN v ELSE timer[u]
  BY <1>1
<1>3. timer' \in [Timers -> TimerType]
  BY <1>1
<1>4. RootsExist'
  BY <1>2 DEF IInv, RootsExist
<1>5. Settled'
  <2>1. Known \subseteq Timers
    BY LoopAssumption DEF IInv, TypeOK, Known, Timers
  <2>2. \A u \in Known : timer[u].freed <=> u \notin os_timers /\ ~timer[u].has_object
    BY DEF IInv, FreedByLastOwner
  <2>3. \A u \in Known \ {t} : u \in os_timers' <=> u \in os_timers
    OBVIOUS
  <2> QED
    BY <1>2, <2>1, <2>2, <2>3 DEF Settled, Known
<1>6. os_timers' \subseteq Known'
  BY <1>1 DEF Known
<1> QED
  BY <1>3, <1>4, <1>5, <1>6

\* A step that leaves the timers and their list alone.
LEMMA NoTimer ==
  ASSUME IInv, UNCHANGED <<created, os_timers, timer>>
  PROVE  timer' \in [Timers -> TimerType] /\ RootsExist' /\ Settled' /\ os_timers' \subseteq Known'
BY DEF IInv, TypeOK, RootsExist, FreedByLastOwner, Settled, Known

\* What is left to show of a step that has taken care of the timers.
LEMMA LoopSteps ==
  ASSUME IInv, timer' \in [Timers -> TimerType], RootsExist', Settled', os_timers' \subseteq Known',
         created' \in 0 .. MaxTimers, due' \in [Timers -> Nat], sub' \in 0 .. Second - 1,
         evaluated' \in {"no", "ok", "threw"}, jobs' \in 0 .. MaxJobs,
         failed' \in BOOLEAN, rw' \in BOOLEAN,
         at' \in {"load", "eval", "jobs", "job", "poll", "call", "free", "context", "freed", "crashed"},
         running' \in 0 .. created', running' # 0 <=> at' = "call",
         at' = "freed" => \A t \in Known' : timer'[t].freed,
         LoopEnds', EndsWhenDone'
  PROVE  IInv'
<1>1. TypeOK'
  BY DEF TypeOK, TimerType
<1>2. FreedByLastOwner'
  BY DEF FreedByLastOwner, Settled
<1> QED
  BY <1>1, <1>2 DEF IInv

\* Every step of a script preserves the invariant.
LEMMA ScriptKeeps == ASSUME IInv, ScriptStep PROVE IInv'
<1>0. /\ created \in 0 .. MaxTimers /\ MaxTimers \in Nat /\ due \in [Timers -> Nat]
      /\ sub \in 0 .. Second - 1 /\ evaluated \in {"no", "ok", "threw"} /\ jobs \in 0 .. MaxJobs
      /\ running \in 0 .. created /\ (running # 0 <=> at = "call")
      /\ timer \in [Timers -> TimerType] /\ os_timers \subseteq Known /\ Known \subseteq Timers
  BY LoopAssumption DEF IInv, TypeOK, Known, Timers
<1>b. failed \in BOOLEAN /\ rw \in BOOLEAN
  BY DEF IInv, TypeOK
<1>s. /\ Settled /\ RootsExist
      /\ \A t \in os_timers : ~timer[t].freed
  BY <1>0 DEF IInv, Settled, FreedByLastOwner
<1>1. ASSUME InScript, UNCHANGED <<at, evaluated, sub, running, failed>>,
             created' \in created .. MaxTimers, due' \in [Timers -> Nat],
             jobs' \in 0 .. MaxJobs, rw' \in BOOLEAN,
             timer' \in [Timers -> TimerType], RootsExist', Settled', os_timers' \subseteq Known'
      PROVE  IInv'
  <2>1. at' \in {"eval", "job", "call"} /\ LoopEnds' /\ EndsWhenDone'
    BY <1>1 DEF InScript, LoopEnds, EndsWhenDone
  <2>2. created' \in 0 .. MaxTimers /\ running' \in 0 .. created' /\ (running' # 0 <=> at' = "call")
    BY <1>0, <1>1
  <2>3. failed' \in BOOLEAN /\ sub' \in 0 .. Second - 1 /\ evaluated' \in {"no", "ok", "threw"}
    BY <1>0, <1>b, <1>1
  <2> QED
    BY <1>1, <2>1, <2>2, <2>3, LoopSteps
<1>2. ASSUME NEW interval \in Delays \cup {-1, 0}, NEW delay \in Int,
             js_os_create_timer(interval, delay)
      PROVE  IInv'
  <2> DEFINE t == created + 1
             n == Left(delay)
             v == [interval |-> interval, left |-> n, func |-> "live",
                   has_object |-> TRUE, root |-> TRUE, freed |-> FALSE]
  <2>1. /\ InScript /\ created' = t /\ t \in Timers /\ os_timers' = os_timers \cup {t}
        /\ due' = [due EXCEPT ![t] = n]
        /\ UNCHANGED <<at, evaluated, sub, running, jobs, failed, rw>>
    BY <1>0, <1>2 DEF js_os_create_timer, Timers
  <2>2. timer' = [timer EXCEPT ![t] = v]
    BY <1>2, <2>1 DEF js_os_create_timer
  <2>n. n \in Nat
    BY DEF Left, Monus
  <2> HIDE DEF n
  <2>3. v \in TimerType /\ v.has_object = TRUE /\ v.freed = FALSE
    BY <2>n DEF TimerType
  <2> HIDE DEF v
  <2>4. timer' \in [Timers -> TimerType] /\ due' \in [Timers -> Nat]
        /\ \A u \in Timers : timer'[u] = IF u = t THEN v ELSE timer[u]
    BY <1>0, <2>n, <2>1, <2>2, <2>3
  <2>5. Known' = Known \cup {t} /\ t \notin Known
    BY <1>0, <2>1 DEF Known
  <2> HIDE DEF t
  <2>6. RootsExist'
    BY <1>s, <2>3, <2>4 DEF RootsExist
  <2>7. Settled'
    BY <1>0, <1>s, <2>1, <2>3, <2>4, <2>5 DEF Settled
  <2>8. os_timers' \subseteq Known' /\ created' \in created .. MaxTimers
    BY <1>0, <2>1, <2>5 DEF t, Timers
  <2> QED
    BY <1>0, <1>b, <1>1, <2>1, <2>4, <2>6, <2>7, <2>8
<1>3. ASSUME NEW t \in Known, js_os_clearTimeout(t) PROVE IInv'
  <2>1. timer[t].has_object /\ timer[t].root \in BOOLEAN
    BY <1>0, <1>3, <1>s DEF js_os_clearTimeout, HasHandle, RootsExist, TimerType
  <2>2. /\ InScript /\ os_timers' = os_timers \ {t}
        /\ UNCHANGED <<at, evaluated, created, timer, due, sub, running, jobs, failed, rw>>
    BY <1>3 DEF js_os_clearTimeout, clock
  <2>3. RootsExist' /\ timer' \in [Timers -> TimerType]
    BY <1>0, <1>s, <2>2 DEF RootsExist
  <2>4. Settled'
    BY <1>s, <2>1, <2>2 DEF Settled, Known
  <2>5. os_timers' \subseteq Known' /\ created' \in created .. MaxTimers
    BY <1>0, <2>2 DEF Known
  <2> QED
    BY <1>0, <1>b, <1>1, <2>2, <2>3, <2>4, <2>5
<1>4. ASSUME NEW t \in Known, DropHandle(t) PROVE IInv'
  <2> DEFINE kept == [timer[t] EXCEPT !.root = FALSE]
             v == IF InCycle(t) \/ (running = t /\ t \in Captures) THEN kept
                  ELSE js_os_timer_finalizer(t, FALSE)
  <2>1. /\ InScript /\ timer' = [timer EXCEPT ![t] = v]
        /\ UNCHANGED <<at, evaluated, created, os_timers, due, sub, running, jobs, failed, rw>>
    BY <1>0, <1>4 DEF DropHandle, clock
  <2>2. timer[t].freed <=> t \notin os_timers /\ ~timer[t].has_object
    BY <1>s DEF Settled
  <2>3. kept \in TimerType /\ kept.root = FALSE /\ kept.freed = timer[t].freed
        /\ kept.has_object = timer[t].has_object
    BY <1>0 DEF TimerType
  <2>4. LET w == js_os_timer_finalizer(t, FALSE)
        IN w \in TimerType /\ ~w.root /\ ~w.has_object /\ (w.freed <=> t \notin os_timers)
    BY <1>0, <1>s, Finalizer
  <2>5. v \in TimerType /\ (v.root => v.has_object)
        /\ (v.freed <=> t \notin os_timers /\ ~v.has_object)
    <3> HIDE DEF kept
    <3> QED
      BY <2>2, <2>3, <2>4
  <2> HIDE DEF v
  <2>6. timer' \in [Timers -> TimerType] /\ RootsExist' /\ Settled' /\ os_timers' \subseteq Known'
    BY <1>0, <2>1, <2>5, OneTimer
  <2> QED
    BY <1>0, <1>b, <1>1, <2>1, <2>6
<1>5. CASE CollectGarbage
  <2>0. timer' = [t \in Timers |-> IF t \in Garbage THEN js_os_timer_finalizer(t, TRUE) ELSE timer[t]]
    BY <1>5 DEF CollectGarbage
  <2>1. /\ InScript
        /\ UNCHANGED <<at, evaluated, created, os_timers, due, sub, running, jobs, failed, rw>>
    BY <1>5 DEF CollectGarbage, clock
  <2>2. ASSUME NEW t \in Timers
        PROVE  /\ timer'[t] \in TimerType /\ (timer'[t].root => timer'[t].has_object)
               /\ t \in Known => (timer'[t].freed <=> t \notin os_timers /\ ~timer'[t].has_object)
    <3>1. CASE t \in Garbage
      <4>1. timer'[t] = js_os_timer_finalizer(t, TRUE)
        BY <2>0, <3>1
      <4> QED
        BY <1>0, <1>s, <4>1, Finalizer
    <3>2. CASE t \notin Garbage
      <4>1. timer'[t] = timer[t]
        BY <2>0, <3>2
      <4> QED
        BY <1>0, <1>s, <4>1 DEF RootsExist, Settled
    <3> QED
      BY <3>1, <3>2
  <2>3. timer' \in [Timers -> TimerType]
    BY <2>0, <2>2
  <2>4. RootsExist' /\ Settled' /\ os_timers' \subseteq Known'
    BY <1>0, <2>1, <2>2 DEF RootsExist, Settled, Known
  <2> QED
    BY <1>0, <1>b, <1>1, <2>1, <2>3, <2>4
<1>6. CASE EnqueueJob
  <2>1. /\ InScript /\ jobs' \in 0 .. MaxJobs
        /\ UNCHANGED <<at, evaluated, created, os_timers, timer, due, sub, running, failed, rw>>
    BY <1>0, <1>6, LoopAssumption DEF EnqueueJob, clock
  <2> QED
    BY <1>0, <1>b, <1>1, <2>1, NoTimer
<1>7. ASSUME NEW on \in BOOLEAN, js_os_setReadHandler(on) PROVE IInv'
  <2>1. /\ InScript /\ rw' \in BOOLEAN
        /\ UNCHANGED <<at, evaluated, created, os_timers, timer, due, sub, running, jobs, failed>>
    BY <1>7 DEF js_os_setReadHandler, clock
  <2> QED
    BY <1>0, <1>b, <1>1, <2>1, NoTimer
<1>8. ASSUME NEW delay \in Delays, js_os_setTimeout(delay) \/ js_os_setInterval(delay) PROVE IInv'
  BY <1>2, <1>8, LoopAssumption DEF js_os_setTimeout, js_os_setInterval
<1>9. CASE js_os_setImmediate
  BY <1>2, <1>9 DEF js_os_setImmediate
<1> QED
  BY <1>3, <1>4, <1>5, <1>6, <1>7, <1>8, <1>9 DEF ScriptStep

\* Every step of runScript(), js_std_loop() and js_os_poll(), and the passing of time.
LEMMA LoopKeeps ==
  ASSUME IInv, runScript \/ js_std_loop \/ js_os_poll \/ Tick
  PROVE  IInv'
<1>0. /\ created \in 0 .. MaxTimers /\ MaxTimers \in Nat /\ due \in [Timers -> Nat]
      /\ sub \in 0 .. Second - 1 /\ evaluated \in {"no", "ok", "threw"} /\ jobs \in 0 .. MaxJobs
      /\ running \in 0 .. created /\ (running # 0 <=> at = "call")
      /\ timer \in [Timers -> TimerType] /\ os_timers \subseteq Known /\ Known \subseteq Timers
  BY LoopAssumption DEF IInv, TypeOK, Known, Timers
<1>b. failed \in BOOLEAN /\ rw \in BOOLEAN
  BY DEF IInv, TypeOK
<1>s. /\ Settled /\ RootsExist
      /\ \A t \in os_timers : ~timer[t].freed
  BY <1>0 DEF IInv, Settled, FreedByLastOwner
<1>1. ASSUME UNCHANGED <<created, os_timers, timer, due, sub>>, jobs' \in 0 .. MaxJobs,
             evaluated' \in {"no", "ok", "threw"}, failed' \in BOOLEAN, rw' = rw,
             at' \in {"load", "eval", "jobs", "job", "poll", "free", "crashed"},
             running' = 0, LoopEnds', EndsWhenDone'
      PROVE  IInv'
  <2>1. timer' \in [Timers -> TimerType] /\ RootsExist' /\ Settled' /\ os_timers' \subseteq Known'
    BY <1>1, NoTimer
  <2> QED
    BY <1>0, <1>b, <1>1, <2>1, LoopSteps
<1>2. CASE LoadFails \/ LoadScript
  <2>1. /\ at = "load" /\ at' \in {"free", "eval"}
        /\ UNCHANGED <<evaluated, created, os_timers, timer, due, sub, running, jobs, failed, rw>>
    BY <1>2 DEF LoadFails, LoadScript, clock
  <2>2. LoopEnds' /\ EndsWhenDone'
    BY <2>1 DEF IInv, LoopEnds, EndsWhenDone
  <2> QED
    BY <1>0, <1>b, <1>1, <2>1, <2>2
<1>3. CASE EvalReturns
  <2>1. /\ at = "eval" /\ at' = "jobs" /\ evaluated' \in {"no", "ok", "threw"}
        /\ UNCHANGED <<created, os_timers, timer, due, sub, running, jobs, failed, rw>>
    BY <1>3 DEF EvalReturns, clock
  <2>2. LoopEnds' /\ EndsWhenDone'
    BY <2>1 DEF LoopEnds, EndsWhenDone
  <2> QED
    BY <1>0, <1>b, <1>1, <2>1, <2>2
<1>4. CASE RunAgain
  <2>1. /\ at = "freed" /\ at' = "load" /\ evaluated = "no"
        /\ UNCHANGED <<evaluated, created, os_timers, timer, due, sub, running, jobs, failed, rw>>
    BY <1>4 DEF RunAgain, clock
  <2>2. LoopEnds' /\ EndsWhenDone'
    BY <2>1 DEF LoopEnds, EndsWhenDone
  <2> QED
    BY <1>0, <1>b, <1>1, <2>1, <2>2
<1>5. CASE js_std_loop
  <2>0. jobs' \in 0 .. MaxJobs
    BY <1>0, <1>5, LoopAssumption DEF js_std_loop, ExecutePendingJob, JobReturns, NoMoreJobs
  <2>1. /\ at \in {"jobs", "job"} /\ at' \in {"job", "jobs", "poll"}
        /\ UNCHANGED <<evaluated, created, os_timers, timer, due, sub, running, rw>>
    BY <1>5 DEF js_std_loop, ExecutePendingJob, JobReturns, NoMoreJobs, clock
  <2>2. failed' \in BOOLEAN
    BY <1>b, <1>5 DEF js_std_loop, ExecutePendingJob, JobReturns, NoMoreJobs
  <2>3. at' = "poll" => jobs' = 0 \/ failed'
    BY <1>5 DEF js_std_loop, ExecutePendingJob, JobReturns, NoMoreJobs
  <2>4. LoopEnds' /\ EndsWhenDone'
    BY <2>1, <2>3 DEF LoopEnds, EndsWhenDone
  <2> QED
    BY <1>0, <1>b, <1>1, <2>0, <2>1, <2>2, <2>4
<1>6. CASE PollEnds \/ PollIdle \/ \E t \in Known : PollCrashes(t)
  <2>1. /\ at = "poll" /\ at' \in {"free", "jobs", "crashed"}
        /\ at' = "free" => os_timers = {} /\ ~rw
        /\ UNCHANGED <<evaluated, created, os_timers, timer, due, sub, running, jobs, failed, rw>>
    BY <1>6 DEF PollEnds, PollIdle, PollCrashes, clock
  <2>2. LoopEnds' /\ EndsWhenDone'
    BY <2>1 DEF IInv, LoopEnds, EndsWhenDone
  <2> QED
    BY <1>0, <1>b, <1>1, <2>1, <2>2
<1>7. ASSUME NEW t \in Known, PollRepeats(t) PROVE IInv'
  <2> DEFINE n == Left(timer[t].interval)
             v == [timer[t] EXCEPT !.left = n]
  <2>1. /\ at' = "call" /\ running' = t /\ timer[t].interval # -1 /\ t \in os_timers
        /\ due' = [due EXCEPT ![t] = n]
        /\ UNCHANGED <<evaluated, created, os_timers, sub, jobs, failed, rw>>
    BY <1>7 DEF PollRepeats, Expired
  <2>2. timer' = [timer EXCEPT ![t] = v]
    BY <1>0, <1>7 DEF PollRepeats
  <2>3. n \in Nat
    <3>1. timer[t].interval \in Delays \cup {-1, 0}
      BY <1>0 DEF TimerType
    <3>2. timer[t].interval \in Int
      BY <3>1, LoopAssumption
    <3> QED
      BY <3>2 DEF Left, Monus
  <2> HIDE DEF n
  <2>4. v \in TimerType
    BY <1>0, <2>3 DEF TimerType
  <2>5. v.root = timer[t].root /\ v.has_object = timer[t].has_object /\ v.freed = timer[t].freed
    BY <1>0 DEF TimerType
  <2> HIDE DEF v
  <2>6. (v.root => v.has_object) /\ (v.freed <=> t \notin os_timers /\ ~v.has_object)
    BY <1>0, <1>s, <2>5 DEF RootsExist, Settled
  <2>7. timer' \in [Timers -> TimerType] /\ RootsExist' /\ Settled' /\ os_timers' \subseteq Known'
    BY <1>0, <2>1, <2>2, <2>4, <2>6, OneTimer
  <2>8. LoopEnds' /\ EndsWhenDone' /\ due' \in [Timers -> Nat] /\ t \in 0 .. created /\ t # 0
    BY <1>0, <2>1, <2>3 DEF LoopEnds, EndsWhenDone, Known
  <2> QED
    BY <1>0, <1>b, <2>1, <2>7, <2>8, LoopSteps
<1>8. ASSUME NEW t \in Known, PollOneShot(t) PROVE IInv'
  <2> DEFINE b == ~timer[t].has_object
             v == [timer[t] EXCEPT !.func = "undefined", !.freed = b]
  <2>1. /\ at' = "call" /\ running' = t /\ os_timers' = os_timers \ {t}
        /\ UNCHANGED <<evaluated, created, due, sub, jobs, failed, rw>>
    BY <1>8 DEF PollOneShot, clock
  <2>2. timer' = [timer EXCEPT ![t] = v]
    BY <1>0, <1>8 DEF PollOneShot
  <2>3. b \in BOOLEAN
    BY <1>0 DEF TimerType
  <2>4. (b <=> ~timer[t].has_object)
    OBVIOUS
  <2> HIDE DEF b
  <2>5. v \in TimerType
    BY <1>0, <2>3 DEF TimerType
  <2>6. v.root = timer[t].root /\ v.has_object = timer[t].has_object /\ v.freed = b
    BY <1>0 DEF TimerType
  <2> HIDE DEF v
  <2>7. (v.root => v.has_object) /\ (v.freed <=> t \notin os_timers' /\ ~v.has_object)
    BY <1>0, <1>s, <2>1, <2>4, <2>6 DEF RootsExist
  <2>8. timer' \in [Timers -> TimerType] /\ RootsExist' /\ Settled' /\ os_timers' \subseteq Known'
    BY <1>0, <2>1, <2>2, <2>5, <2>7, OneTimer
  <2>9. LoopEnds' /\ EndsWhenDone' /\ t \in 0 .. created /\ t # 0
    BY <1>0, <2>1 DEF LoopEnds, EndsWhenDone, Known
  <2> QED
    BY <1>0, <1>b, <2>1, <2>8, <2>9, LoopSteps
<1>9. CASE CallReturns
  <2> DEFINE t == running
             v == IF timer[t].has_object /\ ~timer[t].root /\ timer[t].func = "undefined"
                  THEN js_os_timer_finalizer(t, FALSE) ELSE timer[t]
  <2>1. /\ at = "call" /\ at' = "jobs" /\ running' = 0 /\ t \in Known
        /\ UNCHANGED <<evaluated, created, os_timers, due, sub, jobs, failed, rw>>
    BY <1>0, <1>9 DEF CallReturns, clock, Known
  <2>2. timer' = [timer EXCEPT ![t] = v]
    BY <1>0, <1>9 DEF CallReturns
  <2>3. LET w == js_os_timer_finalizer(t, FALSE)
        IN w \in TimerType /\ ~w.root /\ ~w.has_object /\ (w.freed <=> t \notin os_timers)
    BY <1>0, <1>s, <2>1, Finalizer
  <2>4. v \in TimerType /\ (v.root => v.has_object) /\ (v.freed <=> t \notin os_timers /\ ~v.has_object)
    <3>1. /\ timer[t] \in TimerType /\ (timer[t].root => timer[t].has_object)
          /\ (timer[t].freed <=> t \notin os_timers /\ ~timer[t].has_object)
      BY <1>0, <1>s, <2>1 DEF RootsExist, Settled
    <3> QED
      BY <2>3, <3>1
  <2> HIDE DEF v
  <2>5. timer' \in [Timers -> TimerType] /\ RootsExist' /\ Settled' /\ os_timers' \subseteq Known'
    BY <1>0, <2>1, <2>2, <2>4, OneTimer
  <2>6. LoopEnds' /\ EndsWhenDone'
    BY <2>1 DEF LoopEnds, EndsWhenDone
  <2> QED
    BY <1>0, <1>b, <2>1, <2>5, <2>6, LoopSteps
<1>10. CASE js_std_free_handlers
  <2>0. timer' = [t \in Timers |->
          IF t \in os_timers /\ ~timer[t].has_object
          THEN [timer[t] EXCEPT !.freed = TRUE, !.func = "undefined"] ELSE timer[t]]
    BY <1>10 DEF js_std_free_handlers
  <2>1. /\ at = "free" /\ at' = "context" /\ os_timers' = {} /\ rw' = FALSE
        /\ UNCHANGED <<evaluated, created, due, sub, running, jobs, failed>>
    BY <1>10 DEF js_std_free_handlers, clock
  <2>2. ASSUME NEW t \in Timers
        PROVE  /\ timer'[t] \in TimerType /\ (timer'[t].root => timer'[t].has_object)
               /\ t \in Known => (timer'[t].freed <=> ~timer'[t].has_object)
    <3>1. CASE t \in os_timers /\ ~timer[t].has_object
      <4> DEFINE v == [timer[t] EXCEPT !.freed = TRUE, !.func = "undefined"]
      <4>1. timer'[t] = v
        BY <2>0, <3>1
      <4>2. v \in TimerType
        BY <1>0 DEF TimerType
      <4>3. v.root = timer[t].root /\ v.has_object = timer[t].has_object /\ v.freed = TRUE
        BY <1>0 DEF TimerType
      <4> HIDE DEF v
      <4> QED
        BY <1>s, <3>1, <4>1, <4>2, <4>3 DEF RootsExist
    <3>2. CASE ~(t \in os_timers /\ ~timer[t].has_object)
      <4>1. timer'[t] = timer[t]
        BY <2>0, <3>2
      <4> QED
        BY <1>0, <1>s, <3>2, <4>1 DEF RootsExist, Settled
    <3> QED
      BY <3>1, <3>2
  <2>3. timer' \in [Timers -> TimerType]
    BY <2>0, <2>2
  <2>4. RootsExist' /\ Settled' /\ os_timers' \subseteq Known'
    BY <1>0, <2>1, <2>2 DEF RootsExist, Settled, Known
  <2>5. LoopEnds' /\ EndsWhenDone'
    BY <2>1 DEF LoopEnds, EndsWhenDone
  <2> QED
    BY <1>0, <1>b, <2>1, <2>3, <2>4, <2>5, LoopSteps
<1>11. CASE FreeRuntime
  <2>0. timer' = [t \in Timers |->
          IF timer[t].has_object THEN js_os_timer_finalizer(t, FALSE) ELSE timer[t]]
    BY <1>11 DEF FreeRuntime
  <2>1. /\ at = "context" /\ at' = "freed" /\ jobs' = 0 /\ os_timers = {}
        /\ UNCHANGED <<evaluated, created, os_timers, due, sub, running, failed, rw>>
    BY <1>11 DEF FreeRuntime, clock, IInv, LoopEnds
  <2>2. ASSUME NEW t \in Timers
        PROVE  /\ timer'[t] \in TimerType /\ ~timer'[t].root /\ ~timer'[t].has_object
               /\ t \in Known => timer'[t].freed
    <3>1. CASE timer[t].has_object
      <4>1. timer'[t] = js_os_timer_finalizer(t, FALSE)
        BY <2>0, <3>1
      <4> QED
        BY <1>0, <2>1, <4>1, Finalizer
    <3>2. CASE ~timer[t].has_object
      <4>1. timer'[t] = timer[t]
        BY <2>0, <3>2
      <4> QED
        BY <1>0, <1>s, <2>1, <3>2, <4>1 DEF RootsExist, Settled
    <3> QED
      BY <3>1, <3>2
  <2>3. timer' \in [Timers -> TimerType]
    BY <2>0, <2>2
  <2>4. RootsExist' /\ Settled' /\ os_timers' \subseteq Known' /\ \A t \in Known' : timer'[t].freed
    BY <1>0, <2>1, <2>2 DEF RootsExist, Settled, Known
  <2>5. LoopEnds' /\ EndsWhenDone' /\ 0 \in 0 .. MaxJobs
    BY <2>1, LoopAssumption DEF LoopEnds, EndsWhenDone
  <2> QED
    BY <1>0, <1>b, <2>1, <2>3, <2>4, <2>5, LoopSteps
<1>12. CASE Tick
  <2>0. /\ timer' = [t \in Timers |->
               IF t \in os_timers /\ sub' = 0
               THEN [timer[t] EXCEPT !.left = Monus(@, Second)] ELSE timer[t]]
        /\ due' = [t \in Timers |-> IF t \in os_timers THEN Monus(due[t], 1) ELSE 0]
    BY <1>12 DEF Tick
  <2>1. /\ sub' = (sub + 1) % Second
        /\ UNCHANGED <<at, evaluated, created, os_timers, running, jobs, failed, rw>>
    BY <1>12 DEF Tick
  <2>2. ASSUME NEW t \in Timers
        PROVE  /\ timer'[t] \in TimerType /\ timer'[t].root = timer[t].root
               /\ timer'[t].has_object = timer[t].has_object /\ timer'[t].freed = timer[t].freed
    <3>1. CASE t \in os_timers /\ sub' = 0
      <4> DEFINE n == Monus(timer[t].left, Second)
                 v == [timer[t] EXCEPT !.left = n]
      <4>1. timer'[t] = v
        BY <2>0, <3>1
      <4>2. n \in Nat
        BY <1>0, LoopAssumption DEF TimerType, Monus
      <4> HIDE DEF n
      <4>3. v \in TimerType
        BY <1>0, <4>2 DEF TimerType
      <4>4. v.root = timer[t].root /\ v.has_object = timer[t].has_object /\ v.freed = timer[t].freed
        BY <1>0 DEF TimerType
      <4> HIDE DEF v
      <4> QED
        BY <4>1, <4>3, <4>4
    <3>2. CASE ~(t \in os_timers /\ sub' = 0)
      BY <1>0, <2>0, <3>2
    <3> QED
      BY <3>1, <3>2
  <2>3. timer' \in [Timers -> TimerType]
    BY <2>0, <2>2
  <2>4. due' \in [Timers -> Nat]
    <3>1. \A t \in Timers : due'[t] \in Nat
      BY <1>0, <2>0 DEF Monus
    <3> QED
      BY <2>0, <3>1
  <2>5. sub' \in 0 .. Second - 1
    BY <1>0, <2>1, LoopAssumption
  <2>6. RootsExist' /\ Settled' /\ os_timers' \subseteq Known'
    BY <1>0, <1>s, <2>1, <2>2 DEF RootsExist, Settled, Known
  <2>7. at' = "freed" => \A t \in Known' : timer'[t].freed
    BY <1>0, <2>1, <2>2 DEF IInv, FreedByLastOwner, Known
  <2>8. LoopEnds' /\ EndsWhenDone'
    BY <2>1 DEF IInv, LoopEnds, EndsWhenDone
  <2>9. at' \in {"load", "eval", "jobs", "job", "poll", "call", "free", "context", "freed", "crashed"}
    BY <2>1 DEF IInv, TypeOK
  <2> QED
    BY <1>0, <1>b, <2>1, <2>3, <2>4, <2>5, <2>6, <2>7, <2>8, <2>9, LoopSteps
<1> QED
  BY <1>2, <1>3, <1>4, <1>5, <1>6, <1>7, <1>8, <1>9, <1>10, <1>11, <1>12 DEF runScript, js_os_poll

-----------------------------------------------------------------------------
(* The invariant holds, and what follows from it *)

\* The inductive invariant holds in every reachable state.
THEOREM Invariance == Spec => []IInv
<1>1. Init => IInv
  <2> SUFFICES ASSUME Init PROVE IInv
    OBVIOUS
  <2>1. Known = {} /\ os_timers = {} /\ created = 0
    BY DEF Init, Known
  <2>2. Unused \in TimerType /\ Unused.root = FALSE
    BY LoopAssumption DEF Unused, TimerType
  <2>3. timer \in [Timers -> TimerType] /\ RootsExist
    <3> HIDE DEF Unused
    <3> QED
      BY <2>2 DEF Init, RootsExist
  <2>4. TypeOK
    <3>1. failed \in BOOLEAN /\ rw \in BOOLEAN
      BY DEF Init
    <3>2. /\ due \in [Timers -> Nat] /\ sub \in 0 .. Second - 1 /\ jobs \in 0 .. MaxJobs
          /\ created \in 0 .. MaxTimers /\ running \in 0 .. created
      BY <2>1, LoopAssumption DEF Init
    <3>3. at = "load" /\ evaluated = "no" /\ running = 0
      BY DEF Init
    <3> QED
      BY <2>1, <2>3, <3>1, <3>2, <3>3 DEF TypeOK
  <2>5. FreedByLastOwner /\ LoopEnds /\ EndsWhenDone
    BY <2>1 DEF Init, FreedByLastOwner, LoopEnds, EndsWhenDone
  <2> QED
    BY <2>3, <2>4, <2>5 DEF IInv
<1>2. IInv /\ [Next]_vars => IInv'
  <2> SUFFICES ASSUME IInv, [Next]_vars PROVE IInv'
    OBVIOUS
  <2>1. CASE Next
    BY <2>1, ScriptKeeps, LoopKeeps DEF Next
  <2>2. CASE UNCHANGED vars
    <3>1. /\ UNCHANGED <<at, evaluated, created, os_timers, timer, due, sub, running, jobs>>
          /\ failed' = failed /\ rw' = rw
      BY <2>2 DEF vars, clock
    <3>2. TypeOK'
      BY <3>1 DEF IInv, TypeOK, TimerType, Known
    <3>3. RootsExist' /\ FreedByLastOwner'
      BY <3>1 DEF IInv, RootsExist, FreedByLastOwner, Known
    <3>4. LoopEnds' /\ EndsWhenDone'
      BY <3>1 DEF IInv, LoopEnds, EndsWhenDone
    <3> QED
      BY <3>2, <3>3, <3>4 DEF IInv
  <2> QED
    BY <2>1, <2>2
<1> QED
  BY <1>1, <1>2, PTL DEF Spec

\* The variables of the loop keep their types, and only a timer of this run is called.
THEOREM TypeCorrect == Spec => []TypeOK
<1>1. IInv => TypeOK
  BY DEF IInv
<1> QED
  BY <1>1, Invariance, PTL

\* js_os_poll(), clearTimeout(), the finalizer of a handle, the garbage collector and
\* js_std_free_handlers() free every timer once, by whichever of its two owners is the
\* last, for any number of timers.
THEOREM LastOwnerFrees == Spec => []FreedByLastOwner
<1>1. IInv => FreedByLastOwner
  BY DEF IInv
<1> QED
  BY <1>1, Invariance, PTL

\* js_std_loop() goes on as long as there is a timer, a handler or, unless one has
\* failed, a promise job.
THEOREM LoopEndsWhenDone == Spec => []EndsWhenDone
<1>1. IInv => EndsWhenDone
  BY DEF IInv
<1> QED
  BY <1>1, Invariance, PTL

\* A timer that was cleared or has fired its one shot is never linked or called again.
THEOREM NeverCalledAgain == Spec => ClearedForGood
<1> DEFINE Gone == \A t \in Known :
             t \notin os_timers => t \notin os_timers' /\ (running' = t => running = t)
<1>1. IInv /\ [Next]_vars => [Gone]_vars
  <2> SUFFICES ASSUME IInv, Next PROVE Gone
    OBVIOUS
  <2>1. CASE ScriptStep
    <3>1. running' = running
      BY <2>1 DEF ScriptStep, js_os_setTimeout, js_os_setInterval, js_os_setImmediate,
         js_os_create_timer, js_os_clearTimeout, DropHandle, CollectGarbage, EnqueueJob,
         js_os_setReadHandler
    <3>2. os_timers' \subseteq os_timers \cup {created + 1}
      BY <2>1 DEF ScriptStep, js_os_setTimeout, js_os_setInterval, js_os_setImmediate,
         js_os_create_timer, js_os_clearTimeout, DropHandle, CollectGarbage, EnqueueJob,
         js_os_setReadHandler
    <3>3. created + 1 \notin Known
      BY DEF IInv, TypeOK, Known
    <3> QED
      BY <3>1, <3>2, <3>3
  <2>2. CASE runScript \/ js_std_loop \/ Tick
    BY <2>2 DEF runScript, LoadFails, LoadScript, EvalReturns, js_std_free_handlers, FreeRuntime,
       RunAgain, js_std_loop, ExecutePendingJob, JobReturns, NoMoreJobs, Tick
  <2>3. CASE js_os_poll
    <3>1. os_timers' \subseteq os_timers /\ running' \in os_timers \cup {0, running}
      BY <2>3 DEF js_os_poll, PollEnds, PollIdle, CallReturns, PollRepeats, PollOneShot,
         PollCrashes, Expired
    <3>2. 0 \notin Known
      BY DEF Known
    <3> QED
      BY <3>1, <3>2
  <2> QED
    BY <2>1, <2>2, <2>3 DEF Next
<1> QED
  BY <1>1, Invariance, PTL DEF Spec, ClearedForGood

=============================================================================
