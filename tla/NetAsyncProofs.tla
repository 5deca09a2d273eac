--------------------------- MODULE NetAsyncProofs ---------------------------
(***************************************************************************)
(* Proofs about NetAsync, for every number of fetches, every size of the   *)
(* pieces a response comes in and every limit on its size: buffers fit and *)
(* have one owner, the module implements FetchSpec, and no worker goes on  *)
(* for ever.                                                               *)
(***************************************************************************)
EXTENDS NetAsync, TLAPS

(* The inductive invariant *)

Busy == {"copy", "http", "read", "grow", "finish"}

WorkerType ==
  [pc : {"none", "exited"} \cup Busy, url : 0 .. fetches, length : 0 .. MaxResponse,
   capacity : 0 .. MaxResponse + 1, bytes_read : 0 .. ReadChunk, new_capacity : Nat,
   error : BOOLEAN]

\* What a worker knows of its buffer: it has one only while it reads, and then there is
\* room for what was received and will be once the buffer is large enough.
BufferOK(w) ==
  /\ w.length > 0 => w.length < w.capacity
  /\ w.pc \in {"none", "copy", "http", "exited"} => w.length = 0 /\ w.capacity = 0
  /\ w.pc = "grow" => w.length + w.bytes_read <= MaxResponse

\* A fetch that was not made or has no thread yet has no worker; at most the worker of
\* the running request is alive.
WorkersApart ==
  \A f \in Fetches :
    /\ f > fetches \/ (f = fetches /\ js \in {"fetch", "create", "start"}) => worker[f] = NoWorker
    /\ worker[f].pc \in Busy =>
         request.state = "RUNNING" /\ request.resolve = f /\ js \in {"idle", "fetch"}

\* A result names one fetch throughout.
Result(r) ==
  /\ r.resolve \in 1 .. fetches /\ r.url = r.resolve
  /\ r.body = 0 \/ (r.state = "DONE" /\ r.body = r.resolve)
  /\ promise[r.resolve] = Pending

\* request and taken hold a result only where the threads expect one.
RequestWhole ==
  /\ request.state = "IDLE" => request = Idle
  /\ request.state # "IDLE" => Result(request)
  /\ js = "fetch" => fetches > 0 /\ promise[fetches] = Pending /\ request.resolve # fetches
  /\ js \in {"create", "start"} => request.state = "RUNNING" /\ request.resolve = fetches
  /\ js = "settle" => request = Idle /\ taken.state # "IDLE" /\ Result(taken)
  /\ js # "settle" => taken = Idle

\* A fetch not made yet has no promise.
UnbornLater == \A f \in Fetches : f > fetches => promise[f] = Unborn

IInv ==
  /\ TypeOK /\ (\A f \in Fetches : BufferOK(worker[f]))
  /\ WorkersApart /\ RequestWhole /\ UnbornLater /\ BodyOwned

-----------------------------------------------------------------------------
(* The invariant holds *)

\* A worker that goes on without publishing changes its own record and, when it gets
\* its buffer, the set of bodies.
LEMMA WorkerGoesOn ==
  ASSUME IInv, NEW f \in Fetches, NEW w \in WorkerType,
         worker[f].pc \in Busy, w.pc \in Busy, BufferOK(w),
         worker' = [worker EXCEPT ![f] = w],
         w.capacity > 0 => w.pc \notin {"copy", "http"},
         bodies' = IF w.capacity > 0 THEN bodies \cup {f} ELSE bodies,
         worker[f].capacity > 0 => w.capacity > 0,
         UNCHANGED <<stages, request, js, fetches, taken, promise, low>>
  PROVE  IInv'
<1>1. /\ worker \in [Fetches -> WorkerType] /\ fetches \in 0 .. MaxFetches
  BY DEF IInv, TypeOK, WorkerType, Busy
<1>2. worker' \in [Fetches -> WorkerType]
  BY <1>1
<1>3. \A g \in Fetches : worker'[g] = IF g = f THEN w ELSE worker[g]
  BY <1>1
<1>4. TypeOK'
  <2>1. \A g \in Fetches : worker'[g].length > 0 => worker'[g].length < worker'[g].capacity
    BY <1>3 DEF IInv, TypeOK, BufferOK
  <2>2. bodies' \subseteq Fetches
    BY DEF IInv, TypeOK
  <2>3. worker' \in [Fetches -> WorkerType']
    BY <1>2 DEF WorkerType, Busy
  <2> QED
    BY <2>1, <2>2, <2>3 DEF IInv, TypeOK, WorkerType, Busy
<1>5. \A g \in Fetches : BufferOK(worker'[g])
  BY <1>3 DEF IInv
<1>6. WorkersApart'
  BY <1>3 DEF IInv, WorkersApart, NoWorker, Busy
<1>7. RequestWhole' /\ UnbornLater'
  BY DEF IInv, RequestWhole, Result, UnbornLater
<1>8. BodyOwned'
  <2>1. worker[f].capacity > 0 => worker[f].pc \in {"read", "grow", "finish"}
    BY DEF IInv, BufferOK, Busy
  <2>2. w.capacity \in Nat /\ worker[f].capacity \in Nat
    BY <1>1 DEF WorkerType
  <2> QED
    BY <1>3, <2>1, <2>2 DEF IInv, BodyOwned, Busy
<1>9. \A g \in Fetches : BufferOK(worker'[g]) <=> BufferOK(worker[g])'
  BY DEF BufferOK
<1> QED
  BY <1>4, <1>5, <1>6, <1>7, <1>8, <1>9 DEF IInv

\* Every step of net_fetch_worker() preserves the invariant.
LEMMA WorkerStep ==
  ASSUME IInv, NEW f \in Fetches, Worker(f)
  PROVE  IInv'
<1> DEFINE w == worker[f]
<1>0. /\ worker \in [Fetches -> WorkerType] /\ fetches \in 0 .. MaxFetches
      /\ w \in WorkerType /\ BufferOK(w) /\ request.url \in 0 .. fetches
      /\ w.capacity > 0 /\ w.pc \in {"read", "grow", "finish"} => bodies \cup {f} = bodies
  BY DEF IInv, TypeOK, WorkerType, Busy, BodyOwned
<1> HIDE DEF w
<1>1. ASSUME NEW v \in WorkerType, v.pc \in Busy, w.pc \in Busy, BufferOK(v),
             worker' = [worker EXCEPT ![f] = v],
             v.capacity = w.capacity, v.length = 0 => v.capacity = w.capacity,
             bodies' = bodies,
             UNCHANGED <<stages, request, js, fetches, taken, promise, low>>
      PROVE  IInv'
  <2>1. v.capacity > 0 => w.pc \in {"read", "grow", "finish"} /\ v.pc \notin {"copy", "http"}
    BY <1>0, <1>1 DEF BufferOK, Busy, WorkerType
  <2> QED
    BY <1>0, <1>1, <2>1, WorkerGoesOn DEF w
<1>2. CASE WorkerCopies(f)
  <2>1. CASE worker' = [worker EXCEPT ![f].pc = "http", ![f].url = request.url]
    <3> DEFINE v == [w EXCEPT !.pc = "http", !.url = request.url]
    <3>1. worker' = [worker EXCEPT ![f] = v]
      BY <1>0, <2>1 DEF w
    <3>2. v \in WorkerType /\ BufferOK(v) /\ v.capacity = w.capacity /\ v.pc \in Busy
      BY <1>0, <1>2 DEF WorkerCopies, w, WorkerType, BufferOK, Busy
    <3> HIDE DEF v
    <3> QED
      BY <1>1, <1>2, <3>1, <3>2 DEF WorkerCopies, w, Busy
  <2>2. CASE worker' = [worker EXCEPT ![f].pc = "finish", ![f].error = TRUE]
    <3> DEFINE v == [w EXCEPT !.pc = "finish", !.error = TRUE]
    <3>1. worker' = [worker EXCEPT ![f] = v]
      BY <1>0, <2>2 DEF w
    <3>2. v \in WorkerType /\ BufferOK(v) /\ v.capacity = w.capacity /\ v.pc \in Busy
      BY <1>0, <1>2 DEF WorkerCopies, w, WorkerType, BufferOK, Busy
    <3> HIDE DEF v
    <3> QED
      BY <1>1, <1>2, <3>1, <3>2 DEF WorkerCopies, w, Busy
  <2> QED
    BY <1>2, <2>1, <2>2 DEF WorkerCopies
<1>3. CASE WorkerSends(f) \/ WorkerReadFails(f) \/ WorkerReadsAll(f)
  <2>1. PICK p \in {"read", "finish"}, e \in BOOLEAN :
          worker' = [worker EXCEPT ![f] = [w EXCEPT !.pc = p, !.error = e]]
    <3>1. CASE worker' = [worker EXCEPT ![f].pc = "finish", ![f].error = TRUE]
      BY <1>0, <3>1 DEF w
    <3>2. ASSUME NEW p \in {"read", "finish"}, worker' = [worker EXCEPT ![f].pc = p]
          PROVE  worker' = [worker EXCEPT ![f] = [w EXCEPT !.pc = p, !.error = w.error]]
      BY <1>0, <3>2 DEF w, WorkerType
    <3>3. w.error \in BOOLEAN
      BY <1>0 DEF WorkerType
    <3> QED
      BY <1>3, <3>1, <3>2, <3>3 DEF WorkerSends, WorkerReadFails, WorkerReadsAll
  <2> DEFINE v == [w EXCEPT !.pc = p, !.error = e]
  <2>2. w.pc \in {"http", "read", "grow"}
    BY <1>3 DEF w, WorkerSends, WorkerReadFails, WorkerReadsAll
  <2>3. v \in WorkerType /\ BufferOK(v) /\ v.capacity = w.capacity /\ v.pc \in Busy
    BY <1>0, <2>2 DEF WorkerType, BufferOK, Busy
  <2>4. bodies' = bodies /\ UNCHANGED <<stages, request, js, fetches, taken, promise, low>>
    BY <1>3 DEF WorkerSends, WorkerReadFails, WorkerReadsAll
  <2> HIDE DEF v
  <2> QED
    BY <1>1, <2>1, <2>2, <2>3, <2>4 DEF v, Busy
<1>4. CASE WorkerReads(f)
  <2>1. PICK n \in 1 .. ReadChunk :
          /\ w.length + n + 1 <= MaxResponse + 1
          /\ worker' = IF w.length + n + 1 <= w.capacity
                       THEN [worker EXCEPT ![f].length = @ + n]
                       ELSE [worker EXCEPT ![f].pc = "grow", ![f].bytes_read = n,
                               ![f].new_capacity = IF w.capacity = 0 THEN ReadChunk
                                                   ELSE w.capacity * 2]
    BY <1>4 DEF WorkerReads, Required, w
  <2> DEFINE v == IF w.length + n + 1 <= w.capacity
                  THEN [w EXCEPT !.length = @ + n]
                  ELSE [w EXCEPT !.pc = "grow", !.bytes_read = n,
                          !.new_capacity = IF w.capacity = 0 THEN ReadChunk
                                           ELSE w.capacity * 2]
  <2>2. worker' = [worker EXCEPT ![f] = v]
    BY <1>0, <2>1 DEF w
  <2>3. w.pc = "read"
    BY <1>4 DEF WorkerReads, w
  <2>4. v \in WorkerType /\ BufferOK(v) /\ v.capacity = w.capacity /\ v.pc \in Busy
    <3>0. /\ w.length \in Nat /\ w.capacity \in Nat /\ n \in Nat /\ w.length + n <= MaxResponse
      BY <1>0, <2>1, NetAssumption DEF WorkerType
    <3>1. CASE w.length + n + 1 <= w.capacity
      <4>1. v = [w EXCEPT !.length = @ + n]
        BY <3>1
      <4> QED
        BY <1>0, <2>3, <3>0, <3>1, <4>1, NetAssumption DEF WorkerType, BufferOK, Busy
    <3>2. CASE ~(w.length + n + 1 <= w.capacity)
      <4> DEFINE c == IF w.capacity = 0 THEN ReadChunk ELSE w.capacity * 2
      <4>1. v = [w EXCEPT !.pc = "grow", !.bytes_read = n, !.new_capacity = c]
        BY <3>2
      <4>2. c \in Nat
        BY <3>0, NetAssumption
      <4> HIDE DEF c, v
      <4>3. v \in WorkerType
        <5>1. n \in 0 .. ReadChunk /\ w \in WorkerType
          BY <1>0, NetAssumption
        <5> QED
          BY <4>1, <4>2, <5>1 DEF WorkerType, Busy
      <4>4. BufferOK(v) /\ v.capacity = w.capacity /\ v.pc = "grow"
        BY <1>0, <2>3, <3>0, <4>1, NetAssumption DEF WorkerType, BufferOK
      <4> QED
        BY <4>3, <4>4 DEF Busy
    <3> QED
      BY <3>1, <3>2
  <2> HIDE DEF v
  <2> QED
    BY <1>1, <1>4, <2>2, <2>3, <2>4 DEF WorkerReads, Busy
<1>5. CASE WorkerDoubles(f)
  <2> DEFINE v == [w EXCEPT !.new_capacity = @ * 2]
  <2>1. worker' = [worker EXCEPT ![f] = v] /\ w.pc = "grow"
    BY <1>0, <1>5 DEF WorkerDoubles, w
  <2>2. v \in WorkerType /\ BufferOK(v) /\ v.capacity = w.capacity /\ v.pc \in Busy
    BY <1>0, <2>1 DEF WorkerType, BufferOK, Busy
  <2> HIDE DEF v
  <2> QED
    BY <1>1, <1>5, <2>1, <2>2 DEF WorkerDoubles, Busy
<1>6. CASE WorkerReallocs(f)
  <2> DEFINE c == IF w.new_capacity > MaxResponse + 1 THEN MaxResponse + 1 ELSE w.new_capacity
             v == [w EXCEPT !.pc = "read", !.length = @ + w.bytes_read, !.capacity = c,
                            !.bytes_read = 0, !.new_capacity = 0]
  <2>1. /\ worker' = [worker EXCEPT ![f] = v] /\ w.pc = "grow" /\ bodies' = bodies \cup {f}
        /\ UNCHANGED <<stages, request, js, fetches, taken, promise, low>>
    BY <1>0, <1>6 DEF WorkerReallocs, w
  <2>2. /\ w.new_capacity >= w.length + w.bytes_read + 1
        /\ w.length + w.bytes_read <= MaxResponse
    BY <1>0, <1>6, <2>1 DEF WorkerReallocs, Enough, Required, BufferOK, w
  <2>3. c \in 1 .. MaxResponse + 1 /\ w.length + w.bytes_read < c
    BY <1>0, <2>2, NetAssumption DEF WorkerType
  <2> HIDE DEF c
  <2>4. v \in WorkerType
    <3>1. w.length + w.bytes_read \in 0 .. MaxResponse
      BY <1>0, <2>2 DEF WorkerType
    <3>2. c \in 0 .. MaxResponse + 1 /\ 0 \in 0 .. ReadChunk
      BY <2>3, NetAssumption
    <3> QED
      BY <1>0, <3>1, <3>2 DEF WorkerType, Busy
  <2>5. BufferOK(v) /\ v.capacity > 0 /\ v.pc = "read"
    BY <1>0, <2>3 DEF WorkerType, BufferOK
  <2> HIDE DEF v
  <2> QED
    BY <2>1, <2>4, <2>5, WorkerGoesOn DEF Busy, w
<1>7. CASE WorkerPublishes(f)
  <2> DEFINE gone == [NoWorker EXCEPT !.pc = "exited"]
  <2>1. /\ worker' = [worker EXCEPT ![f] = gone] /\ w.pc = "finish"
        /\ gone \in WorkerType /\ BufferOK(gone) /\ gone.pc = "exited" /\ gone.capacity = 0
        /\ gone.length = 0
        /\ UNCHANGED <<stages, js, fetches, taken, promise, low>>
    <3>1. NoWorker \in WorkerType /\ NoWorker.length = 0 /\ NoWorker.capacity = 0
      BY <1>0, NetAssumption DEF NoWorker, WorkerType
    <3>2. worker' = [worker EXCEPT ![f] = gone]
      BY <1>7 DEF WorkerPublishes
    <3>3. w.pc = "finish" /\ UNCHANGED <<stages, js, fetches, taken, promise, low>>
      BY <1>7 DEF WorkerPublishes, w
    <3>4. gone \in WorkerType /\ gone.pc = "exited" /\ gone.length = 0 /\ gone.capacity = 0
      BY <3>1 DEF WorkerType
    <3> HIDE DEF gone
    <3> QED
      BY <3>2, <3>3, <3>4 DEF BufferOK
  <2> HIDE DEF gone
  <2>2. \A g \in Fetches : worker'[g] = IF g = f THEN gone ELSE worker[g]
    BY <1>0, <2>1
  <2>3. worker' \in [Fetches -> WorkerType]
    BY <1>0, <2>1
  <2>4. /\ request.state = "RUNNING" /\ request.resolve = f /\ js \in {"idle", "fetch"}
        /\ request.url = f /\ request.body = 0 /\ f \in 1 .. fetches
        /\ promise[f] = Pending /\ taken = Idle
        /\ \A g \in Fetches \ {f} : worker[g].pc \notin Busy
    BY <2>1 DEF IInv, WorkersApart, RequestWhole, Result, Busy, w
  <2>5. request \in [state : {"IDLE", "RUNNING", "DONE", "ERROR"}, url : 0 .. fetches,
                     resolve : 0 .. fetches, body : 0 .. fetches]
    BY DEF IInv, TypeOK
  <2>6. /\ bodies' \subseteq Fetches
        /\ request'.state \in {"DONE", "ERROR"} /\ request'.url = f /\ request'.resolve = f
        /\ request' \in [state : {"IDLE", "RUNNING", "DONE", "ERROR"}, url : 0 .. fetches,
                         resolve : 0 .. fetches, body : 0 .. fetches]
    <3>1. CASE w.error
      <4>1. request' = [request EXCEPT !.state = "ERROR"] /\ bodies' = bodies \ {f}
        BY <1>7, <3>1 DEF WorkerPublishes, w
      <4> QED
        BY <2>4, <2>5, <4>1 DEF IInv, TypeOK
    <3>2. CASE ~w.error
      <4> DEFINE b == IF w.capacity = 0 THEN 0 ELSE f
      <4>1. request' = [request EXCEPT !.state = "DONE", !.body = b] /\ bodies' = bodies
        BY <1>7, <3>2 DEF WorkerPublishes, w
      <4>2. b \in 0 .. fetches
        BY <1>0, <2>4
      <4> HIDE DEF b
      <4> QED
        BY <2>4, <2>5, <4>1, <4>2 DEF IInv, TypeOK
    <3> QED
      BY <3>1, <3>2
  <2>7. /\ request'.body = IF request'.state = "DONE" /\ w.capacity > 0 THEN f ELSE 0
        /\ bodies' = {request'.body} \ {0}
    <3>1. bodies = {g \in {f} : w.capacity > 0}
      <4>1. \A g \in Fetches : worker[g].pc \in {"read", "grow", "finish"} => g = f
        BY <2>4 DEF Busy
      <4>2. f \in Fetches /\ request.body = 0 /\ taken.body = 0 /\ worker[f].pc = "finish"
        BY <2>1, <2>4 DEF Idle, w
      <4> QED
        BY <4>1, <4>2 DEF IInv, BodyOwned, w
    <3>2. w.capacity \in Nat /\ f # 0
      BY <1>0, <2>4 DEF WorkerType
    <3>3. CASE w.error
      <4>1. request' = [request EXCEPT !.state = "ERROR"] /\ bodies' = bodies \ {f}
        BY <1>7, <3>3 DEF WorkerPublishes, w
      <4> QED
        BY <2>4, <2>5, <3>1, <3>2, <4>1
    <3>4. CASE ~w.error
      <4>1. /\ request' = [request EXCEPT !.state = "DONE", !.body = IF w.capacity = 0 THEN 0 ELSE f]
            /\ bodies' = bodies
        BY <1>7, <3>4 DEF WorkerPublishes, w
      <4> QED
        BY <2>4, <2>5, <3>1, <3>2, <4>1
    <3> QED
      BY <3>3, <3>4
  <2>8. TypeOK'
    <3>1. \A g \in Fetches : worker'[g].length > 0 => worker'[g].length < worker'[g].capacity
      BY <2>1, <2>2 DEF IInv, TypeOK
    <3>2. worker' \in [Fetches -> WorkerType']
      BY <2>1, <2>3 DEF WorkerType, Busy
    <3> QED
      BY <2>1, <2>6, <3>1, <3>2 DEF IInv, TypeOK, WorkerType, Busy
  <2>9. \A g \in Fetches : BufferOK(worker[g])'
    <3>1. \A g \in Fetches : BufferOK(worker'[g])
      BY <2>1, <2>2 DEF IInv
    <3> QED
      BY <3>1 DEF BufferOK
  <2>10. WorkersApart'
    <3>1. ~(f > fetches \/ (f = fetches /\ js \in {"fetch", "create", "start"}))
      BY <2>1 DEF IInv, WorkersApart, NoWorker, w
    <3> QED
      BY <2>1, <2>2, <2>4, <3>1 DEF IInv, WorkersApart, Busy
  <2>11. RequestWhole' /\ UnbornLater'
    BY <2>1, <2>4, <2>6, <2>7 DEF IInv, RequestWhole, Result, UnbornLater
  <2>12. BodyOwned'
    <3>1. \A g \in Fetches : worker'[g].pc \notin {"read", "grow", "finish"}
      BY <2>1, <2>2, <2>4 DEF Busy
    <3>2. taken'.body = 0
      BY <2>1, <2>4 DEF Idle
    <3> QED
      BY <2>7, <3>1, <3>2 DEF BodyOwned
  <2> QED
    BY <2>8, <2>9, <2>10, <2>11, <2>12 DEF IInv
<1> QED
  BY <1>2, <1>3, <1>4, <1>5, <1>6, <1>7 DEF Worker

\* Where neither the workers nor the bodies change, nor the number of fetches shrinks,
\* what is left to show is about request, taken and the promises.
LEMMA WorkersRest ==
  ASSUME IInv, UNCHANGED <<worker, low>>, stages' \in 0 .. Stages,
         fetches' \in fetches .. MaxFetches,
         js' \in {"idle", "fetch", "create", "start", "settle"},
         request' \in [state : {"IDLE", "RUNNING", "DONE", "ERROR"}, url : 0 .. fetches',
                       resolve : 0 .. fetches', body : 0 .. fetches'],
         taken' \in [state : {"IDLE", "DONE", "ERROR"}, url : 0 .. fetches',
                     resolve : 0 .. fetches', body : 0 .. fetches'],
         promise' \in [Fetches -> {Unborn, Pending, Rejected} \cup Fetches],
         bodies' \subseteq Fetches
  PROVE  TypeOK' /\ \A f \in Fetches : BufferOK(worker[f])'
<1>1. worker \in [Fetches -> WorkerType]
  BY DEF IInv, TypeOK, WorkerType, Busy
<1>2. 0 .. fetches \subseteq 0 .. fetches' /\ fetches' \in 0 .. MaxFetches
  BY NetAssumption DEF IInv, TypeOK
<1>3. \A w \in WorkerType : w \in WorkerType'
  BY <1>2 DEF WorkerType, Busy
<1>4. worker' \in [Fetches -> WorkerType']
  BY <1>1, <1>3
<1>5. TypeOK'
  BY <1>2, <1>4 DEF IInv, TypeOK, WorkerType, Busy
<1> QED
  BY <1>5 DEF IInv, BufferOK

\* Every step of fetch() and __pump() preserves the invariant.
LEMMA ScriptStep ==
  ASSUME IInv, EnsureOnly \/ FetchBegins \/ Fetching \/ Pump
  PROVE  IInv'
<1>0. /\ fetches \in 0 .. MaxFetches /\ stages \in 0 .. Stages /\ MaxFetches \in Nat
      /\ js \in {"idle", "fetch", "create", "start", "settle"}
      /\ request \in [state : {"IDLE", "RUNNING", "DONE", "ERROR"}, url : 0 .. fetches,
                      resolve : 0 .. fetches, body : 0 .. fetches]
      /\ taken \in [state : {"IDLE", "DONE", "ERROR"}, url : 0 .. fetches,
                     resolve : 0 .. fetches, body : 0 .. fetches]
      /\ promise \in [Fetches -> {Unborn, Pending, Rejected} \cup Fetches]
      /\ bodies \subseteq Fetches
  BY NetAssumption DEF IInv, TypeOK
<1>1. CASE EnsureOnly
  <2>1. /\ stages' \in 0 .. Stages
        /\ UNCHANGED <<request, js, fetches, taken, promise, worker, bodies, low>>
    BY <1>0, <1>1 DEF EnsureOnly, Stages
  <2>2. TypeOK' /\ \A f \in Fetches : BufferOK(worker[f])'
    BY <1>0, <2>1, WorkersRest
  <2> QED
    BY <2>1, <2>2 DEF IInv, WorkersApart, RequestWhole, Result, UnbornLater, BodyOwned
<1>2. CASE FetchBegins
  <2>1. /\ js = "idle" /\ js' = "fetch" /\ stages' \in 0 .. Stages
        /\ fetches' = fetches + 1 /\ fetches' \in Fetches
        /\ promise' = [promise EXCEPT ![fetches'] = Pending]
        /\ UNCHANGED <<request, taken, worker, bodies, low>>
    BY <1>0, <1>2 DEF FetchBegins, Fetches, Stages
  <2>2. /\ request' \in [state : {"IDLE", "RUNNING", "DONE", "ERROR"}, url : 0 .. fetches',
                        resolve : 0 .. fetches', body : 0 .. fetches']
        /\ taken' \in [state : {"IDLE", "DONE", "ERROR"}, url : 0 .. fetches',
                       resolve : 0 .. fetches', body : 0 .. fetches']
        /\ fetches' \in fetches .. MaxFetches
        /\ promise' \in [Fetches -> {Unborn, Pending, Rejected} \cup Fetches]
    <3>1. 0 .. fetches \subseteq 0 .. fetches' /\ fetches' \in fetches .. MaxFetches
      BY <1>0, <2>1 DEF Fetches
    <3> QED
      BY <1>0, <2>1, <3>1
  <2>3. TypeOK' /\ \A f \in Fetches : BufferOK(worker[f])'
    BY <1>0, <2>1, <2>2, WorkersRest
  <2>4. WorkersApart'
    BY <1>0, <2>1 DEF IInv, WorkersApart, Fetches
  <2>5. RequestWhole'
    <3>1. ASSUME request.state # "IDLE"
          PROVE  Result(request)' /\ request.resolve # fetches'
      BY <1>0, <2>1, <3>1 DEF IInv, RequestWhole, Result, Fetches
    <3>2. promise'[fetches'] = Pending /\ fetches' > 0 /\ Idle.resolve # fetches'
      BY <1>0, <2>1 DEF Idle, Fetches
    <3> QED
      BY <2>1, <3>1, <3>2 DEF IInv, RequestWhole
  <2>6. UnbornLater' /\ BodyOwned'
    BY <1>0, <2>1 DEF IInv, UnbornLater, BodyOwned, Fetches
  <2> QED
    BY <2>3, <2>4, <2>5, <2>6 DEF IInv
<1>3. CASE FetchRefused
  <2>1. /\ js = "fetch" /\ js' = "idle" /\ fetches \in Fetches
        /\ promise' = promise \/ promise' = [promise EXCEPT ![fetches] = Rejected]
        /\ UNCHANGED <<stages, request, fetches, taken, worker, bodies, low>>
    BY <1>0, <1>3 DEF FetchRefused, RejectNow, IInv, RequestWhole, Fetches
  <2>2. /\ promise' \in [Fetches -> {Unborn, Pending, Rejected} \cup Fetches]
        /\ \A f \in Fetches \ {fetches} : promise'[f] = promise[f]
    BY <1>0, <2>1
  <2>3. TypeOK' /\ \A f \in Fetches : BufferOK(worker[f])'
    BY <1>0, <2>1, <2>2, WorkersRest
  <2>4. WorkersApart' /\ BodyOwned'
    BY <2>1 DEF IInv, WorkersApart, BodyOwned
  <2>5. RequestWhole'
    BY <1>0, <2>1, <2>2 DEF IInv, RequestWhole, Result, Fetches
  <2>6. UnbornLater'
    BY <1>0, <2>1, <2>2 DEF IInv, UnbornLater, Fetches
  <2> QED
    BY <2>3, <2>4, <2>5, <2>6 DEF IInv
<1>4. CASE FetchAccepted
  <2>1. /\ js = "fetch" /\ request.state = "IDLE" /\ request = Idle
        /\ request' = [state |-> "RUNNING", url |-> fetches, resolve |-> fetches, body |-> 0]
        /\ js' = "create" /\ fetches \in 1 .. fetches /\ promise[fetches] = Pending
        /\ UNCHANGED <<stages, fetches, taken, promise, worker, bodies, low>>
    BY <1>0, <1>4 DEF FetchAccepted, IInv, RequestWhole
  <2>2. TypeOK' /\ \A f \in Fetches : BufferOK(worker[f])'
    BY <1>0, <2>1, WorkersRest
  <2>3. WorkersApart' /\ UnbornLater'
    BY <2>1 DEF IInv, WorkersApart, UnbornLater
  <2>4. RequestWhole' /\ BodyOwned'
    BY <2>1 DEF IInv, RequestWhole, Result, BodyOwned, Idle
  <2> QED
    BY <2>2, <2>3, <2>4 DEF IInv
<1>5. CASE CreateThread
  <2>1. /\ js = "create" /\ js' = "start"
        /\ UNCHANGED <<stages, request, fetches, taken, promise, worker, bodies, low>>
    BY <1>5 DEF CreateThread
  <2>2. TypeOK' /\ \A f \in Fetches : BufferOK(worker[f])'
    BY <1>0, <2>1, WorkersRest
  <2> QED
    BY <2>1, <2>2 DEF IInv, WorkersApart, RequestWhole, Result, UnbornLater, BodyOwned
<1>6. CASE ThreadFails
  <2> DEFINE f == request.resolve
  <2>1. /\ js \in {"create", "start"} /\ js' = "idle"
        /\ f \in 1 .. fetches /\ request.body = 0 /\ request.state = "RUNNING"
        /\ promise' = promise \/ promise' = [promise EXCEPT ![f] = Rejected]
        /\ UNCHANGED <<stages, fetches, taken, worker, bodies, low>>
    BY <1>6 DEF ThreadFails, RejectNow, IInv, RequestWhole, Result
  <2>2. request' = Idle
    BY <1>0, <1>6, <2>1 DEF ThreadFails, Idle
  <2>3. /\ promise' \in [Fetches -> {Unborn, Pending, Rejected} \cup Fetches]
        /\ \A g \in Fetches \ {f} : promise'[g] = promise[g]
    BY <1>0, <2>1
  <2> HIDE DEF f
  <2>4. TypeOK' /\ \A g \in Fetches : BufferOK(worker[g])'
    <3>1. Idle \in [state : {"IDLE", "RUNNING", "DONE", "ERROR"}, url : 0 .. fetches',
                    resolve : 0 .. fetches', body : 0 .. fetches']
      BY <1>0, <2>1 DEF Idle
    <3> QED
      BY <1>0, <2>1, <2>2, <2>3, <3>1, WorkersRest
  <2>5. WorkersApart' /\ BodyOwned'
    BY <2>1, <2>2 DEF IInv, WorkersApart, BodyOwned, Idle
  <2>6. RequestWhole' /\ UnbornLater'
    BY <1>0, <2>1, <2>2, <2>3 DEF IInv, RequestWhole, Result, UnbornLater, Idle, Fetches
  <2> QED
    BY <2>4, <2>5, <2>6 DEF IInv
<1>7. CASE StartThread
  <2> DEFINE f == request.resolve
             w == [NoWorker EXCEPT !.pc = "copy"]
  <2>1. /\ js = "start" /\ js' = "idle" /\ f = fetches /\ f \in Fetches
        /\ request.state = "RUNNING" /\ request.body = 0 /\ worker[f] = NoWorker
        /\ UNCHANGED <<stages, request, fetches, taken, promise, bodies, low>>
    BY <1>0, <1>7 DEF StartThread, IInv, RequestWhole, Result, WorkersApart, Fetches
  <2>2. worker \in [Fetches -> WorkerType]
    BY DEF IInv, TypeOK, WorkerType, Busy
  <2>3. worker' = [worker EXCEPT ![f] = w]
    BY <1>7, <2>1, <2>2 DEF StartThread
  <2>4. NoWorker \in WorkerType /\ NoWorker.length = 0 /\ NoWorker.capacity = 0
    BY <1>0, NetAssumption DEF NoWorker, WorkerType
  <2>5. w \in WorkerType /\ w.pc = "copy" /\ w.length = 0 /\ w.capacity = 0
    BY <2>4 DEF WorkerType, Busy
  <2> HIDE DEF f, w
  <2>6. \A g \in Fetches : worker'[g] = IF g = f THEN w ELSE worker[g]
    BY <2>2, <2>3
  <2>7. worker' \in [Fetches -> WorkerType]
    BY <2>2, <2>3, <2>5
  <2>8. TypeOK'
    <3>1. \A g \in Fetches : worker'[g].length > 0 => worker'[g].length < worker'[g].capacity
      BY <2>5, <2>6 DEF IInv, TypeOK
    <3>2. worker' \in [Fetches -> WorkerType']
      BY <2>1, <2>7 DEF WorkerType, Busy
    <3> QED
      BY <2>1, <3>1, <3>2 DEF IInv, TypeOK, WorkerType, Busy
  <2>9. \A g \in Fetches : BufferOK(worker[g])'
    <3>1. \A g \in Fetches : BufferOK(worker'[g])
      BY <2>5, <2>6 DEF IInv, BufferOK
    <3> QED
      BY <3>1 DEF BufferOK
  <2>10. WorkersApart'
    <3>1. \A g \in Fetches : worker[g].pc \notin Busy
      BY <2>1 DEF IInv, WorkersApart
    <3>2. \A g \in Fetches : g > fetches => g # f /\ worker[g] = NoWorker
      BY <1>0, <2>1 DEF IInv, WorkersApart
    <3> QED
      BY <2>1, <2>6, <3>1, <3>2 DEF WorkersApart, f
  <2>11. RequestWhole' /\ UnbornLater'
    BY <2>1 DEF IInv, RequestWhole, Result, UnbornLater
  <2>12. BodyOwned'
    BY <2>1, <2>5, <2>6 DEF IInv, BodyOwned, NoWorker
  <2> QED
    BY <2>8, <2>9, <2>10, <2>11, <2>12 DEF IInv
<1>8. CASE PumpTakes
  <2>1. /\ js = "idle" /\ js' = "settle" /\ request.state \in {"DONE", "ERROR"}
        /\ taken' = request /\ request' = Idle /\ taken = Idle /\ Result(request)
        /\ UNCHANGED <<stages, fetches, promise, worker, bodies, low>>
    BY <1>8 DEF PumpTakes, IInv, RequestWhole
  <2>2. TypeOK' /\ \A f \in Fetches : BufferOK(worker[f])'
    <3>1. Idle \in [state : {"IDLE", "RUNNING", "DONE", "ERROR"}, url : 0 .. fetches',
                    resolve : 0 .. fetches', body : 0 .. fetches']
      BY <1>0, <2>1 DEF Idle
    <3>2. taken' \in [state : {"IDLE", "DONE", "ERROR"}, url : 0 .. fetches',
                      resolve : 0 .. fetches', body : 0 .. fetches']
      BY <1>0, <2>1
    <3> QED
      BY <1>0, <2>1, <3>1, <3>2, WorkersRest
  <2>3. WorkersApart' /\ UnbornLater' /\ BodyOwned'
    BY <2>1 DEF IInv, WorkersApart, UnbornLater, BodyOwned, Idle
  <2>4. RequestWhole'
    BY <2>1 DEF RequestWhole, Result, Idle
  <2> QED
    BY <2>2, <2>3, <2>4 DEF IInv
<1>9. CASE PumpSettles
  <2> DEFINE f == taken.resolve
  <2>1. /\ js = "settle" /\ js' = "idle" /\ request = Idle /\ f \in 1 .. fetches
        /\ taken.url = f /\ taken.body \in {0, f}
        /\ taken' = Idle /\ bodies' = bodies \ {taken.body}
        /\ UNCHANGED <<stages, request, fetches, worker, low>>
    BY <1>9 DEF PumpSettles, IInv, RequestWhole, Result
  <2>2. PICK v \in {f, Rejected, Pending} : promise' = [promise EXCEPT ![f] = v]
    BY <1>9, <2>1 DEF PumpSettles, IInv, RequestWhole, Result
  <2>3. /\ promise' \in [Fetches -> {Unborn, Pending, Rejected} \cup Fetches]
        /\ \A g \in Fetches \ {f} : promise'[g] = promise[g]
    BY <1>0, <2>1, <2>2 DEF Fetches
  <2> HIDE DEF f
  <2>4. TypeOK' /\ \A g \in Fetches : BufferOK(worker[g])'
    <3>1. Idle \in [state : {"IDLE", "DONE", "ERROR"}, url : 0 .. fetches',
                    resolve : 0 .. fetches', body : 0 .. fetches']
      BY <1>0, <2>1 DEF Idle
    <3> QED
      BY <1>0, <2>1, <2>3, <3>1, WorkersRest
  <2>5. WorkersApart' /\ UnbornLater'
    BY <1>0, <2>1, <2>3 DEF IInv, WorkersApart, UnbornLater, Fetches
  <2>6. RequestWhole'
    BY <2>1 DEF RequestWhole, Idle
  <2>7. BodyOwned'
    <3>1. \A g \in Fetches : worker[g].pc \notin Busy
      BY <2>1 DEF IInv, WorkersApart, Idle
    <3> QED
      BY <2>1, <3>1 DEF IInv, BodyOwned, Idle, Busy
  <2> QED
    BY <2>4, <2>5, <2>6, <2>7 DEF IInv
<1> QED
  BY <1>1, <1>2, <1>3, <1>4, <1>5, <1>6, <1>7, <1>8, <1>9 DEF Fetching, Pump

\* The inductive invariant holds in every reachable state.
THEOREM Invariance == Spec => []IInv
<1>1. Init => IInv
  <2> SUFFICES ASSUME Init PROVE IInv
    OBVIOUS
  <2>0. fetches = 0 /\ \A f \in Fetches : f > fetches /\ worker[f] = NoWorker /\ promise[f] = Unborn
    BY NetAssumption DEF Init, Fetches
  <2>1. TypeOK
    <3>1. NoWorker \in WorkerType
      BY <2>0, NetAssumption DEF NoWorker, WorkerType
    <3>2. Idle \in [state : {"IDLE"}, url : 0 .. fetches, resolve : 0 .. fetches, body : 0 .. fetches]
      BY <2>0 DEF Idle
    <3>3. worker \in [Fetches -> WorkerType]
      BY <3>1 DEF Init
    <3>4. \A f \in Fetches : worker[f].length = 0
      BY <2>0 DEF NoWorker
    <3> QED
      BY <3>2, <3>3, <3>4, NetAssumption DEF Init, TypeOK, WorkerType, Busy, Stages
  <2>2. (\A f \in Fetches : BufferOK(worker[f])) /\ WorkersApart
    BY <2>0 DEF BufferOK, WorkersApart, NoWorker, Busy
  <2>3. RequestWhole /\ UnbornLater
    BY <2>0 DEF Init, RequestWhole, UnbornLater, Idle
  <2>4. BodyOwned
    BY <2>0 DEF Init, BodyOwned, NoWorker, Idle
  <2> QED
    BY <2>1, <2>2, <2>3, <2>4 DEF IInv
<1>2. IInv /\ [Next]_vars => IInv'
  <2> SUFFICES ASSUME IInv, [Next]_vars PROVE IInv'
    OBVIOUS
  <2>1. CASE Next
    BY <2>1, WorkerStep, ScriptStep DEF Next
  <2>2. CASE UNCHANGED vars
    BY <2>2 DEF vars, IInv, TypeOK, BufferOK, WorkersApart, RequestWhole, Result, UnbornLater, BodyOwned
  <2> QED
    BY <2>1, <2>2
<1> QED
  BY <1>1, <1>2, PTL DEF Spec

-----------------------------------------------------------------------------
(* What follows from it *)

\* The variables of net_async.c keep their types, and what a worker received fits,
\* with its NUL, into the buffer that realloc made.
THEOREM TypeCorrect == Spec => []TypeOK
<1>1. IInv => TypeOK
  BY DEF IInv
<1> QED
  BY <1>1, Invariance, PTL

\* A response body belongs to its worker, then to request, then to __pump(), and on
\* every error path it is freed by the one that has it.
THEOREM BodiesOwned == Spec => []BodyOwned
<1>1. IInv => BodyOwned
  BY DEF IInv
<1> QED
  BY <1>1, Invariance, PTL

\* A step of fetch(), __pump() or a worker is a step of FetchSpec, or changes neither a
\* promise nor the request in flight.
LEMMA StepRefines ==
  ASSUME IInv, Next
  PROVE  [Abstract!Next]_Abstract!vars
<1> USE DEF Abstract!vars, Abstract!Next
<1>0. /\ fetches \in 0 .. MaxFetches /\ MaxFetches \in Nat
      /\ promise \in [Fetches -> {Unborn, Pending, Rejected} \cup Fetches]
      /\ js = "settle" => request = Idle
  BY NetAssumption DEF IInv, TypeOK, RequestWhole
<1>1. CASE EnsureOnly \/ CreateThread \/ StartThread
  BY <1>1 DEF EnsureOnly, CreateThread, StartThread, InFlight
<1>2. CASE FetchBegins
  <2>1. /\ fetches + 1 \in Fetches /\ promise' = [promise EXCEPT ![fetches + 1] = Pending]
        /\ InFlight' = InFlight
    BY <1>0, <1>2 DEF FetchBegins, Fetches, InFlight
  <2>2. promise[fetches + 1] = Unborn
    BY <1>0, <2>1 DEF IInv, UnbornLater
  <2>3. Abstract!Fetch(fetches + 1)
    BY <2>1, <2>2 DEF Abstract!Fetch, Pending, Unborn, Abstract!Pending, Abstract!Unborn
  <2> QED
    BY <2>1, <2>3 DEF Fetches, Abstract!Fetches
<1>3. CASE FetchRefused
  <2>1. /\ fetches \in Fetches /\ promise[fetches] = Pending
        /\ promise' = promise \/ promise' = [promise EXCEPT ![fetches] = Rejected]
        /\ InFlight' = InFlight /\ InFlight # fetches
    BY <1>0, <1>3 DEF FetchRefused, RejectNow, IInv, RequestWhole, Fetches, InFlight
  <2>2. CASE promise' = promise
    BY <2>1, <2>2
  <2>3. CASE promise' = [promise EXCEPT ![fetches] = Rejected]
    <3>1. Abstract!Refuse(fetches)
      BY <2>1, <2>3 DEF Abstract!Refuse, Pending, Rejected, Abstract!Pending, Abstract!Rejected
    <3> QED
      BY <2>1, <3>1 DEF Fetches, Abstract!Fetches
  <2> QED
    BY <2>1, <2>2, <2>3
<1>4. CASE FetchAccepted
  <2>1. /\ fetches \in Fetches /\ promise[fetches] = Pending /\ promise' = promise
        /\ InFlight = 0 /\ InFlight' = fetches
    BY <1>0, <1>4 DEF FetchAccepted, IInv, RequestWhole, Fetches, InFlight, Idle
  <2>2. Abstract!Launch(fetches)
    BY <2>1 DEF Abstract!Launch, Pending, Abstract!Pending
  <2> QED
    BY <2>1, <2>2 DEF Fetches, Abstract!Fetches
<1>5. CASE ThreadFails
  <2> DEFINE f == request.resolve
  <2>1. /\ f \in 1 .. fetches /\ promise[f] = Pending
        /\ promise' = promise \/ promise' = [promise EXCEPT ![f] = Rejected]
        /\ InFlight = f /\ js' = "idle" /\ request.state = "RUNNING"
    BY <1>5 DEF ThreadFails, RejectNow, IInv, RequestWhole, Result, InFlight
  <2>2. InFlight' = 0
    BY <1>5, <2>1 DEF ThreadFails, InFlight, IInv, TypeOK
  <2> HIDE DEF f
  <2>3. \E v \in {f, Rejected, Pending} : promise' = [promise EXCEPT ![f] = v]
    <3>1. promise = [promise EXCEPT ![f] = Pending]
      BY <1>0, <2>1
    <3> QED
      BY <2>1, <3>1
  <2>4. Abstract!Land(f)
    BY <2>1, <2>2, <2>3 DEF Abstract!Land, Pending, Rejected, Abstract!Pending, Abstract!Rejected
  <2>5. f \in Abstract!Fetches
    BY <1>0, <2>1 DEF Abstract!Fetches
  <2> QED
    BY <2>4, <2>5
<1>6. CASE PumpTakes
  BY <1>6 DEF PumpTakes, InFlight
<1>7. CASE PumpSettles
  <2> DEFINE f == taken.resolve
  <2>1. /\ f \in 1 .. fetches /\ InFlight = f /\ InFlight' = 0
    BY <1>7 DEF PumpSettles, IInv, RequestWhole, Result, InFlight, Idle
  <2>2. \E v \in {f, Rejected, Pending} : promise' = [promise EXCEPT ![f] = v]
    BY <1>7 DEF PumpSettles, IInv, RequestWhole, Result
  <2> HIDE DEF f
  <2>3. Abstract!Land(f)
    BY <2>1, <2>2 DEF Abstract!Land, Pending, Rejected, Abstract!Pending, Abstract!Rejected
  <2>4. f \in Abstract!Fetches
    BY <1>0, <2>1 DEF Abstract!Fetches
  <2> QED
    BY <2>3, <2>4
<1>8. ASSUME NEW f \in Fetches, Worker(f) PROVE [Abstract!Next]_Abstract!vars
  <2>1. promise' = promise /\ js' = js /\ taken' = taken
    BY <1>8 DEF Worker, WorkerCopies, WorkerSends, WorkerReads, WorkerDoubles, WorkerReallocs,
       WorkerReadFails, WorkerReadsAll, WorkerPublishes
  <2>2. request'.resolve = request.resolve
    <3>1. request \in [state : {"IDLE", "RUNNING", "DONE", "ERROR"}, url : 0 .. fetches,
                       resolve : 0 .. fetches, body : 0 .. fetches]
      BY DEF IInv, TypeOK
    <3>2. CASE WorkerPublishes(f)
      BY <3>1, <3>2 DEF WorkerPublishes
    <3> QED
      BY <1>8, <3>2 DEF Worker, WorkerCopies, WorkerSends, WorkerReads, WorkerDoubles,
         WorkerReallocs, WorkerReadFails, WorkerReadsAll
  <2> QED
    BY <2>1, <2>2 DEF InFlight
<1> QED
  BY <1>1, <1>2, <1>3, <1>4, <1>5, <1>6, <1>7, <1>8 DEF Next, Fetching, Pump

\* net_async.c implements FetchSpec: one request is in flight at a time, a promise is
\* settled at most once, and fulfilled only with the response to its own request,
\* however the script's calls and the workers interleave.
THEOREM Implements == Spec => KeepsPromises
<1>1. Init => Abstract!Init
  BY DEF Init, Abstract!Init, InFlight, Idle, Fetches, Unborn, Abstract!Fetches, Abstract!Unborn
<1>2. IInv /\ [Next]_vars => [Abstract!Next]_Abstract!vars
  <2> SUFFICES ASSUME IInv, [Next]_vars PROVE [Abstract!Next]_Abstract!vars
    OBVIOUS
  <2>1. CASE UNCHANGED vars
    BY <2>1 DEF vars, InFlight, Abstract!vars
  <2> QED
    BY <2>1, StepRefines
<1> QED
  BY <1>1, <1>2, Invariance, PTL DEF Spec, KeepsPromises, Abstract!Spec

-----------------------------------------------------------------------------
(* No worker goes on for ever *)

\* What a worker does next, from the start of its thread to its exit ...
Phase(w) ==
  CASE w.pc = "copy" -> 4
    [] w.pc = "http" -> 3
    [] w.pc \in {"read", "grow"} -> 2
    [] w.pc = "finish" -> 1
    [] OTHER -> 0

\* ... how many bytes it may still receive ...
Left(w) ==
  IF w.pc \in {"read", "grow"} THEN MaxResponse - (w.length + w.bytes_read) ELSE 0

\* ... and how far a growing buffer is from the largest.
Room(w) ==
  IF w.pc # "grow" THEN 0
  ELSE IF w.new_capacity > MaxResponse THEN 1 ELSE MaxResponse + 2 - w.new_capacity

\* The lexicographic order of these numbers.
Nearer(v, w) ==
  \/ Phase(v) < Phase(w)
  \/ Phase(v) = Phase(w) /\ Left(v) < Left(w)
  \/ Phase(v) = Phase(w) /\ Left(v) = Left(w) /\ Room(v) < Room(w)

\* A capacity that is to be doubled is not 0, and only while the buffer grows there is a
\* piece that is not in it.
Growing(w) ==
  /\ w.pc \in {"none", "copy", "http", "read", "exited"} => w.bytes_read = 0
  /\ w.pc = "grow" => w.new_capacity > 0

\* The numbers of every worker are natural.
Measured ==
  \A f \in Fetches : Phase(worker[f]) \in Nat /\ Left(worker[f]) \in Nat /\ Room(worker[f]) \in Nat

\* Every step of net_fetch_worker() goes down in that order.
WorkersShorten == [][\A f \in Fetches : Worker(f) => Nearer(worker'[f], worker[f])]_vars

\* They are natural numbers, so that nothing descends for ever.
LEMMA WorkersMeasured == IInv /\ (\A f \in Fetches : Growing(worker[f])) => Measured
<1> SUFFICES ASSUME IInv, NEW f \in Fetches, Growing(worker[f])
             PROVE  Phase(worker[f]) \in Nat /\ Left(worker[f]) \in Nat /\ Room(worker[f]) \in Nat
  BY DEF Measured
<1>1. worker[f] \in WorkerType /\ BufferOK(worker[f]) /\ MaxResponse \in Nat /\ ReadChunk \in Nat
  BY NetAssumption DEF IInv, TypeOK, WorkerType, Busy
<1>2. Phase(worker[f]) \in Nat
  BY DEF Phase
<1>3. Left(worker[f]) \in Nat
  BY <1>1 DEF Left, WorkerType, BufferOK, Growing
<1>4. Room(worker[f]) \in Nat
  BY <1>1 DEF Room, WorkerType
<1> QED
  BY <1>2, <1>3, <1>4

\* Every step of net_fetch_worker() is a step down.
LEMMA WorkerStepsDown ==
  ASSUME IInv, NEW f \in Fetches, Growing(worker[f]), Worker(f)
  PROVE  Nearer(worker'[f], worker[f]) /\ Growing(worker'[f])
<1> DEFINE w == worker[f]
           v == worker'[f]
<1>0. /\ worker \in [Fetches -> WorkerType] /\ w \in WorkerType /\ BufferOK(w) /\ Growing(w)
      /\ MaxResponse \in Nat /\ ReadChunk \in Nat \ {0}
  BY NetAssumption DEF IInv, TypeOK, WorkerType, Busy
<1>t. w.length \in Nat /\ w.capacity \in Nat /\ w.bytes_read \in Nat /\ w.new_capacity \in Nat
  BY <1>0 DEF WorkerType
<1>1. CASE WorkerCopies(f) \/ WorkerSends(f) \/ WorkerReadFails(f) \/ WorkerReadsAll(f)
  <2>1. /\ v.pc \in {"http", "read", "finish"} /\ Phase(v) < Phase(w)
        /\ v.pc = "read" => w.pc = "http"
        /\ v.bytes_read = w.bytes_read
    <3>1. CASE WorkerCopies(f)
      BY <1>0, <3>1 DEF WorkerCopies, Phase, WorkerType
    <3>2. CASE WorkerSends(f)
      BY <1>0, <3>2 DEF WorkerSends, Phase, WorkerType
    <3>3. CASE WorkerReadFails(f)
      BY <1>0, <3>3 DEF WorkerReadFails, Phase, WorkerType
    <3>4. CASE WorkerReadsAll(f)
      BY <1>0, <3>4 DEF WorkerReadsAll, Phase, WorkerType
    <3> QED
      BY <1>1, <3>1, <3>2, <3>3, <3>4
  <2>2. v.pc = "http" => w.pc = "copy"
    BY <1>0, <1>1 DEF WorkerCopies, WorkerSends, WorkerReadFails, WorkerReadsAll, WorkerType
  <2> HIDE DEF v, w
  <2>3. Growing(v)
    BY <1>0, <2>1, <2>2 DEF Growing
  <2>4. Nearer(v, w)
    BY <2>1 DEF Nearer
  <2> QED
    BY <2>3, <2>4 DEF v, w
<1>2. CASE WorkerReads(f)
  <2>1. PICK n \in 1 .. ReadChunk :
          \/ worker' = [worker EXCEPT ![f].length = @ + n]
          \/ worker' = [worker EXCEPT ![f].pc = "grow", ![f].bytes_read = n,
                          ![f].new_capacity = IF worker[f].capacity = 0 THEN ReadChunk
                                              ELSE worker[f].capacity * 2]
    BY <1>2 DEF WorkerReads
  <2>2. w.pc = "read" /\ w.bytes_read = 0
    BY <1>0, <1>2 DEF WorkerReads, Growing
  <2>3. CASE worker' = [worker EXCEPT ![f].length = @ + n]
    <3>1. v.pc = "read" /\ v.bytes_read = 0 /\ v.length = w.length + n
      BY <1>0, <2>2, <2>3 DEF WorkerType
    <3> HIDE DEF v, w
    <3>2. Growing(v)
      BY <3>1 DEF Growing
    <3>3. Nearer(v, w)
      BY <1>0, <1>t, <2>2, <3>1 DEF Nearer, Phase, Left
    <3> QED
      BY <3>2, <3>3 DEF v, w
  <2>4. CASE worker' # [worker EXCEPT ![f].length = @ + n]
    <3> DEFINE c == IF w.capacity = 0 THEN ReadChunk ELSE w.capacity * 2
    <3>1. c > 0
      BY <1>0, <1>t
    <3>2. v.pc = "grow" /\ v.bytes_read = n /\ v.length = w.length /\ v.new_capacity = c
      BY <1>0, <2>1, <2>4 DEF WorkerType
    <3> HIDE DEF c, v, w
    <3>3. Growing(v)
      BY <3>1, <3>2 DEF Growing
    <3>4. Nearer(v, w)
      BY <1>0, <1>t, <2>2, <3>2 DEF Nearer, Phase, Left
    <3> QED
      BY <3>3, <3>4 DEF v, w
  <2> QED
    BY <2>3, <2>4
<1>3. CASE WorkerDoubles(f)
  <2>1. /\ w.pc = "grow" /\ v.pc = "grow" /\ v.new_capacity = w.new_capacity * 2
        /\ v.length = w.length /\ v.bytes_read = w.bytes_read
    BY <1>0, <1>3 DEF WorkerDoubles, WorkerType
  <2>2. w.new_capacity < w.length + w.bytes_read + 1 /\ w.length + w.bytes_read <= MaxResponse
    BY <1>0, <1>3, <1>t, <2>1 DEF WorkerDoubles, Enough, Required, BufferOK
  <2>3. w.new_capacity > 0
    BY <1>0, <2>1 DEF Growing
  <2> HIDE DEF v, w
  <2>4. Growing(v)
    BY <1>t, <2>1, <2>3 DEF Growing
  <2>5. Room(v) < Room(w)
    BY <1>0, <1>t, <2>1, <2>2, <2>3 DEF Room
  <2>6. Phase(v) = Phase(w) /\ Left(v) = Left(w)
    BY <2>1 DEF Phase, Left
  <2> QED
    BY <2>4, <2>5, <2>6 DEF Nearer, v, w
<1>4. CASE WorkerReallocs(f)
  <2>1. /\ w.pc = "grow" /\ v.pc = "read" /\ v.length = w.length + w.bytes_read
        /\ v.bytes_read = 0
    BY <1>0, <1>4 DEF WorkerReallocs, WorkerType
  <2> HIDE DEF v, w
  <2>2. Growing(v)
    BY <2>1 DEF Growing
  <2>3. Room(v) = 0 /\ Room(w) > 0
    BY <1>0, <1>t, <2>1 DEF Room
  <2>4. Phase(v) = Phase(w) /\ Left(v) = Left(w)
    BY <1>0, <1>t, <2>1 DEF Phase, Left
  <2> QED
    BY <2>2, <2>3, <2>4 DEF Nearer, v, w
<1>5. CASE WorkerPublishes(f)
  <2>1. w.pc = "finish" /\ v.pc = "exited" /\ v.bytes_read = 0
    BY <1>0, <1>5 DEF WorkerPublishes, NoWorker
  <2> HIDE DEF v, w
  <2>2. Growing(v) /\ Phase(v) < Phase(w)
    BY <2>1 DEF Growing, Phase
  <2> QED
    BY <2>2 DEF Nearer, v, w
<1> QED
  BY <1>1, <1>2, <1>3, <1>4, <1>5 DEF Worker

\* What is known of growing buffers holds in every reachable state.
LEMMA GrowingInvariance == Spec => [](IInv /\ \A f \in Fetches : Growing(worker[f]))
<1>1. Init => \A f \in Fetches : Growing(worker[f])
  BY DEF Init, Growing, NoWorker
<1>2. ASSUME IInv, \A f \in Fetches : Growing(worker[f]), [Next]_vars
      PROVE  (\A f \in Fetches : Growing(worker[f]))'
  <2> SUFFICES \A f \in Fetches : Growing(worker'[f])
    BY DEF Growing
  <2> TAKE f \in Fetches
  <2>0. worker \in [Fetches -> WorkerType] /\ Growing(worker[f])
    BY <1>2 DEF IInv, TypeOK, WorkerType, Busy
  <2>1. CASE UNCHANGED worker
    BY <2>0, <2>1
  <2>2. ASSUME NEW g \in Fetches, Worker(g) PROVE Growing(worker'[f])
    <3>1. CASE f = g
      BY <1>2, <2>2, <3>1, WorkerStepsDown
    <3>2. CASE f # g
      <4>1. worker'[f] = worker[f]
        BY <2>0, <2>2, <3>2
        DEF Worker, WorkerCopies, WorkerSends, WorkerReads, WorkerDoubles, WorkerReallocs,
            WorkerReadFails, WorkerReadsAll, WorkerPublishes
      <4> QED
        BY <2>0, <4>1
    <3> QED
      BY <3>1, <3>2
  <2>3. CASE StartThread
    <3>1. CASE f # fetches
      BY <2>0, <2>3, <3>1 DEF StartThread
    <3>2. CASE f = fetches
      <4>1. worker[f] = NoWorker
        BY <1>2, <2>3, <3>2 DEF StartThread, IInv, WorkersApart
      <4>2. worker'[f].pc = "copy" /\ worker'[f].bytes_read = 0
        BY <2>0, <2>3, <3>2, <4>1 DEF StartThread, NoWorker, WorkerType
      <4> QED
        BY <4>2 DEF Growing
    <3> QED
      BY <3>1, <3>2
  <2> QED
    BY <1>2, <2>1, <2>2, <2>3
    DEF Next, Fetching, Pump, EnsureOnly, FetchBegins, FetchRefused, FetchAccepted, CreateThread,
        ThreadFails, PumpTakes, PumpSettles, vars
<1> QED
  BY <1>1, <1>2, Invariance, PTL DEF Spec

\* Every step of a net_fetch_worker() thread brings it nearer to publishing its result and
\* exiting, whatever the server sends and whatever the other threads do, for every number
\* of fetches, size of the pieces and limit: __pump() never waits for a worker that goes on
\* for ever.
THEOREM WorkersEnd == Spec => []Measured /\ WorkersShorten
<1>1. ASSUME IInv, \A f \in Fetches : Growing(worker[f]), [Next]_vars
      PROVE  [\A f \in Fetches : Worker(f) => Nearer(worker'[f], worker[f])]_vars
  BY <1>1, WorkerStepsDown
<1> QED
  BY <1>1, GrowingInvariance, WorkersMeasured, PTL DEF Spec, WorkersShorten

=============================================================================
