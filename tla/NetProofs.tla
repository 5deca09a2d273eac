----------------------------- MODULE NetProofs ------------------------------
(***************************************************************************)
(* Proofs about Net, for every size of the pieces a response comes in and  *)
(* every limit on its size: what is held when, and that no call goes on    *)
(* for ever.                                                               *)
(***************************************************************************)
EXTENDS Net, FiniteSetTheorems, TLAPS

(* The inductive invariant *)

Points == {"idle", "ensure", "init", "create", "send", "read", "grow", "cleanup",
           "return", "term", "crashed"}

TypeOK ==
  /\ at \in Points /\ goal \in {"none", "request", "query"}
  /\ started \subseteq Stages /\ up \in [Stages -> Nat]
  /\ handles \subseteq Objects
  /\ body \in [length : Nat, capacity : Nat]
  /\ growing \in [bytes_read : Nat, new_capacity : Nat]
  /\ received \in Nat
  /\ outcome \in [type : {"threw", "response"}, length : Nat]

\* The flags say what the system has, at every point of every call.
FlagsTrue == \A s \in Stages : up[s] = IF s \in started THEN 1 ELSE 0

\* Stages are started and stopped in order; the pool is alone only between its
\* allocation and sceNetInit, and while term() stops the network.
StagesOrdered ==
  /\ "HTTP" \in started => "HTTP_MODULE" \in started
  /\ "HTTP_MODULE" \in started => "NETCTL" \in started
  /\ "NETCTL" \in started => "NET" \in started
  /\ "NET" \in started => "POOL" \in started
  /\ "POOL" \in started => "NET_MODULE" \in started
  /\ at = "init" => "POOL" \in started /\ "NET" \notin started
  /\ "POOL" \in started => at \in {"init", "term"} \/ "NET" \in started

\* A request has its objects only while it is made, in the order of their creation,
\* and the HTTP library is there.
ObjectsOrdered ==
  /\ "req" \in handles => "conn" \in handles
  /\ "conn" \in handles => "tpl" \in handles
  /\ at = "create" => "req" \notin handles
  /\ at \in {"create", "send", "read", "grow"} \/ handles # {} => "HTTP" \in started
  /\ handles # {} => at \in {"create", "send", "read", "grow", "cleanup"}

\* Which call is in progress, and what it may hold.
CallState ==
  /\ at \in {"create", "send", "read", "grow", "cleanup"} => goal = "request"
  /\ at \in {"idle", "term"} => goal = "none" /\ strings = {}
  /\ body # NoBody => at \in {"read", "grow", "cleanup"}

\* The buffer holds what was received, and has room for it and a NUL.
BufferFits ==
  /\ IF body.capacity = 0 THEN body.length = 0
     ELSE body.length < body.capacity /\ body.capacity <= MaxResponse + 1
  /\ at = "grow" => Required(growing.bytes_read) <= MaxResponse + 1 /\ growing.new_capacity > 0

\* Nothing of the response is lost on its way to the script.
Received ==
  /\ at \in {"ensure", "init", "create", "send"} /\ goal = "request" => received = 0
  /\ at = "read" => received = body.length
  /\ at = "grow" => received = body.length + growing.bytes_read
  /\ outcome.type = "response" /\ (goal # "request" \/ at \in {"cleanup", "return"}) =>
       outcome.length = received

IInv ==
  /\ TypeOK /\ FlagsTrue /\ StagesOrdered /\ ObjectsOrdered /\ CallState
  /\ BufferFits /\ Received

-----------------------------------------------------------------------------
(* The invariant holds *)

\* Every step of a call, of starting, stopping and failing included, preserves it.
LEMMA InvariantStep == ASSUME IInv, [Next]_vars PROVE IInv'
<1> USE NetAssumption
    DEF IInv, TypeOK, FlagsTrue, StagesOrdered, ObjectsOrdered, CallState, BufferFits, Received,
        Points, Stages, Objects, NoBody, NotGrowing, Threw, Required, network, transfer
<1>1. ASSUME NEW args \in Arguments, Request(args) PROVE IInv'
  BY <1>1 DEF Request
<1>2. CASE Query
  BY <1>2 DEF Query
<1>3. CASE Return \/ ReturnCrashes \/ Crashed
  <2>1. CASE Return
    BY <2>1 DEF Return
  <2>2. CASE ReturnCrashes
    BY <2>2 DEF ReturnCrashes
  <2>3. CASE Crashed
    BY <2>3 DEF Crashed, vars
  <2> QED
    BY <1>3, <2>1, <2>2, <2>3
<1>4. CASE EnsureStage
  <2> DEFINE s == NextStage
  <2>1. /\ s \in Stages \ started /\ at = "ensure" /\ at' = IF s = "POOL" THEN "init" ELSE "ensure"
        /\ started' = started \cup {s} /\ up' = [up EXCEPT ![s] = @ + 1]
        /\ UNCHANGED <<goal, handles, body, growing, received, strings, outcome>>
    BY <1>4 DEF EnsureStage, Starts, NextStage
  <2>2. TypeOK' /\ FlagsTrue'
    <3> HIDE DEF s
    <3> QED
      BY <2>1
  <2>3. StagesOrdered'
    BY <2>1 DEF NextStage
  <2>4. ObjectsOrdered' /\ CallState' /\ BufferFits' /\ Received'
    <3> HIDE DEF s
    <3> QED
      BY <2>1
  <2> QED
    BY <2>2, <2>3, <2>4
<1>5. CASE EnsureFails
  BY <1>5 DEF EnsureFails
<1>6. CASE NetInit
  BY <1>6 DEF NetInit, Starts
<1>7. CASE NetInitFails
  BY <1>7 DEF NetInitFails
<1>8. CASE EnsureDone
  BY <1>8 DEF EnsureDone
<1>9. CASE term \/ TermEnds
  <2>1. CASE term
    BY <2>1 DEF term
  <2>2. CASE TermEnds
    BY <2>2 DEF TermEnds
  <2> QED
    BY <1>9, <2>1, <2>2
<1>10. CASE TermStep
  <2> DEFINE s == StopNext
  <2>1. /\ s \in started /\ at = "term" /\ at' = "term"
        /\ started' = started \ {s} /\ up' = [up EXCEPT ![s] = @ - 1]
        /\ UNCHANGED <<goal, handles, body, growing, received, strings, outcome>>
    BY <1>10 DEF TermStep, StopNext
  <2>2. TypeOK' /\ FlagsTrue'
    <3> HIDE DEF s
    <3> QED
      BY <2>1
  <2>3. StagesOrdered'
    BY <2>1 DEF StopNext
  <2>4. ObjectsOrdered' /\ CallState' /\ BufferFits' /\ Received'
    <3> HIDE DEF s
    <3> QED
      BY <2>1
  <2> QED
    BY <2>2, <2>3, <2>4
<1>11. CASE Create
  <2>1. /\ at = "create" /\ \E object \in Objects :
             /\ handles' = handles \cup {object}
             /\ object = "req" => "conn" \in handles
             /\ object = "conn" => "tpl" \in handles
             /\ at' = IF object = "req" THEN "send" ELSE "create"
        /\ UNCHANGED <<goal, started, up, body, growing, received, strings, outcome>>
    BY <1>11 DEF Create
  <2> QED
    BY <2>1
<1>12. CASE Send
  BY <1>12 DEF Send
<1>13. CASE RequestFails
  BY <1>13 DEF RequestFails
<1>14. ASSUME NEW n \in 1 .. ReadChunk, Read(n) PROVE IInv'
  BY <1>14 DEF Read, AppendPiece, Required, Fits
<1>15. CASE Double
  BY <1>15 DEF Double, Required
<1>16. CASE Realloc
  BY <1>16 DEF Realloc, AppendPiece, Required, Fits
<1>17. CASE ReadEnd
  <2>1. /\ at = "read" /\ at' = "cleanup" /\ outcome' \in [type : {"threw", "response"}, length : Nat]
        /\ outcome'.type = "response" => outcome'.length = body.length
        /\ UNCHANGED <<goal, started, up, handles, body, growing, received, strings>>
    BY <1>17 DEF ReadEnd
  <2> QED
    BY <2>1
<1>18. CASE Cleanup
  <2>1. CASE body # NoBody
    <3>1. body' = [length |-> 0, capacity |-> 0] /\ UNCHANGED <<at, handles>>
      BY <1>18, <2>1 DEF Cleanup
    <3> QED
      BY <1>18, <3>1 DEF Cleanup
  <2>2. CASE body = NoBody
    <3>1. /\ at' \in {"cleanup", "return"} /\ body' = body
          /\ handles' \subseteq handles /\ (at' = "return" => handles' = {})
          /\ "req" \notin handles'
          /\ "conn" \in handles' => "tpl" \in handles'
      BY <1>18, <2>2 DEF Cleanup
    <3> QED
      BY <1>18, <2>2, <3>1 DEF Cleanup
  <2> QED
    BY <2>1, <2>2
<1>19. CASE UNCHANGED vars
  BY <1>19 DEF vars
<1> QED
  BY <1>1, <1>2, <1>3, <1>4, <1>5, <1>6, <1>7, <1>8, <1>9, <1>10, <1>11, <1>12, <1>13,
     <1>14, <1>15, <1>16, <1>17, <1>18, <1>19 DEF Next, Continue

\* The inductive invariant holds in every reachable state.
THEOREM Invariance == Spec => []IInv
<1>1. Init => IInv
  BY NetAssumption
  DEF Init, IInv, TypeOK, FlagsTrue, StagesOrdered, ObjectsOrdered, CallState, BufferFits,
      Received, Points, Stages, Objects, NoBody, NotGrowing, Threw
<1>2. IInv /\ [Next]_vars => IInv'
  BY InvariantStep
<1> QED
  BY <1>1, <1>2, PTL DEF Spec

-----------------------------------------------------------------------------
(* What follows from it *)

\* net_ensure_initialized(), net_shutdown() and the cleanup of net_request_native()
\* use no library before its module is loaded or after it is gone, and no HTTP object
\* without the one it belongs to, wherever starting fails and is tried again.
THEOREM StagesInOrder == Spec => []NetOrder
<1>1. IInv => NetOrder
  BY DEF IInv, TypeOK, FlagsTrue, StagesOrdered, ObjectsOrdered, NetOrder, Stages
<1> QED
  BY <1>1, Invariance, PTL

\* Whatever fails in a call, it leaves no string, buffer or HTTP object behind, and the
\* flags that net_shutdown() goes by say what the system has, nothing twice.
THEOREM NothingLeftHeld == Spec => []NothingHeld
<1>1. IInv => NothingHeld
  BY DEF IInv, TypeOK, FlagsTrue, ObjectsOrdered, CallState, NothingHeld
<1> QED
  BY <1>1, Invariance, PTL

\* The growing buffer of net_request_native() has room for the NUL and is never larger
\* than the limit, and a response is all that was received, for every size of the
\* pieces and every limit.
THEOREM ResponsesWhole == Spec => []ResponseWhole
<1>1. IInv => ResponseWhole
  BY DEF IInv, BufferFits, Received, ResponseWhole
<1> QED
  BY <1>1, Invariance, PTL

-----------------------------------------------------------------------------
(* No call goes on for ever *)

\* How many kinds of steps are ahead of a call ...
Phase ==
  CASE at \in {"ensure", "init"} -> 6
    [] at = "create" -> 5
    [] at = "send" -> 4
    [] at \in {"read", "grow"} -> 3
    [] at = "cleanup" -> 2
    [] at \in {"return", "term"} -> 1
    [] OTHER -> 0

\* ... how often one of them may be repeated: stages not started or stopped, objects
\* not created or deleted, bytes not received ...
Left ==
  CASE at \in {"ensure", "init"} -> Cardinality(Stages \ started)
    [] at = "create" -> Cardinality(Objects \ handles)
    [] at \in {"read", "grow"} -> MaxResponse - received
    [] at = "cleanup" -> Cardinality(handles) + (IF body = NoBody THEN 0 ELSE 1)
    [] at = "term" -> Cardinality(started)
    [] OTHER -> 0

\* ... and how far a growing buffer is from the largest.
Room ==
  IF at # "grow" THEN 0
  ELSE IF growing.new_capacity > MaxResponse THEN 1 ELSE MaxResponse + 2 - growing.new_capacity

Variant == <<Phase, Left, Room>>

\* The lexicographic order of such triples, in which nothing descends for ever.
Shorter == LexProductOrdering(OpToRel(<, Nat), Nat, 3)

\* Every step of a call brings it nearer to its end.
Shortens == [][Continue => <<Variant', Variant>> \in Shorter]_vars

\* There are finitely many stages and objects, and one more or less counts.
LEMMA Counted ==
  /\ IsFiniteSet(Stages) /\ IsFiniteSet(Objects)
  /\ \A S \in SUBSET Stages : IsFiniteSet(S) /\ Cardinality(S) \in Nat
  /\ \A S \in SUBSET Objects : IsFiniteSet(S) /\ Cardinality(S) \in Nat
<1>1. IsFiniteSet(Objects)
  <2>1. Objects = (({} \cup {"tpl"}) \cup {"conn"}) \cup {"req"}
    BY DEF Objects
  <2> QED
    BY <2>1, FS_EmptySet, FS_AddElement
<1>2. IsFiniteSet(Stages)
  <2>1. Stages = ((((({} \cup {"NET_MODULE"}) \cup {"POOL"}) \cup {"NET"}) \cup {"NETCTL"})
                    \cup {"HTTP_MODULE"}) \cup {"HTTP"}
    BY DEF Stages
  <2> QED
    BY <2>1, FS_EmptySet, FS_AddElement
<1> QED
  BY <1>1, <1>2, FS_Subset, FS_CardinalityType

\* The three numbers of a call.
LEMMA VariantType == IInv => Phase \in Nat /\ Left \in Nat /\ Room \in Nat
<1> SUFFICES ASSUME IInv PROVE Phase \in Nat /\ Left \in Nat /\ Room \in Nat
  OBVIOUS
<1>1. Phase \in Nat
  BY DEF Phase
<1>2. /\ Cardinality(Stages \ started) \in Nat /\ Cardinality(started) \in Nat
      /\ Cardinality(Objects \ handles) \in Nat /\ Cardinality(handles) \in Nat
  BY Counted DEF IInv, TypeOK
<1>3. at \in {"read", "grow"} => MaxResponse - received \in Nat
  <2>1. /\ body.length \in Nat /\ body.capacity \in Nat /\ growing.bytes_read \in Nat /\ received \in Nat
        /\ MaxResponse \in Nat
    BY NetAssumption DEF IInv, TypeOK
  <2>2. CASE at = "grow"
    BY <2>1, <2>2 DEF IInv, BufferFits, Received, Required
  <2>3. CASE at = "read"
    <3>1. received = body.length
      BY <2>3 DEF IInv, Received
    <3>2. body.length <= MaxResponse
      BY <2>1 DEF IInv, BufferFits
    <3> QED
      BY <2>1, <3>1, <3>2
  <2> QED
    BY <2>2, <2>3
<1>4. Left \in Nat
  BY <1>2, <1>3 DEF Left
<1>5. Room \in Nat
  BY NetAssumption DEF Room, IInv, TypeOK
<1> QED
  BY <1>1, <1>4, <1>5

\* The order in words.
Nearer ==
  \/ Phase' < Phase
  \/ Phase' = Phase /\ Left' < Left
  \/ Phase' = Phase /\ Left' = Left /\ Room' < Room

\* One less to do.
LEMMA OneLess ==
  ASSUME NEW All, IsFiniteSet(All), NEW S \in SUBSET All, NEW x \in All
  PROVE  /\ x \in S => Cardinality(S \ {x}) < Cardinality(S)
         /\ x \notin S => Cardinality(All \ (S \cup {x})) < Cardinality(All \ S)
<1>1. \A T \in SUBSET All : x \in T => Cardinality(T \ {x}) < Cardinality(T)
  <2> TAKE T \in SUBSET All
  <2> HAVE x \in T
  <2>1. IsFiniteSet(T) /\ IsFiniteSet(T \ {x})
    BY FS_Subset
  <2>2. Cardinality(T \ {x}) = Cardinality(T) - 1
    BY <2>1, FS_RemoveElement
  <2> QED
    BY <2>1, <2>2, FS_CardinalityType
<1>2. All \ (S \cup {x}) = (All \ S) \ {x}
  OBVIOUS
<1> QED
  BY <1>1, <1>2

\* Every step of a call is a step down.
LEMMA StepsDown == ASSUME IInv, IInv', Continue PROVE Nearer
<1> USE DEF Nearer, Phase
<1>1. CASE Return \/ ReturnCrashes \/ TermEnds
  BY <1>1 DEF Return, ReturnCrashes, TermEnds
<1>2. CASE EnsureFails \/ NetInitFails \/ EnsureDone
  BY <1>2 DEF EnsureFails, NetInitFails, EnsureDone
<1>3. CASE Send \/ RequestFails \/ ReadEnd
  BY <1>3 DEF Send, RequestFails, ReadEnd
<1>4. CASE EnsureStage \/ NetInit
  <2>1. PICK s \in Stages \ started : started' = started \cup {s}
    BY <1>4 DEF EnsureStage, NetInit, Starts, NextStage, IInv, StagesOrdered, Stages
  <2>2. at \in {"ensure", "init"} /\ at' \in {"ensure", "init"}
    BY <1>4 DEF EnsureStage, NetInit
  <2>3. Cardinality(Stages \ started') < Cardinality(Stages \ started)
    BY <2>1, OneLess, Counted DEF IInv, TypeOK
  <2> QED
    BY <2>2, <2>3 DEF Left
<1>5. CASE TermStep
  <2>1. PICK s \in started : started' = started \ {s}
    BY <1>5 DEF TermStep, StopNext, IInv, TypeOK, Stages
  <2>2. Cardinality(started') < Cardinality(started)
    BY <2>1, OneLess, Counted DEF IInv, TypeOK
  <2> QED
    BY <1>5, <2>2 DEF TermStep, Left
<1>6. CASE Create
  <2>1. CASE at' = "send"
    BY <1>6, <2>1 DEF Create
  <2>2. CASE at' # "send"
    <3>1. at = "create" /\ at' = "create" /\ \E x \in Objects \ handles : handles' = handles \cup {x}
      BY <1>6, <2>2 DEF Create, Objects
    <3>2. PICK x \in Objects \ handles : handles' = handles \cup {x}
      BY <3>1
    <3>3. Cardinality(Objects \ handles') < Cardinality(Objects \ handles)
      BY <3>2, OneLess, Counted DEF IInv, TypeOK
    <3> QED
      BY <3>1, <3>3 DEF Left
  <2> QED
    BY <2>1, <2>2
<1>7. ASSUME NEW n \in 1 .. ReadChunk, Read(n) PROVE Nearer
  <2>1. at = "read" /\ at' \in {"read", "grow", "cleanup"} /\ received' = received + n
    BY <1>7 DEF Read, AppendPiece
  <2>2. MaxResponse - (received + n) < MaxResponse - received
    BY NetAssumption DEF IInv, TypeOK
  <2>3. CASE at' = "cleanup"
    BY <2>1, <2>3
  <2>4. CASE at' # "cleanup"
    BY <2>1, <2>2, <2>4 DEF Left
  <2> QED
    BY <2>3, <2>4
<1>8. CASE Double
  <2>1. /\ at = "grow" /\ at' = "grow" /\ received' = received
        /\ growing'.new_capacity = growing.new_capacity * 2
        /\ growing.new_capacity \in Nat \ {0} /\ growing.new_capacity < Required(growing.bytes_read)
        /\ Required(growing.bytes_read) <= MaxResponse + 1
        /\ Required(growing.bytes_read) \in Nat
    BY <1>8 DEF Double, Fits, Required, IInv, TypeOK, BufferFits
  <2>2. Room' < Room
    BY <2>1, NetAssumption DEF Room
  <2> QED
    BY <2>1, <2>2 DEF Left
<1>9. CASE Realloc
  <2>1. at = "grow" /\ at' \in {"read", "cleanup"} /\ received' = received
    BY <1>9 DEF Realloc, AppendPiece
  <2>2. Room > 0
    BY <2>1, NetAssumption DEF Room, IInv, TypeOK
  <2>3. Room' = 0
    BY <2>1 DEF Room
  <2> QED
    BY <2>1, <2>2, <2>3 DEF Left
<1>10. CASE Cleanup
  <2>1. at = "cleanup" /\ at' \in {"cleanup", "return"}
    BY <1>10 DEF Cleanup
  <2>2. CASE at' = "return"
    BY <2>1, <2>2
  <2>3. CASE at' = "cleanup" /\ body # NoBody
    <3>1. body' = NoBody /\ handles' = handles
      BY <1>10, <2>3 DEF Cleanup
    <3>2. Cardinality(handles) \in Nat
      BY Counted DEF IInv, TypeOK
    <3> QED
      BY <2>1, <2>3, <3>1, <3>2 DEF Left
  <2>4. CASE at' = "cleanup" /\ body = NoBody
    <3>1. body' = body /\ \E x \in handles : handles' = handles \ {x}
      BY <1>10, <2>1, <2>4 DEF Cleanup, IInv, TypeOK, Objects
    <3>2. PICK x \in handles : handles' = handles \ {x}
      BY <3>1
    <3>3. Cardinality(handles') < Cardinality(handles)
      BY <3>2, OneLess, Counted DEF IInv, TypeOK
    <3>4. Cardinality(handles) \in Nat /\ Cardinality(handles') \in Nat
      BY Counted DEF IInv, TypeOK
    <3> QED
      BY <2>1, <2>4, <3>1, <3>3, <3>4 DEF Left
  <2> QED
    BY <2>1, <2>2, <2>3, <2>4
<1> QED
  BY <1>1, <1>2, <1>3, <1>4, <1>5, <1>6, <1>7, <1>8, <1>9, <1>10 DEF Continue

\* Going down in words is going down in the order.
LEMMA NearerIsShorter ==
  ASSUME IInv, IInv', Nearer PROVE <<Variant', Variant>> \in Shorter
<1> DEFINE v == Variant
           w == Variant'
<1>1. /\ Phase \in Nat /\ Left \in Nat /\ Room \in Nat
      /\ Phase' \in Nat /\ Left' \in Nat /\ Room' \in Nat
  <2>1. (IInv => Phase \in Nat /\ Left \in Nat /\ Room \in Nat)'
    BY VariantType, PTL
  <2> QED
    BY <2>1, VariantType
<1>2. /\ v \in [1 .. 3 -> Nat] /\ v[1] = Phase /\ v[2] = Left /\ v[3] = Room
      /\ w \in [1 .. 3 -> Nat] /\ w[1] = Phase' /\ w[2] = Left' /\ w[3] = Room'
  BY <1>1 DEF Variant
<1> HIDE DEF v, w
<1> DEFINE Below(j) ==
             (\A i \in 1 .. (j - 1) : w[i] = v[i]) /\ <<w[j], v[j]>> \in OpToRel(<, Nat)
<1>3. \E j \in 1 .. 3 : Below(j)
  <2>1. \A m, n \in Nat : m < n => <<m, n>> \in OpToRel(<, Nat)
    BY DEF OpToRel
  <2>2. ASSUME NEW j \in 1 .. 3, \A i \in 1 .. (j - 1) : w[i] = v[i], w[j] < v[j]
        PROVE  Below(j)
    <3>1. w[j] \in Nat /\ v[j] \in Nat
      BY <1>2
    <3>2. <<w[j], v[j]>> \in OpToRel(<, Nat)
      BY <2>1, <2>2, <3>1
    <3> QED
      BY <2>2, <3>2
  <2>3. CASE Phase' < Phase
    <3>1. 1 \in 1 .. 3 /\ w[1] < v[1] /\ \A i \in 1 .. (1 - 1) : w[i] = v[i]
      BY <1>2, <2>3
    <3>2. Below(1)
      BY <2>2, <3>1
    <3> HIDE DEF Below
    <3> QED
      BY <3>1, <3>2
  <2>4. CASE Phase' = Phase /\ Left' < Left
    <3>1. 2 \in 1 .. 3 /\ w[2] < v[2] /\ \A i \in 1 .. (2 - 1) : w[i] = v[i]
      BY <1>2, <2>4
    <3>2. Below(2)
      BY <2>2, <3>1
    <3> HIDE DEF Below
    <3> QED
      BY <3>1, <3>2
  <2>5. CASE Phase' = Phase /\ Left' = Left /\ Room' < Room
    <3>1. 3 \in 1 .. 3 /\ w[3] < v[3] /\ \A i \in 1 .. (3 - 1) : w[i] = v[i]
      BY <1>2, <2>5
    <3>2. Below(3)
      BY <2>2, <3>1
    <3> HIDE DEF Below
    <3> QED
      BY <3>1, <3>2
  <2> QED
    BY <2>3, <2>4, <2>5 DEF Nearer
<1>4. <<w, v>> \in Shorter
  BY <1>2, <1>3 DEF Shorter, LexProductOrdering
<1> QED
  BY <1>4 DEF v, w

\* Nothing descends for ever in the order that the steps of a call go down in.
THEOREM NothingDescendsForEver == IsWellFoundedOn(Shorter, [1 .. 3 -> Nat])
BY NatLessThanWellFounded, WFLexProductOrdering DEF Shorter

\* Every step of a call of net.c, of net_ensure_initialized(), net_request_native() and
\* net_shutdown(), brings it nearer to its end, whatever the server sends and whatever
\* fails: no call takes infinitely many steps, for every size of the pieces and every
\* limit.
THEOREM CallsShorten == Spec => Shortens
<1>1. ASSUME IInv, IInv', [Next]_vars PROVE [Continue => <<Variant', Variant>> \in Shorter]_vars
  BY <1>1, StepsDown, NearerIsShorter
<1> QED
  BY <1>1, Invariance, PTL DEF Spec, Shortens

=============================================================================
