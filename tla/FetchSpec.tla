----------------------------- MODULE FetchSpec -----------------------------
(***************************************************************************)
(* What Net.fetch(url) -> Promise promises (src/modules/net_async.c): at   *)
(* most one request is in flight, a fetch made meanwhile is refused, and a *)
(* promise is settled at most once, and fulfilled only with the response   *)
(* to its own request.                                                     *)
(***************************************************************************)
EXTENDS Integers

CONSTANT MaxFetches  \* bound on the fetches of a behaviour

Fetches  == 1 .. MaxFetches
Unborn   == -2
Pending  == -1
Rejected == 0

VARIABLES
  promise,  \* fetch -> Unborn, Pending, Rejected or the fetch whose response it got
  flight    \* the fetch whose request is in flight, or 0

vars == <<promise, flight>>

Init == promise = [f \in Fetches |-> Unborn] /\ flight = 0

Fetch(f) ==
  /\ promise[f] = Unborn
  /\ promise' = [promise EXCEPT ![f] = Pending]
  /\ UNCHANGED flight

\* The fetch takes the one place there is.
Launch(f) ==
  /\ promise[f] = Pending /\ flight = 0
  /\ flight' = f
  /\ UNCHANGED promise

\* Busy, or something failed before the request was launched.
Refuse(f) ==
  /\ promise[f] = Pending /\ flight # f
  /\ promise' = [promise EXCEPT ![f] = Rejected]
  /\ UNCHANGED flight

\* The request ends; without the memory to settle its promise, that stays pending.
Land(f) ==
  /\ flight = f /\ flight' = 0
  /\ \E v \in {f, Rejected, Pending} : promise' = [promise EXCEPT ![f] = v]

Next == \E f \in Fetches : Fetch(f) \/ Launch(f) \/ Refuse(f) \/ Land(f)

Spec == Init /\ [][Next]_vars

=============================================================================
