---------------------------- MODULE MCEventLoop -----------------------------
(* EventLoop on a small instance *)
EXTENDS EventLoop

\* The delay that makes an interval a one-shot, one that has expired at once and for
\* ever, one that is over with the current second, and one that outlasts it.
MCDelays == {-1, -2, 1, 3}

=============================================================================
