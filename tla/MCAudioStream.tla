---------------------------- MODULE MCAudioStream ----------------------------
(* TLC instance of WavOpen: files slower and faster than the output. *)
EXTENDS WavOpen

MCRates == {1, 3}

=============================================================================
