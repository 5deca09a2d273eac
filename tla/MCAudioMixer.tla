---------------------------- MODULE MCAudioMixer ----------------------------
(* TLC instance of AudioMixer: clips of three lengths. *)
EXTENDS AudioMixer

CONSTANTS b0, b1, b2

\* A clip of no frames (load_clip's uint32_t conversion can produce one), one of a
\* single frame and one that takes more than a grain.
MCBufFrames == [b \in Buffers |-> IF b = b0 THEN 0 ELSE IF b = b1 THEN 1 ELSE 3]

=============================================================================
