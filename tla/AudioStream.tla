---------------------------- MODULE AudioStream ----------------------------
(***************************************************************************)
(* One open music stream of the Audio module (src/modules/audio.c): the    *)
(* play / pause / resume / stop / seek functions of the QuickJS thread and *)
(* the mixer's mix_stream(), which resamples through a small cache filled  *)
(* from a WAV file or an OGG decoder.  All of them run under the mutex of  *)
(* AudioMixer, so each is one step here.                                   *)
(*                                                                         *)
(* A frame's content is its number in the file, so that a sample shows     *)
(* which frame it came from.  The position, a double counted in frames, is *)
(* an integer counted in OutRate-ths of a frame: it advances by rate.  NaN *)
(* stands for the double of that name, which compares false with all.      *)
(***************************************************************************)
EXTENDS Integers, Sequences

CONSTANTS
  OutRate,     \* OUT_RATE: output frames per second
  Rates,       \* sampling rates a file may have
  StreamCache, \* STREAM_CACHE: frames in the cache
  MaxFrames,   \* bound on the length of a file
  MaxHole,     \* most frames a damaged OGG loses at an OV_HOLE
  MaxCalls     \* bound on the Audio.* calls of a behaviour

ASSUME StreamAssumption ==
  /\ OutRate \in Nat \ {0} /\ Rates \subseteq Nat \ {0}
  /\ StreamCache \in Nat \ {0} /\ MaxFrames \in Nat
  /\ MaxHole \in Nat /\ MaxCalls \in Nat

VARIABLES
  file,     \* [type, rate, frames, avail, damaged]: frames as announced, avail as
            \* present; damaged: reads and seeks may fail, an OGG may have holes
  playing, paused, loop,
  pos,      \* stream position, in OutRate-ths of a frame
  win,      \* [start, cache, decode, decoder]: the cache, ogg_decode_frame and the
            \* decoder's own position
  out,      \* the last pair of frames mixed and what was found there, or Silence
  calls     \* Audio.* calls made so far

vars == <<file, playing, paused, loop, pos, win, out, calls>>

Silence == [a |-> -1, b |-> -1, l0 |-> -1, l1 |-> -1]
NoDecode == -1
NaN == -1

SmallerOf(m, n) == IF m <= n THEN m ELSE n
End == file.frames * OutRate

\* openstream(): a WAV may be shorter than its header says and, when its data
\* chunk is smaller than a frame, may have no frames; ov_pcm_total is positive.
Openable ==
  {f \in [type : {"wav", "ogg"}, rate : Rates, frames : 0 .. MaxFrames,
           avail : 0 .. MaxFrames, damaged : BOOLEAN] :
     f.avail <= f.frames /\ (f.type = "ogg" => f.frames > 0)}

Init ==
  /\ file \in Openable
  /\ playing = FALSE /\ paused = FALSE /\ loop = FALSE
  /\ pos = 0
  /\ win = [start |-> 0, cache |-> <<>>, decode |-> NoDecode, decoder |-> 0]
  /\ out = Silence
  /\ calls = 0

-----------------------------------------------------------------------------
(* Filling the cache: the set of possible outcomes [ok, win]. *)

Outcome(ok, w) == [ok |-> ok, win |-> w]
Want(f) == SmallerOf(file.frames - f, StreamCache)

\* Mutation: cache_start is not updated.
stream_fill_wavStale(w, f) ==
  LET got == IF f >= file.avail THEN 0 ELSE SmallerOf(Want(f), file.avail - f)
  IN {Outcome(got > 0, [w EXCEPT !.cache = [i \in 1 .. got |-> f + i - 1]])}

\* fread stops where the file does; fseek or fread may fail.
stream_fill_wav(w, f) ==
  LET got == IF f >= file.avail THEN 0 ELSE SmallerOf(Want(f), file.avail - f)
      Read(n) == [w EXCEPT !.start = f, !.cache = [i \in 1 .. n |-> f + i - 1]]
  IN {Outcome(n > 0, Read(n)) : n \in IF file.damaged THEN 0 .. got ELSE {got}}
       \cup (IF file.damaged THEN {Outcome(FALSE, w)} ELSE {})

\* Mutation: ogg_decode_frame counts the frames wanted, not the frames decoded.
stream_fill_oggWanted(w, f) ==
  LET from == IF w.decode = f THEN w.decoder ELSE f
      n == IF from >= file.avail THEN 0 ELSE SmallerOf(Want(f), file.avail - from)
  IN {Outcome(n > 0, [start |-> f, cache |-> [i \in 1 .. n |-> from + i - 1],
                      decode |-> f + Want(f), decoder |-> from + n])}

\* Decode from frame f, seeking unless the decoder is believed to be there.  The
\* h-th read may meet a hole of d lost frames, which is skipped and not counted.
stream_fill_ogg(w, f) ==
  LET from == IF w.decode = f THEN w.decoder ELSE f
      Decoded(h, d, n) ==
        [start |-> f,
         cache |-> [i \in 1 .. n |-> from + i - 1 + (IF i > h THEN d ELSE 0)],
         decode |-> f + n,
         decoder |-> from + n + (IF h < n THEN d ELSE 0)]
      Present(d) ==
        LET left == file.avail - from - d
        IN IF left <= 0 THEN 0 ELSE SmallerOf(Want(f), left)
      Holes == {hd \in (0 .. StreamCache - 1) \X (0 .. MaxHole) :
                  hd[2] = 0 \/ (file.damaged /\ hd[1] < Present(hd[2]))}
  IN {Outcome(Present(hd[2]) > 0, Decoded(hd[1], hd[2], Present(hd[2]))) : hd \in Holes}
       \cup (IF file.damaged THEN {Outcome(FALSE, Decoded(0, 0, n)) : n \in 0 .. Present(0)} ELSE {})
       \cup (IF file.damaged /\ w.decode # f THEN {Outcome(FALSE, w)} ELSE {})

Cached(w, f) == Len(w.cache) > 0 /\ f >= w.start /\ f < w.start + Len(w.cache)

stream_fill(w, f) ==
  IF f < 0 \/ f >= file.frames THEN {Outcome(FALSE, w)}
  ELSE IF Cached(w, f) THEN {Outcome(TRUE, w)}
  ELSE IF file.type = "ogg" THEN stream_fill_ogg(w, f) ELSE stream_fill_wav(w, f)

\* stream_sample(): fill, then read the frame out of the cache.
stream_sample(w, f) ==
  {[ok |-> r.ok /\ Cached(r.win, f), win |-> r.win,
    value |-> IF r.ok /\ Cached(r.win, f) THEN r.win.cache[f - r.win.start + 1] ELSE -1] :
     r \in stream_fill(w, f)}

-----------------------------------------------------------------------------
(* The mixer *)

\* cache_frames = 0, and ogg_decode_frame = -1 for an OGG.
Discard(w) == [w EXCEPT !.cache = <<>>, !.decode = IF file.type = "ogg" THEN NoDecode ELSE @]

\* Mutation: the loop flag is not looked at.
MixEndAlways ==
  /\ playing /\ ~paused /\ pos >= End
  /\ playing' = FALSE /\ out' = Silence
  /\ UNCHANGED <<file, paused, loop, pos, win, calls>>

\* Mutation: the stream is not stopped.
MixEndKeepsPlaying ==
  /\ playing /\ ~paused /\ pos >= End /\ ~loop
  /\ out' = Silence
  /\ UNCHANGED <<file, playing, paused, loop, pos, win, calls>>

\* The end of the file without loop: the stream stops and adds nothing.
MixEnd ==
  /\ playing /\ ~paused
  /\ pos >= End /\ ~loop
  /\ playing' = FALSE /\ out' = Silence
  /\ UNCHANGED <<file, paused, loop, pos, win, calls>>

\* (ogg_int64_t)s->pos; the frame of NaN is undefined: 0, or one that is not there.
FrameAt(p) == IF p = NaN THEN {0, -1} ELSE {p \div OutRate}

\* Otherwise, back to the start if at the end, two neighbouring frames are read
\* and interpolated; an unreadable second frame is replaced by the first.
MixSample ==
  /\ playing /\ ~paused
  /\ pos < End \/ loop
  /\ LET p == IF pos >= End THEN 0 ELSE pos
         w == IF pos >= End THEN Discard(win) ELSE win
     IN \E a \in FrameAt(p) : \E ra \in stream_sample(w, a) :
          IF ~ra.ok
          THEN /\ playing' = FALSE /\ out' = Silence
               /\ win' = ra.win /\ pos' = p
          ELSE LET b == IF a + 1 < file.frames THEN a + 1 ELSE a
               IN \E rb \in stream_sample(ra.win, b) :
                    /\ out' = [a |-> a, b |-> b, l0 |-> ra.value,
                               l1 |-> IF rb.ok THEN rb.value ELSE ra.value]
                    /\ win' = rb.win /\ pos' = IF p = NaN THEN NaN ELSE p + file.rate
                    /\ UNCHANGED playing
  /\ UNCHANGED <<file, paused, loop, calls>>

mix_stream == MixEnd \/ MixSample

-----------------------------------------------------------------------------
(* Audio.* *)

Called == calls < MaxCalls /\ calls' = calls + 1

\* play_stream() does not move the position.
playstream(l) ==
  /\ Called
  /\ playing' = TRUE /\ paused' = FALSE /\ loop' = l
  /\ UNCHANGED <<file, pos, win, out>>

pausestream ==
  /\ Called
  /\ paused' = TRUE
  /\ UNCHANGED <<file, playing, loop, pos, win, out>>

resumestream ==
  /\ Called
  /\ paused' = FALSE
  /\ UNCHANGED <<file, playing, loop, pos, win, out>>

stopstream ==
  /\ Called
  /\ playing' = FALSE /\ paused' = FALSE /\ pos' = 0
  /\ win' = Discard(win)
  /\ UNCHANGED <<file, loop, out>>

\* Mutation: no limit.
streamseekUnlimited(position) ==
  /\ Called
  /\ pos' = position
  /\ win' = Discard(win)
  /\ UNCHANGED <<file, playing, paused, loop, out>>

\* seconds * rate, cut off at the length of the file; NaN passes both comparisons.
streamseek(position) ==
  /\ Called
  /\ pos' = SmallerOf(position, End)
  /\ win' = Discard(win)
  /\ UNCHANGED <<file, playing, paused, loop, out>>

Next ==
  \/ mix_stream
  \/ \E l \in BOOLEAN : playstream(l)
  \/ pausestream \/ resumestream \/ stopstream
  \/ \E position \in {NaN} \cup 0 .. MaxFrames * OutRate + 1 : streamseek(position)

Spec == Init /\ [][Next]_vars

\* The mixer thread mixes grain after grain.
FairSpec == Spec /\ WF_vars(mix_stream)

-----------------------------------------------------------------------------
(* Properties *)

\* The position, the cache and the decoder stay within the file: the position
\* passes the end by less than a step, and no cached frame lies beyond the end.
TypeOK ==
  /\ file \in Openable
  /\ playing \in BOOLEAN /\ paused \in BOOLEAN /\ loop \in BOOLEAN
  /\ pos \in Nat \cup {NaN} /\ (pos = 0 \/ pos < End + file.rate)
  /\ win.start \in Nat /\ Len(win.cache) <= StreamCache
  /\ win.start + Len(win.cache) <= file.frames
  /\ win.decode \in NoDecode .. file.frames /\ win.decoder \in Nat
  /\ calls \in 0 .. MaxCalls

\* What is mixed for frame a is frame a: whatever pauses, seeks, stops, loops and
\* refills came before, stream_sample never returns a stale or shifted frame of an
\* undamaged file.  The second frame may be replaced by the first only if it is
\* missing from the file.
HeardFrames ==
  out # Silence /\ ~file.damaged =>
    /\ out.l0 = out.a
    /\ out.l1 = IF out.b < file.avail THEN out.b ELSE out.a

\* In a damaged file the frames behind a hole come early, but whatever is lost, cut
\* off or unreadable, no frame is ever heard again behind its own time.  For that
\* ogg_decode_frame is never past the decoder's real position: a fill that skips
\* ov_pcm_seek because the two seem equal cannot deliver older frames.
HeardNeverBehind ==
  /\ out # Silence => out.l0 >= out.a /\ out.l1 >= out.a
  /\ file.type = "ogg" /\ win.decode # NoDecode => win.decode <= win.decoder

\* A looping stream of a complete, readable file stops only when it is told to, or
\* has been sent to NaN.
LoopGoesOn ==
  [][playing /\ loop /\ pos # NaN /\ file.avail = file.frames /\ file.frames > 0 /\ ~file.damaged
       => playing' \/ calls' # calls]_vars

\* A stream that is played without loop comes to its end, unless seek_stream() has
\* sent it to NaN, from where it may play its first frame for ever.
StreamEnds == playing /\ ~loop ~> ~playing \/ paused \/ loop \/ pos = NaN

=============================================================================
