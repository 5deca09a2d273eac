------------------------- MODULE AudioStreamProofs --------------------------
(***************************************************************************)
(* Proofs about AudioStream, as WavOpen opens it: for any rates, sizes of  *)
(* the cache, lengths of the file and holes in it, what is mixed for a     *)
(* frame is that frame, or a later one if the file is damaged, and a loop  *)
(* goes on.  Opening a file takes no more rounds than the file has bytes,  *)
(* unless an offset wraps around.                                          *)
(***************************************************************************)
EXTENDS WavOpen, FiniteSetTheorems, TLAPS

(* The inductive invariant *)

Windows == [start : Nat, cache : Seq(Int), decode : Int, decoder : Nat]

\* The cache lies within the file.
Within(w) ==
  /\ w \in Windows /\ Len(w.cache) <= StreamCache
  /\ w.start + Len(w.cache) <= file.frames
  /\ w.decode \in NoDecode .. file.frames

\* No cached frame is older than its place says, and the decoder is never behind
\* ogg_decode_frame.
NotBehind(w) ==
  /\ \A i \in 1 .. Len(w.cache) : w.cache[i] >= w.start + i - 1
  /\ file.type = "ogg" /\ w.decode # NoDecode => w.decode <= w.decoder

\* In a file without damage the cache holds the very frames, all of them there.
Exact(w) ==
  ~file.damaged =>
    /\ \A i \in 1 .. Len(w.cache) : w.cache[i] = w.start + i - 1 /\ w.cache[i] < file.avail
    /\ file.type = "ogg" /\ w.decode # NoDecode => w.decode = w.decoder

WinOK(w) == Within(w) /\ NotBehind(w) /\ Exact(w)

PosOK == pos \in Nat \cup {NaN} /\ (pos = 0 \/ pos < End + file.rate)

Heard == out # Silence => out.l0 >= out.a /\ out.l1 >= out.a

\* Every state of an open stream.
Stream ==
  /\ file \in Openable /\ PosOK /\ WinOK(win) /\ Heard /\ HeardFrames
  /\ playing \in BOOLEAN /\ paused \in BOOLEAN /\ loop \in BOOLEAN
  /\ calls \in 0 .. MaxCalls

\* While a file is being opened the stream is new.
Fresh ==
  /\ pos = 0 /\ out = Silence
  /\ win = [start |-> 0, cache |-> <<>>, decode |-> NoDecode, decoder |-> 0]
New == walk.at # "open" => Fresh

IInv == Stream /\ New

-----------------------------------------------------------------------------
(* The file and the cache *)

\* A file that can be opened.
LEMMA FileType ==
  ASSUME file \in Openable
  PROVE  /\ file.type \in {"wav", "ogg"} /\ file.rate \in Nat /\ file.rate > 0
         /\ file.frames \in Nat /\ file.avail \in Nat /\ file.avail <= file.frames
         /\ End \in Nat /\ (file.frames > 0 => End > 0)
<1>1. /\ file.type \in {"wav", "ogg"} /\ file.rate \in Rates /\ file.frames \in 0 .. MaxFrames
      /\ file.avail \in 0 .. MaxFrames /\ file.avail <= file.frames
  BY DEF Openable
<1>2. file.frames \in Nat /\ OutRate \in Nat /\ OutRate > 0
  BY <1>1, StreamAssumption
<1>3. file.frames * OutRate \in Nat /\ (file.frames > 0 => file.frames * OutRate > 0)
  BY <1>2
<1>4. file.rate \in Nat \ {0}
  BY <1>1, StreamAssumption, Zenon
<1>5. file.avail \in Nat
  BY <1>1, StreamAssumption
<1> QED
  BY <1>1, <1>2, <1>3, <1>4, <1>5 DEF End

\* A cache of n frames.
LEMMA CacheIsSeq ==
  ASSUME NEW n \in Nat, NEW c \in [1 .. n -> Int]
  PROVE  c \in Seq(Int) /\ Len(c) = n
OBVIOUS

\* A window filled from frame f with n frames, at least from their own places.
LEMMA Filled ==
  ASSUME file \in Openable, NEW f \in Nat, f < file.frames, NEW n \in Nat, n <= Want(f),
         NEW c \in [1 .. n -> Int], \A i \in 1 .. n : c[i] >= f + i - 1,
         NEW d \in NoDecode .. file.frames, NEW e \in Nat,
         file.type = "ogg" /\ d # NoDecode => d <= e,
         ~file.damaged => /\ \A i \in 1 .. n : c[i] = f + i - 1 /\ c[i] < file.avail
                          /\ (file.type = "ogg" /\ d # NoDecode => d = e)
  PROVE  LET w == [start |-> f, cache |-> c, decode |-> d, decoder |-> e]
         IN WinOK(w) /\ (n > 0 => Cached(w, f))
<1> DEFINE w == [start |-> f, cache |-> c, decode |-> d, decoder |-> e]
<1>1. n <= file.frames - f /\ n <= StreamCache /\ file.frames \in Nat
  BY FileType, StreamAssumption DEF Want, SmallerOf
<1>2. c \in Seq(Int) /\ Len(c) = n
  BY CacheIsSeq
<1>3. Within(w)
  BY <1>1, <1>2 DEF Within, Windows, NoDecode
<1>4. NotBehind(w)
  BY <1>2 DEF NotBehind
<1>5. Exact(w)
  BY <1>2 DEF Exact
<1> QED
  BY <1>2, <1>3, <1>4, <1>5 DEF WinOK, Cached

\* Filling the cache from a WAV.
LEMMA FillWav ==
  ASSUME file \in Openable, file.type = "wav", NEW w, WinOK(w),
         NEW f \in Nat, f < file.frames, NEW r \in stream_fill_wav(w, f)
  PROVE  /\ WinOK(r.win) /\ (r.ok => Cached(r.win, f))
         /\ ~file.damaged /\ f < file.avail => r.ok
<1> DEFINE got == IF f >= file.avail THEN 0 ELSE SmallerOf(Want(f), file.avail - f)
           Read(n) == [w EXCEPT !.start = f, !.cache = [i \in 1 .. n |-> f + i - 1]]
<1>0. w \in Windows /\ w.decode \in NoDecode .. file.frames
  BY DEF WinOK, Within
<1>1. got \in Nat /\ got <= Want(f) /\ (f < file.avail => got > 0 /\ got <= file.avail - f)
  BY FileType, StreamAssumption DEF Want, SmallerOf
<1>n. got > 0 => f < file.avail
  BY FileType
<1>2. ASSUME NEW n \in 0 .. got
      PROVE  WinOK(Read(n)) /\ (n > 0 => Cached(Read(n), f))
  <2> DEFINE c == [i \in 1 .. n |-> f + i - 1]
  <2>a. Want(f) \in Nat
    BY FileType, StreamAssumption DEF Want, SmallerOf
  <2>b. n \in Nat /\ n <= Want(f) /\ (n > 0 => n <= file.avail - f)
    <3> HIDE DEF got
    <3> QED
      BY <1>1, <1>2, <1>n, <2>a, FileType
  <2>1. c \in [1 .. n -> Int] /\ \A i \in 1 .. n : c[i] = f + i - 1
    BY <2>b
  <2>2. \A i \in 1 .. n : c[i] >= f + i - 1 /\ c[i] < file.avail
    BY <2>b, <2>1, FileType
  <2>3. Read(n) = [start |-> f, cache |-> c, decode |-> w.decode, decoder |-> w.decoder]
    <3>1. Read(n) = [w EXCEPT !.start = f, !.cache = c]
      OBVIOUS
    <3> HIDE DEF c, Read
    <3> QED
      BY <1>0, <3>1 DEF Windows
  <2>4. w.decoder \in Nat
    BY <1>0 DEF Windows
  <2> HIDE DEF c, Read
  <2>5. WinOK([start |-> f, cache |-> c, decode |-> w.decode, decoder |-> w.decoder])
        /\ (n > 0 => Cached([start |-> f, cache |-> c, decode |-> w.decode, decoder |-> w.decoder], f))
    BY <1>0, <2>b, <2>1, <2>2, <2>4, Filled
  <2> QED
    BY <2>3, <2>5
<1>3. \/ \E n \in 0 .. got : r = Outcome(n > 0, Read(n)) /\ (file.damaged \/ n = got)
      \/ file.damaged /\ r = Outcome(FALSE, w)
  <2>1. r \in {Outcome(n > 0, Read(n)) : n \in IF file.damaged THEN 0 .. got ELSE {got}}
              \cup (IF file.damaged THEN {Outcome(FALSE, w)} ELSE {})
    BY DEF stream_fill_wav
  <2>2. got \in 0 .. got
    BY <1>1
  <2> HIDE DEF got, Read, Outcome
  <2> QED
    BY <2>1, <2>2, Zenon
<1> HIDE DEF got, Read
<1>4. CASE \E n \in 0 .. got : r = Outcome(n > 0, Read(n)) /\ (file.damaged \/ n = got)
  <2>1. PICK n \in 0 .. got : r = Outcome(n > 0, Read(n)) /\ (file.damaged \/ n = got)
    BY <1>4
  <2>2. r.win = Read(n) /\ (r.ok <=> n > 0)
    BY <2>1 DEF Outcome
  <2> QED
    BY <1>1, <1>2, <2>1, <2>2
<1>5. CASE file.damaged /\ r = Outcome(FALSE, w)
  <2>1. r.win = w /\ ~r.ok
    BY <1>5 DEF Outcome
  <2> QED
    BY <1>5, <2>1
<1> QED
  BY <1>3, <1>4, <1>5

\* Filling it from an OGG.
LEMMA FillOgg ==
  ASSUME file \in Openable, file.type = "ogg", NEW w, WinOK(w),
         NEW f \in Nat, f < file.frames, NEW r \in stream_fill_ogg(w, f)
  PROVE  /\ WinOK(r.win) /\ (r.ok => Cached(r.win, f))
         /\ ~file.damaged /\ f < file.avail => r.ok
<1> DEFINE from == IF w.decode = f THEN w.decoder ELSE f
           Decoded(h, d, n) ==
             [start |-> f,
              cache |-> [i \in 1 .. n |-> from + i - 1 + (IF i > h THEN d ELSE 0)],
              decode |-> f + n,
              decoder |-> from + n + (IF h < n THEN d ELSE 0)]
           Present(d) ==
             LET left == file.avail - from - d
             IN IF left <= 0 THEN 0 ELSE SmallerOf(Want(f), left)
           Holes == {hd \in (0 .. StreamCache - 1) \X (0 .. MaxHole) :
                       hd[2] = 0 \/ (file.damaged /\ hd[1] < Present(hd[2]))}
<1>0. w \in Windows /\ f # NoDecode
  BY DEF WinOK, Within, NoDecode
<1>1. from \in Nat /\ f <= from /\ (~file.damaged => from = f)
  BY <1>0 DEF Windows, WinOK, NotBehind, Exact
<1> HIDE DEF from
<1>2. ASSUME NEW d \in Nat
      PROVE  /\ Present(d) \in Nat /\ Present(d) <= Want(f)
             /\ Present(d) > 0 => Present(d) <= file.avail - from - d
             /\ file.avail > from + d => Present(d) > 0
  BY <1>1, FileType, StreamAssumption DEF Want, SmallerOf
<1>3. ASSUME NEW h \in Nat, NEW d \in Nat, NEW n \in 0 .. Present(d), file.damaged \/ d = 0
      PROVE  WinOK(Decoded(h, d, n)) /\ (n > 0 => Cached(Decoded(h, d, n), f))
  <2> DEFINE c == [i \in 1 .. n |-> from + i - 1 + (IF i > h THEN d ELSE 0)]
             e == from + n + (IF h < n THEN d ELSE 0)
  <2>1. n \in Nat /\ n <= Want(f) /\ n <= Present(d)
    BY <1>2, FileType, StreamAssumption DEF Want, SmallerOf
  <2>2. c \in [1 .. n -> Int] /\ \A i \in 1 .. n : c[i] >= f + i - 1
    BY <1>1, <2>1
  <2>3. f + n \in NoDecode .. file.frames /\ e \in Nat /\ f + n <= e
    BY <1>1, <2>1, FileType, StreamAssumption DEF Want, SmallerOf, NoDecode
  <2>4. ~file.damaged => \A i \in 1 .. n : c[i] = f + i - 1 /\ c[i] < file.avail
    BY <1>1, <1>2, <1>3, <2>1, FileType
  <2>5. ~file.damaged => f + n = e
    BY <1>1, <1>3, <2>1
  <2> HIDE DEF c, e, Present
  <2>6. LET v == [start |-> f, cache |-> c, decode |-> f + n, decoder |-> e]
        IN WinOK(v) /\ (n > 0 => Cached(v, f))
    BY <2>1, <2>2, <2>3, <2>4, <2>5, Filled
  <2> QED
    BY <2>6 DEF c, e
<1>4. \/ \E hd \in Holes : r = Outcome(Present(hd[2]) > 0, Decoded(hd[1], hd[2], Present(hd[2])))
      \/ file.damaged /\ \E n \in 0 .. Present(0) : r = Outcome(FALSE, Decoded(0, 0, n))
      \/ file.damaged /\ r = Outcome(FALSE, w)
  BY DEF stream_fill_ogg, from
<1>5. CASE \E hd \in Holes : r = Outcome(Present(hd[2]) > 0, Decoded(hd[1], hd[2], Present(hd[2])))
  <2>1. PICK hd \in Holes : r = Outcome(Present(hd[2]) > 0, Decoded(hd[1], hd[2], Present(hd[2])))
    BY <1>5
  <2>2. hd[1] \in Nat /\ hd[2] \in Nat /\ (file.damaged \/ hd[2] = 0)
    BY StreamAssumption
  <2> DEFINE h == hd[1]
             d == hd[2]
  <2>3. r.win = Decoded(h, d, Present(d)) /\ (r.ok <=> Present(d) > 0)
    BY <2>1 DEF Outcome
  <2> HIDE DEF h, d, Decoded, Present, Holes
  <2>4. h \in Nat /\ d \in Nat /\ (file.damaged \/ d = 0)
    BY <2>2 DEF h, d
  <2>5. Present(d) \in 0 .. Present(d)
    BY <1>2, <2>4
  <2>6. WinOK(r.win) /\ (r.ok => Cached(r.win, f))
    BY <1>3, <2>3, <2>4, <2>5
  <2>7. ~file.damaged /\ f < file.avail => r.ok
    BY <1>1, <1>2, <2>3, <2>4, FileType
  <2> QED
    BY <2>6, <2>7
<1>6. CASE file.damaged /\ \E n \in 0 .. Present(0) : r = Outcome(FALSE, Decoded(0, 0, n))
  <2>1. PICK n \in 0 .. Present(0) : r = Outcome(FALSE, Decoded(0, 0, n))
    BY <1>6
  <2>2. r.win = Decoded(0, 0, n) /\ ~r.ok
    BY <2>1 DEF Outcome
  <2> HIDE DEF Decoded, Present
  <2> QED
    BY <1>3, <1>6, <2>2
<1>7. CASE file.damaged /\ r = Outcome(FALSE, w)
  <2>1. r.win = w /\ ~r.ok
    BY <1>7 DEF Outcome
  <2> QED
    BY <1>7, <2>1
<1> QED
  BY <1>4, <1>5, <1>6, <1>7

\* stream_sample() returns the frame it is asked for, or a later one if the file is
\* damaged, and finds every frame that is there.
LEMMA Sampled ==
  ASSUME file \in Openable, NEW w, WinOK(w), NEW f \in Int, NEW s \in stream_sample(w, f)
  PROVE  /\ WinOK(s.win)
         /\ s.ok => /\ f >= 0 /\ f < file.frames /\ s.value \in Int /\ s.value >= f
                    /\ ~file.damaged => s.value = f /\ f < file.avail
         /\ ~file.damaged /\ f >= 0 /\ f < file.avail => s.ok
<1>1. PICK r \in stream_fill(w, f) :
        s = [ok |-> r.ok /\ Cached(r.win, f), win |-> r.win,
             value |-> IF r.ok /\ Cached(r.win, f) THEN r.win.cache[f - r.win.start + 1] ELSE -1]
  BY DEF stream_sample
<1>2. /\ WinOK(r.win) /\ (r.ok => f >= 0 /\ f < file.frames /\ Cached(r.win, f))
      /\ ~file.damaged /\ f >= 0 /\ f < file.avail => r.ok
  <2>1. CASE f < 0 \/ f >= file.frames
    <3>1. r.win = w /\ ~r.ok
      BY <2>1 DEF stream_fill, Outcome
    <3> QED
      BY <2>1, <3>1, FileType
  <2>2. CASE f >= 0 /\ f < file.frames /\ Cached(w, f)
    <3>1. r.win = w /\ r.ok
      BY <2>2, FileType DEF stream_fill, Outcome
    <3> QED
      BY <2>2, <3>1
  <2>3. CASE f >= 0 /\ f < file.frames /\ ~Cached(w, f)
    <3>1. f \in Nat
      BY <2>3
    <3>2. \/ file.type = "ogg" /\ r \in stream_fill_ogg(w, f)
          \/ file.type = "wav" /\ r \in stream_fill_wav(w, f)
      <4>1. ~(f < 0 \/ f >= file.frames)
        BY <2>3, FileType
      <4> QED
        BY <2>3, <4>1, FileType, Zenon DEF stream_fill
    <3> QED
      BY <2>3, <3>1, <3>2, FillOgg, FillWav
  <2> QED
    BY <2>1, <2>2, <2>3, FileType
<1>3. s.win = r.win /\ (s.ok <=> r.ok)
  BY <1>1, <1>2
<1>4. ASSUME r.ok
      PROVE  /\ s.value \in Int /\ s.value >= f
             /\ ~file.damaged => s.value = f /\ f < file.avail
  <2>1. s.value = r.win.cache[f - r.win.start + 1] /\ Cached(r.win, f)
    BY <1>1, <1>2, <1>4
  <2>2. /\ r.win.start \in Nat /\ r.win.cache \in Seq(Int)
    BY <1>2 DEF WinOK, Within, Windows
  <2>3. f - r.win.start + 1 \in 1 .. Len(r.win.cache)
    BY <2>1, <2>2 DEF Cached
  <2> DEFINE j == f - r.win.start + 1
             v == r.win
  <2>4. v.cache[j] \in Int /\ v.start + j - 1 = f
    BY <2>2, <2>3
  <2> HIDE DEF j, v
  <2>5. j \in 1 .. Len(v.cache) /\ WinOK(v)
    BY <1>2, <2>3 DEF j, v
  <2>6. v.cache[j] >= v.start + j - 1
    BY <2>5 DEF WinOK, NotBehind
  <2>7. ~file.damaged => v.cache[j] = v.start + j - 1 /\ v.cache[j] < file.avail
    BY <2>5 DEF WinOK, Exact
  <2> QED
    BY <2>1, <2>4, <2>6, <2>7 DEF j, v
<1> QED
  BY <1>2, <1>3, <1>4

\* A cache that is thrown away.
LEMMA Discarded ==
  ASSUME file \in Openable, NEW w, WinOK(w)
  PROVE  WinOK(Discard(w))
<1>1. w \in Windows /\ file.frames \in Nat
  BY FileType DEF WinOK, Within
<1> DEFINE d == IF file.type = "ogg" THEN NoDecode ELSE w.decode
<1>2. Discard(w) = [start |-> w.start, cache |-> <<>>, decode |-> d, decoder |-> w.decoder]
  <2> HIDE DEF d
  <2>1. Discard(w) = [w EXCEPT !.cache = <<>>, !.decode = d]
    BY DEF Discard, d
  <2> QED
    BY <1>1, <2>1 DEF Windows
<1>3. Within(Discard(w))
  BY <1>1, <1>2, StreamAssumption DEF WinOK, Within, Windows, NoDecode
<1>4. NotBehind(Discard(w)) /\ Exact(Discard(w))
  BY <1>1, <1>2 DEF WinOK, NotBehind, Exact, NoDecode
<1> QED
  BY <1>3, <1>4 DEF WinOK

-----------------------------------------------------------------------------
(* The steps of the stream *)

\* Everything about the window depends on the file alone.
LEMMA WinOKSame ==
  ASSUME file' = file, NEW w, WinOK(w), win' = w
  PROVE  WinOK(win)'
BY DEF WinOK, Within, NotBehind, Exact, Windows

\* The frame of a position before the end lies in the file.
LEMMA FrameInFile ==
  ASSUME file \in Openable, NEW p \in Nat, p < End
  PROVE  p \div OutRate \in Nat /\ p \div OutRate < file.frames
<1> DEFINE q == p \div OutRate
<1>1. OutRate \in Nat /\ OutRate > 0 /\ file.frames \in Nat
  BY FileType, StreamAssumption
<1>2. q \in Nat /\ OutRate * q <= p
  BY <1>1
<1> HIDE DEF q
<1>3. ASSUME q >= file.frames PROVE FALSE
  <2>1. OutRate * q >= OutRate * file.frames
    BY <1>1, <1>2, <1>3
  <2>2. OutRate * q \in Nat /\ OutRate * file.frames \in Nat /\ OutRate * file.frames = End
    BY <1>1, <1>2 DEF End
  <2> HIDE DEF End
  <2> QED
    BY <1>2, <2>1, <2>2
<1> QED
  BY <1>1, <1>2, <1>3 DEF q

\* A step of the mixer: what it hears, and whether it goes on playing.
LEMMA SampleStep ==
  ASSUME Stream, MixSample
  PROVE  /\ PosOK' /\ WinOK(win)' /\ Heard' /\ HeardFrames' /\ playing' \in BOOLEAN
         /\ playing /\ pos # NaN /\ file.avail = file.frames /\ file.frames > 0 /\ ~file.damaged
              => playing'
<1> DEFINE p == IF pos >= End THEN 0 ELSE pos
           w == IF pos >= End THEN Discard(win) ELSE win
           b(a) == IF a + 1 < file.frames THEN a + 1 ELSE a
<1>0. /\ file' = file /\ file \in Openable /\ WinOK(win) /\ PosOK
      /\ playing = TRUE
  BY DEF MixSample, Stream
<1>1. /\ End \in Nat /\ file.rate \in Nat /\ file.rate > 0 /\ file.frames \in Nat
      /\ file.avail \in Nat /\ file.avail <= file.frames /\ (file.frames > 0 => End > 0)
      /\ pos \in Nat \cup {-1} /\ End' = End
  BY <1>0, FileType DEF PosOK, NaN, End
<1>2. WinOK(w) /\ p \in Nat \cup {-1} /\ (p = 0 \/ p < End)
  BY <1>0, <1>1, Discarded
<1>3. PICK a \in FrameAt(p) : \E ra \in stream_sample(w, a) :
          IF ~ra.ok
          THEN /\ playing' = FALSE /\ out' = Silence
               /\ win' = ra.win /\ pos' = p
          ELSE \E rb \in stream_sample(ra.win, b(a)) :
                    /\ out' = [a |-> a, b |-> b(a), l0 |-> ra.value,
                               l1 |-> IF rb.ok THEN rb.value ELSE ra.value]
                    /\ win' = rb.win /\ pos' = IF p = NaN THEN NaN ELSE p + file.rate
                    /\ UNCHANGED playing
  BY DEF MixSample
<1> HIDE DEF p, w
<1>4. a \in Int
  <2>1. CASE p = -1
    BY <1>3, <2>1 DEF FrameAt, NaN
  <2>2. CASE p \in Nat
    BY <1>3, <2>2, StreamAssumption DEF FrameAt, NaN
  <2> QED
    BY <1>2, <2>1, <2>2
<1>5. PICK ra \in stream_sample(w, a) :
          IF ~ra.ok
          THEN /\ playing' = FALSE /\ out' = Silence
               /\ win' = ra.win /\ pos' = p
          ELSE \E rb \in stream_sample(ra.win, b(a)) :
                    /\ out' = [a |-> a, b |-> b(a), l0 |-> ra.value,
                               l1 |-> IF rb.ok THEN rb.value ELSE ra.value]
                    /\ win' = rb.win /\ pos' = IF p = NaN THEN NaN ELSE p + file.rate
                    /\ UNCHANGED playing
  BY <1>3
<1>6. /\ WinOK(ra.win)
      /\ ra.ok => /\ a >= 0 /\ a < file.frames /\ ra.value \in Int /\ ra.value >= a
                  /\ ~file.damaged => ra.value = a /\ a < file.avail
      /\ ~file.damaged /\ a >= 0 /\ a < file.avail => ra.ok
  BY <1>0, <1>2, <1>4, Sampled
<1>7. CASE ~ra.ok
  <2>1. playing' = FALSE /\ out' = Silence /\ win' = ra.win /\ pos' = p
    BY <1>5, <1>7
  <2>2. PosOK'
    BY <1>0, <1>1, <1>2, <2>1 DEF PosOK, NaN
  <2>3. WinOK(win)'
    BY <1>0, <1>6, <2>1, WinOKSame
  <2>4. Heard' /\ HeardFrames'
    BY <2>1 DEF Heard, HeardFrames, Silence
  <2>5. ~(pos # NaN /\ file.avail = file.frames /\ file.frames > 0 /\ ~file.damaged)
    <3> SUFFICES ASSUME pos # NaN, file.avail = file.frames, file.frames > 0, ~file.damaged
                 PROVE  FALSE
      OBVIOUS
    <3>1. p \in Nat /\ p < End
      BY <1>1, <1>2 DEF p, NaN
    <3>2. a = p \div OutRate
      BY <1>3, <3>1 DEF FrameAt, NaN
    <3>3. a >= 0 /\ a < file.frames
      BY <1>0, <3>1, <3>2, FrameInFile
    <3> QED
      BY <1>6, <1>7, <3>3
  <2> QED
    BY <2>1, <2>2, <2>3, <2>4, <2>5
<1>8. CASE ra.ok
  <2>1. PICK rb \in stream_sample(ra.win, b(a)) :
          /\ out' = [a |-> a, b |-> b(a), l0 |-> ra.value,
                     l1 |-> IF rb.ok THEN rb.value ELSE ra.value]
          /\ win' = rb.win /\ pos' = IF p = NaN THEN NaN ELSE p + file.rate
          /\ playing' = playing
    BY <1>5, <1>8
  <2>2. b(a) \in Int /\ b(a) >= a /\ (b(a) = a \/ b(a) = a + 1)
    BY <1>1, <1>4
  <2> DEFINE c == b(a)
  <2> HIDE DEF b
  <2>3. /\ WinOK(rb.win)
        /\ rb.ok => /\ rb.value \in Int /\ rb.value >= c
                    /\ ~file.damaged => rb.value = c /\ c < file.avail
        /\ ~file.damaged /\ c >= 0 /\ c < file.avail => rb.ok
    BY <1>0, <1>6, <2>2, Sampled
  <2>4. /\ out'.a = a /\ out'.b = c /\ out'.l0 = ra.value
        /\ out'.l1 = IF rb.ok THEN rb.value ELSE ra.value
    BY <2>1
  <2>5. PosOK'
    <3>1. pos' = IF p = -1 THEN -1 ELSE p + file.rate
      BY <2>1 DEF NaN
    <3>2. file.frames > 0
      BY <1>1, <1>4, <1>6, <1>8
    <3> QED
      BY <1>0, <1>1, <1>2, <3>1, <3>2 DEF PosOK, NaN
  <2>6. WinOK(win)'
    BY <1>0, <2>1, <2>3, WinOKSame
  <2>7. Heard'
    BY <1>4, <1>6, <1>8, <2>2, <2>3, <2>4 DEF Heard
  <2>8. HeardFrames'
    BY <1>0, <1>1, <1>4, <1>6, <1>8, <2>2, <2>3, <2>4 DEF HeardFrames
  <2>9. playing' = TRUE
    BY <1>0, <2>1
  <2> QED
    BY <2>5, <2>6, <2>7, <2>8, <2>9
<1> QED
  BY <1>7, <1>8

\* What is known of the last frames does not change while they and the file do not.
LEMMA HeardSame ==
  ASSUME Stream, file' = file, out' = out \/ out' = Silence
  PROVE  Heard' /\ HeardFrames'
BY DEF Stream, Heard, HeardFrames, Silence

\* An Audio.* call leaves the file, the last frames and the cache alone, or throws
\* the cache away.
LEMMA CallStep ==
  ASSUME Stream, Called, UNCHANGED <<file, out>>, PosOK',
         win' = win \/ win' = Discard(win),
         playing' \in BOOLEAN, paused' \in BOOLEAN, loop' \in BOOLEAN
  PROVE  Stream' /\ calls' # calls
<1>1. calls' \in 0 .. MaxCalls /\ calls' # calls
  BY StreamAssumption DEF Called, Stream
<1>2. file' \in Openable
  BY DEF Stream, Openable
<1>3. WinOK(win)'
  BY Discarded, WinOKSame DEF Stream
<1>4. Heard' /\ HeardFrames'
  BY HeardSame
<1> QED
  BY <1>1, <1>2, <1>3, <1>4 DEF Stream

\* Every step of the stream: it stays in order, and a loop goes on unless it is told
\* otherwise.
LEMMA StreamStep ==
  ASSUME Stream, Next
  PROVE  /\ Stream'
         /\ playing /\ loop /\ pos # NaN /\ file.avail = file.frames /\ file.frames > 0
              /\ ~file.damaged => playing' \/ calls' # calls
<1>0. /\ file \in Openable /\ WinOK(win) /\ calls \in 0 .. MaxCalls
      /\ file.rate \in Nat /\ file.rate > 0 /\ End \in Nat
  BY FileType DEF Stream
<1>b. playing \in BOOLEAN /\ paused \in BOOLEAN /\ loop \in BOOLEAN
  BY DEF Stream
<1>p. ASSUME file' = file, pos' \in Nat \cup {-1}, pos' <= End \/ pos' = pos PROVE PosOK'
  BY <1>0, <1>p DEF Stream, PosOK, End, NaN
<1>1. CASE MixEnd
  <2>1. /\ UNCHANGED <<file, pos, win, calls>> /\ out' = Silence
    BY <1>1 DEF MixEnd
  <2>2. playing' \in BOOLEAN /\ paused' \in BOOLEAN /\ loop' \in BOOLEAN /\ ~loop
    BY <1>b, <1>1 DEF MixEnd
  <2>3. PosOK' /\ file' \in Openable
    BY <2>1 DEF Stream, PosOK, End, Openable
  <2>4. WinOK(win)'
    BY <1>0, <2>1, WinOKSame
  <2>5. Heard' /\ HeardFrames'
    BY <2>1, HeardSame
  <2> QED
    BY <1>0, <2>1, <2>2, <2>3, <2>4, <2>5 DEF Stream
<1>2. CASE MixSample
  <2>1. UNCHANGED <<file, calls>>
    BY <1>2 DEF MixSample
  <2>2. paused' \in BOOLEAN /\ loop' \in BOOLEAN
    BY <1>b, <1>2 DEF MixSample
  <2>3. file' \in Openable
    BY <1>0, <2>1 DEF Openable
  <2> QED
    BY <1>0, <1>2, <2>1, <2>2, <2>3, SampleStep DEF Stream
<1>3. CASE (\E l \in BOOLEAN : playstream(l)) \/ pausestream \/ resumestream
  <2>1. Called /\ UNCHANGED <<file, out, pos, win>>
    BY <1>3 DEF playstream, pausestream, resumestream
  <2>2. playing' \in BOOLEAN /\ paused' \in BOOLEAN /\ loop' \in BOOLEAN
    BY <1>b, <1>3 DEF playstream, pausestream, resumestream
  <2>3. PosOK'
    BY <2>1 DEF Stream, PosOK, End
  <2> QED
    BY <2>1, <2>2, <2>3, CallStep
<1>4. CASE stopstream
  <2>1. Called /\ UNCHANGED <<file, out>> /\ pos' = 0 /\ win' = Discard(win)
    BY <1>4 DEF stopstream
  <2>2. playing' \in BOOLEAN /\ paused' \in BOOLEAN /\ loop' \in BOOLEAN
    BY <1>b, <1>4 DEF stopstream
  <2>3. PosOK'
    BY <1>0, <1>p, <2>1
  <2> QED
    BY <2>1, <2>2, <2>3, CallStep
<1>5. ASSUME NEW position \in {NaN} \cup 0 .. MaxFrames * OutRate + 1, streamseek(position)
      PROVE  Stream' /\ calls' # calls
  <2>1. Called /\ UNCHANGED <<file, out>> /\ pos' = SmallerOf(position, End) /\ win' = Discard(win)
    BY <1>5 DEF streamseek
  <2>2. playing' \in BOOLEAN /\ paused' \in BOOLEAN /\ loop' \in BOOLEAN
    BY <1>b, <1>5 DEF streamseek
  <2>3. position \in Nat \cup {-1}
    <3>1. MaxFrames * OutRate \in Nat
      BY StreamAssumption
    <3> QED
      BY <3>1 DEF NaN
  <2>4. pos' \in Nat \cup {-1} /\ pos' <= End
    <3> HIDE DEF End
    <3> QED
      BY <1>0, <2>1, <2>3 DEF SmallerOf
  <2>5. PosOK'
    BY <1>p, <2>1, <2>4
  <2> QED
    BY <2>1, <2>2, <2>5, CallStep
<1> QED
  BY <1>1, <1>2, <1>3, <1>4, <1>5 DEF Next, mix_stream

-----------------------------------------------------------------------------
(* The theorems *)

\* A stream that was just opened, from whatever file.
FreshStream ==
  /\ file \in Openable /\ Fresh /\ calls \in 0 .. MaxCalls
  /\ playing \in BOOLEAN /\ paused \in BOOLEAN /\ loop \in BOOLEAN

\* A new stream is in order, whatever the file.
LEMMA NewStream == FreshStream => Stream
<1> SUFFICES ASSUME FreshStream PROVE Stream
  OBVIOUS
<1>0. /\ file \in Openable /\ pos = 0 /\ out = Silence /\ calls \in 0 .. MaxCalls
      /\ win = [start |-> 0, cache |-> <<>>, decode |-> NoDecode, decoder |-> 0]
  BY DEF FreshStream, Fresh
<1>1. file.frames \in Nat /\ file.rate \in Nat /\ End \in Nat
  BY <1>0, FileType
<1>2. PosOK /\ Heard /\ HeardFrames
  BY <1>0, <1>1 DEF PosOK, Heard, HeardFrames
<1>3. Within(win)
  BY <1>0, <1>1, StreamAssumption DEF Within, Windows, NoDecode
<1>4. NotBehind(win) /\ Exact(win)
  BY <1>0 DEF NotBehind, Exact
<1>5. playing \in BOOLEAN /\ paused \in BOOLEAN /\ loop \in BOOLEAN
  BY DEF FreshStream
<1> QED
  BY <1>0, <1>2, <1>3, <1>4, <1>5 DEF Stream, WinOK

\* Opening a file leaves the stream new.
LEMMA ParseStep ==
  ASSUME IInv, Parse
  PROVE  IInv' /\ playing' = playing
<1>1. /\ walk.at # "open" /\ UNCHANGED <<pos, win, out, calls>>
      /\ file' = file \/ file' \in Openable
  BY DEF Parse, Magic, ParseChunk, ParseEnds, openstream, vars
<1>2. playing' = playing /\ paused' = paused /\ loop' = loop
  BY DEF Parse, Magic, ParseChunk, ParseEnds, openstream, vars
<1>3. Fresh'
  BY <1>1 DEF IInv, New, Fresh, Silence
<1>4. file' \in Openable /\ calls' \in 0 .. MaxCalls
  BY <1>1 DEF IInv, Stream, Openable
<1>5. playing' \in BOOLEAN /\ paused' \in BOOLEAN /\ loop' \in BOOLEAN
  BY <1>2 DEF IInv, Stream
<1>6. Stream'
  <2>1. FreshStream'
    BY <1>3, <1>4, <1>5 DEF FreshStream
  <2> QED
    BY <2>1, NewStream, PTL
<1> QED
  BY <1>2, <1>3, <1>6 DEF IInv, New

\* The inductive invariant holds in every state of every execution.
THEOREM Invariance == OpenSpec => []IInv
<1>1. OpenInit => IInv
  <2> SUFFICES ASSUME OpenInit PROVE IInv
    OBVIOUS
  <2>1. file \in Openable /\ Fresh /\ calls \in 0 .. MaxCalls
    BY StreamAssumption DEF OpenInit, Init, Fresh
  <2>2. playing = FALSE /\ paused = FALSE /\ loop = FALSE
    BY DEF OpenInit, Init
  <2>3. FreshStream
    BY <2>1, <2>2 DEF FreshStream
  <2> QED
    BY <2>1, <2>3, NewStream DEF IInv, New
<1>2. IInv /\ [OpenNext]_<<vars, walk>> => IInv'
  <2> SUFFICES ASSUME IInv, [OpenNext]_<<vars, walk>> PROVE IInv'
    OBVIOUS
  <2>1. CASE Parse
    BY <2>1, ParseStep
  <2>2. CASE walk.at = "open" /\ Next /\ UNCHANGED walk
    BY <2>2, StreamStep DEF IInv, New
  <2>3. CASE UNCHANGED <<vars, walk>>
    <3>1. UNCHANGED <<file, pos, win, out, calls, walk>>
      BY <2>3 DEF vars
    <3>2. playing' = playing /\ paused' = paused /\ loop' = loop
      BY <2>3 DEF vars
    <3>3. New'
      BY <3>1 DEF IInv, New, Fresh, Silence
    <3>4. PosOK' /\ file' \in Openable /\ calls' \in 0 .. MaxCalls
      BY <3>1 DEF IInv, Stream, PosOK, End, Openable
    <3>5. WinOK(win)'
      BY <3>1, WinOKSame DEF IInv, Stream
    <3>6. Heard' /\ HeardFrames'
      BY <3>1, HeardSame DEF IInv
    <3>7. playing' \in BOOLEAN /\ paused' \in BOOLEAN /\ loop' \in BOOLEAN
      BY <3>2 DEF IInv, Stream
    <3> QED
      BY <3>3, <3>4, <3>5, <3>6, <3>7 DEF IInv, Stream
  <2> QED
    BY <2>1, <2>2, <2>3 DEF OpenNext
<1> QED
  BY <1>1, <1>2, PTL DEF OpenSpec

\* The position, the cache and the decoder stay within the file.
THEOREM TypeCorrect == OpenSpec => []TypeOK
<1>1. IInv => TypeOK
  <2> SUFFICES ASSUME IInv PROVE TypeOK
    OBVIOUS
  <2>1. playing \in BOOLEAN /\ paused \in BOOLEAN /\ loop \in BOOLEAN
    BY DEF IInv, Stream
  <2>2. /\ win.start \in Nat /\ Len(win.cache) <= StreamCache
        /\ win.start + Len(win.cache) <= file.frames
        /\ win.decode \in NoDecode .. file.frames /\ win.decoder \in Nat
    BY DEF IInv, Stream, WinOK, Within, Windows
  <2> QED
    BY <2>1, <2>2 DEF IInv, Stream, PosOK, TypeOK
<1> QED
  BY <1>1, Invariance, PTL

\* What mix_stream() mixes for a frame of an undamaged file is that frame.
THEOREM FramesHeard == OpenSpec => []HeardFrames
<1>1. IInv => HeardFrames
  BY DEF IInv, Stream
<1> QED
  BY <1>1, Invariance, PTL

\* No frame of a damaged file is heard behind its time, because stream_fill_ogg()
\* never takes the decoder for further than it is.
THEOREM NeverBehind == OpenSpec => []HeardNeverBehind
<1>1. IInv => HeardNeverBehind
  BY DEF IInv, Stream, Heard, WinOK, NotBehind, HeardNeverBehind
<1> QED
  BY <1>1, Invariance, PTL

\* A looping stream of a complete, readable file goes on until it is told to stop.
THEOREM LoopsGoOn == OpenSpec => LoopGoesOn
<1> DEFINE Goes == playing /\ loop /\ pos # NaN /\ file.avail = file.frames /\ file.frames > 0
                     /\ ~file.damaged => playing' \/ calls' # calls
<1>1. IInv /\ [OpenNext]_<<vars, walk>> => [Goes]_vars
  <2> SUFFICES ASSUME IInv, [OpenNext]_<<vars, walk>> PROVE [Goes]_vars
    OBVIOUS
  <2>1. CASE Parse
    BY <2>1, ParseStep
  <2>2. CASE walk.at = "open" /\ Next /\ UNCHANGED walk
    BY <2>2, StreamStep DEF IInv
  <2>3. CASE UNCHANGED <<vars, walk>>
    BY <2>3
  <2> QED
    BY <2>1, <2>2, <2>3 DEF OpenNext
<1> QED
  BY <1>1, Invariance, PTL DEF OpenSpec, LoopGoesOn

-----------------------------------------------------------------------------
(* The rounds of parse_wav() *)

Walks ==
  [at : {"magic", "chunks", "parsed", "open", "failed"}, pos : Nat, fmt_found : BOOLEAN,
   data_found : BOOLEAN, data_size : Nat, wrapped : BOOLEAN, seen : SUBSET [pos : Nat, header : Header]]

\* The headers read so far lie behind the position, and are no more than the bytes
\* passed over.
Behind(w) ==
  /\ \A s \in w.seen : s.pos < w.pos
  /\ IsFiniteSet(w.seen) /\ Cardinality(w.seen) <= w.pos /\ Cardinality(w.seen) <= FileSize

WInv == walk \in Walks /\ (~walk.wrapped => Behind(walk))

\* The walk begins, and ends, without a header.
LEMMA NoRounds ==
  /\ Start \in Walks /\ Behind(Start)
  /\ \A at \in {"parsed", "open", "failed"}, size \in Nat :
       Ended(at, size) \in Walks /\ Behind(Ended(at, size))
<1>1. Start \in Walks
  BY DEF Start, Walks
<1>2. Start.seen = {} /\ Start.pos = 0
  BY DEF Start
<1>3. ASSUME NEW at \in {"parsed", "open", "failed"}, NEW size \in Nat
      PROVE  Ended(at, size) \in Walks /\ Ended(at, size).seen = {} /\ Ended(at, size).pos = 0
  BY <1>1, <1>2 DEF Ended, Walks
<1>4. ASSUME NEW w, w.seen = {}, w.pos = 0 PROVE Behind(w)
  BY <1>4, FS_EmptySet, WavAssumption DEF Behind
<1> QED
  BY <1>1, <1>2, <1>3, <1>4

\* A 32-bit number is its own remainder, or has wrapped around.
LEMMA Remainder ==
  ASSUME NEW n \in Nat
  PROVE  n % Wrap \in Nat /\ (n < Wrap => n % Wrap = n)
BY WavAssumption

\* What a round does: the position moves on, past a header that was not read before,
\* unless the offset wraps around.
LEMMA Round ==
  ASSUME WInv, ParseChunk
  PROVE  /\ WInv'
         /\ walk'.at = "chunks" /\ ~walk'.wrapped =>
              walk.pos < walk'.pos /\ \A s \in walk.seen : s.pos # walk.pos
<1>0. walk \in Walks /\ walk.at = "chunks" /\ walk.pos \in Nat /\ walk.pos < FileSize /\ FileSize \in Nat
  <2>1. walk \in Walks /\ walk.at = "chunks" /\ ~(walk.pos >= FileSize)
    BY DEF WInv, ParseChunk, WalkOver
  <2>2. walk.pos \in Nat /\ FileSize \in Nat
    BY <2>1, WavAssumption DEF Walks
  <2> QED
    BY <2>1, <2>2
<1> DEFINE p == IF walk.pos + 2 > FileSize THEN FileSize ELSE walk.pos + 2
<1>1. p \in Nat /\ walk.pos < p
  BY <1>0
<1>2. PICK h \in Header :
        walk' = IF (h.id = "fmt " /\ h.n < FmtSize) \/ 2 * (NextChunk(p, h.n) % Wrap) >= Wrap
                THEN Ended("failed", 0)
                ELSE [walk EXCEPT
                        !.pos = NextChunk(p, h.n) % Wrap,
                        !.wrapped = @ \/ NextChunk(p, h.n) >= Wrap,
                        !.fmt_found = @ \/ h.id = "fmt ",
                        !.data_found = @ \/ h.id = "data",
                        !.data_size = IF h.id = "data" THEN h.n ELSE @,
                        !.seen = @ \cup {[pos |-> walk.pos, header |-> h]}]
  BY DEF ParseChunk
<1> DEFINE next == NextChunk(p, h.n)
           x == [pos |-> walk.pos, header |-> h]
<1> HIDE DEF p
<1>3. h.n \in Nat /\ next \in Nat /\ p <= next
  <2>1. h.n \in Nat
    <3>1. h.n \in 0 .. Wrap - 1
      BY DEF Header
    <3>2. Wrap \in Nat
      BY WavAssumption
    <3> QED
      BY <3>1, <3>2
  <2> QED
    BY <1>1, <2>1 DEF NextChunk
<1>4. next % Wrap \in Nat /\ (next < Wrap => next % Wrap = next) /\ Wrap \in Nat
  BY <1>3, Remainder, WavAssumption
<1> HIDE DEF next
<1>5. CASE walk' = Ended("failed", 0)
  <2>1. Ended("failed", 0).at # "chunks"
    BY DEF Ended, Start
  <2> QED
    BY <1>5, <2>1, NoRounds DEF WInv
<1>6. CASE walk' = [walk EXCEPT
                      !.pos = next % Wrap,
                      !.wrapped = @ \/ next >= Wrap,
                      !.fmt_found = @ \/ h.id = "fmt ",
                      !.data_found = @ \/ h.id = "data",
                      !.data_size = IF h.id = "data" THEN h.n ELSE @,
                      !.seen = @ \cup {x}]
  <2>1. /\ walk'.pos = next % Wrap /\ walk'.seen = walk.seen \cup {x} /\ walk'.at = walk.at
        /\ walk'.data_size \in Nat
    BY <1>0, <1>3, <1>6 DEF Walks
  <2>2. walk'.wrapped = (walk.wrapped \/ next >= Wrap)
    BY <1>0, <1>6 DEF Walks
  <2>3. x \in [pos : Nat, header : Header] /\ x.pos = walk.pos
    BY <1>0
  <2>4. walk' \in Walks
    <3>1. walk'.seen \in SUBSET [pos : Nat, header : Header]
      BY <1>0, <2>1, <2>3 DEF Walks
    <3>2. /\ walk'.fmt_found \in BOOLEAN /\ walk'.data_found \in BOOLEAN /\ walk'.wrapped \in BOOLEAN
      BY <1>0, <1>6 DEF Walks
    <3>3. walk' = [at |-> walk'.at, pos |-> walk'.pos, fmt_found |-> walk'.fmt_found,
                   data_found |-> walk'.data_found, data_size |-> walk'.data_size,
                   wrapped |-> walk'.wrapped, seen |-> walk'.seen]
      BY <1>0, <1>6 DEF Walks
    <3>4. walk'.at \in {"magic", "chunks", "parsed", "open", "failed"}
      BY <1>0, <2>1
    <3> QED
      BY <1>4, <2>1, <3>1, <3>2, <3>3, <3>4 DEF Walks
  <2> SUFFICES ASSUME ~walk'.wrapped
               PROVE  Behind(walk)' /\ walk.pos < walk'.pos /\ \A s \in walk.seen : s.pos # walk.pos
    BY <2>4 DEF WInv
  <2>5. ~walk.wrapped /\ ~(next >= Wrap)
    BY <2>2
  <2>6. walk'.pos = next /\ walk.pos < next
    BY <1>0, <1>1, <1>3, <1>4, <2>1, <2>5
  <2>7. Behind(walk)
    BY <2>5 DEF WInv
  <2>8. \A s \in walk.seen : s.pos \in Nat /\ s.pos < walk.pos
    BY <1>0, <2>7 DEF Behind, Walks
  <2>9. \A s \in walk.seen \cup {x} : s.pos < next
    BY <1>0, <1>3, <2>3, <2>6, <2>8
  <2>10. IsFiniteSet(walk.seen \cup {x}) /\ Cardinality(walk.seen \cup {x}) <= walk.pos + 1
    <3>1. IsFiniteSet(walk.seen) /\ Cardinality(walk.seen) \in Nat /\ Cardinality(walk.seen) <= walk.pos
      BY <2>7, FS_CardinalityType DEF Behind
    <3>2. /\ IsFiniteSet(walk.seen \cup {x})
          /\ Cardinality(walk.seen \cup {x}) \in {Cardinality(walk.seen), Cardinality(walk.seen) + 1}
      BY <3>1, FS_AddElement
    <3> QED
      BY <1>0, <3>1, <3>2
  <2>11. Cardinality(walk.seen \cup {x}) \in Nat
    BY <2>10, FS_CardinalityType
  <2>12. Behind(walk)'
    BY <1>0, <1>3, <2>1, <2>6, <2>9, <2>10, <2>11 DEF Behind
  <2> QED
    BY <1>0, <2>6, <2>8, <2>12
<1> QED
  BY <1>2, <1>5, <1>6 DEF next

\* Without a wrap-around every round of parse_wav() moves the offset on and reads a
\* header it has not read before: padded and truncated chunks never send it back.
RoundMovesOn ==
  [][ParseChunk /\ walk'.at = "chunks" /\ ~walk'.wrapped =>
       walk.pos < walk'.pos /\ \A s \in walk.seen : s.pos # walk.pos]_<<vars, walk>>

\* The rounds made so far are no more than the bytes of the file.
RoundsBounded == walk.at = "chunks" /\ ~walk.wrapped => Cardinality(walk.seen) <= FileSize

\* What holds of the walk in every state.
LEMMA WalkInvariance == OpenSpec => []WInv
<1>1. OpenInit => WInv
  BY NoRounds DEF OpenInit, WInv
<1>2. WInv /\ [OpenNext]_<<vars, walk>> => WInv'
  <2> SUFFICES ASSUME WInv, [OpenNext]_<<vars, walk>> PROVE WInv'
    OBVIOUS
  <2>1. CASE Magic
    <3>1. walk' = [walk EXCEPT !.at = "chunks"] \/ walk' = Ended("open", 0) \/ walk' = Ended("failed", 0)
      BY <2>1 DEF Magic
    <3>2. CASE walk' = [walk EXCEPT !.at = "chunks"]
      <4>1. walk' \in Walks /\ walk'.seen = walk.seen /\ walk'.pos = walk.pos
        BY <3>2 DEF WInv, Walks
      <4>2. walk'.wrapped = walk.wrapped
        BY <3>2 DEF WInv, Walks
      <4> QED
        BY <4>1, <4>2 DEF WInv, Behind
    <3> QED
      BY <3>1, <3>2, NoRounds DEF WInv
  <2>2. CASE ParseChunk
    BY <2>2, Round
  <2>3. CASE ParseEnds \/ openstream
    <3>1. \E at \in {"parsed", "open", "failed"}, size \in Nat : walk' = Ended(at, size)
      BY <2>3 DEF ParseEnds, openstream, WInv, Walks
    <3> QED
      BY <3>1, NoRounds DEF WInv
  <2>4. CASE walk' = walk
    BY <2>4 DEF WInv, Behind
  <2> QED
    BY <2>1, <2>2, <2>3, <2>4 DEF OpenNext, Parse
<1> QED
  BY <1>1, <1>2, PTL DEF OpenSpec

\* Every round of parse_wav() moves on, unless an offset wraps around.
THEOREM RoundsMoveOn == OpenSpec => RoundMovesOn
<1>1. WInv /\ [OpenNext]_<<vars, walk>> =>
        [ParseChunk /\ walk'.at = "chunks" /\ ~walk'.wrapped =>
           walk.pos < walk'.pos /\ \A s \in walk.seen : s.pos # walk.pos]_<<vars, walk>>
  BY Round
<1> QED
  BY <1>1, WalkInvariance, PTL DEF OpenSpec, RoundMovesOn

\* Opening a file takes no more rounds than it has bytes, unless an offset wraps around:
\* with RoundsMoveOn, every round counts in the headers seen.
THEOREM RoundsAreBounded == OpenSpec => []RoundsBounded
<1>1. WInv => RoundsBounded
  BY DEF WInv, Behind, RoundsBounded
<1> QED
  BY <1>1, WalkInvariance, PTL

=============================================================================
