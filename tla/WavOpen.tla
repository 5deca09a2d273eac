------------------------------ MODULE WavOpen -------------------------------
(***************************************************************************)
(* open_stream() of the Audio module (src/modules/audio.c): parse_wav()    *)
(* walks the chunks of a file, which may be any bytes, and the stream that *)
(* comes out of it is the one AudioStream plays.  load_wav() uses the same *)
(* walk.  A 32-bit number wraps around at Wrap; the name and the size of a *)
(* chunk take one byte each.                                               *)
(***************************************************************************)
EXTENDS AudioStream

CONSTANTS
  Wrap,      \* 2^32: uint32_t, and long of the same width
  FileSize,  \* bound on the length of a file that is parsed
  FmtSize    \* least size of a "fmt " chunk

ASSUME WavAssumption ==
  /\ Wrap \in Nat \ {0} /\ FmtSize \in Nat
  /\ FileSize \in Nat /\ 2 * FileSize < Wrap

VARIABLE walk  \* [at, pos, fmt_found, data_found, data_size, wrapped, seen]

Header == [id : {"fmt ", "data", "LIST"}, n : 0 .. Wrap - 1]

\* seen: the headers read so far by their place, so that the file stays the same.
Start == [at |-> "magic", pos |-> 0, fmt_found |-> FALSE, data_found |-> FALSE,
          data_size |-> 0, wrapped |-> FALSE, seen |-> {}]
Ended(at, size) == [Start EXCEPT !.at = at, !.data_size = size]

OpenInit ==
  /\ walk = Start
  /\ Init /\ file = CHOOSE f \in Openable : TRUE

\* The magic number: RIFF, where "WAVE" has to follow, or OggS, which is left to
\* ov_open and its checks; anything else fails.
Magic ==
  /\ walk.at = "magic"
  /\ \/ walk' = [walk EXCEPT !.at = "chunks"] /\ UNCHANGED file
     \/ walk' = Ended("open", 0) /\ file' \in {f \in Openable : f.type = "ogg"}
     \/ walk' = Ended("failed", 0) /\ UNCHANGED file
  /\ UNCHANGED <<playing, paused, loop, pos, win, out, calls>>

\* Whether both chunks were found, or the file is at its end.
WalkOver == (walk.fmt_found /\ walk.data_found) \/ walk.pos >= FileSize

\* Mutation: the size is taken to include the header.
NextChunkShort(p, n) == walk.pos + n + (n % 2)

\* Behind the chunk, padded to an even size.
NextChunk(p, n) == p + n + (n % 2)

\* One round of the loop.  A size that the file ends before is 0; a long that is
\* negative makes fseek fail, a position behind the end does not.
ParseChunk ==
  /\ walk.at = "chunks" /\ ~WalkOver
  /\ LET p == IF walk.pos + 2 > FileSize THEN FileSize ELSE walk.pos + 2
     IN \E h \in Header :
          /\ \A s \in walk.seen : s.pos = walk.pos => s.header = h
          /\ walk.pos + 2 > FileSize => h.n = 0
          /\ LET next == NextChunk(p, h.n)
             IN walk' =
                  IF (h.id = "fmt " /\ h.n < FmtSize) \/ 2 * (next % Wrap) >= Wrap
                  THEN Ended("failed", 0)
                  ELSE [walk EXCEPT
                          !.pos = next % Wrap,
                          !.wrapped = @ \/ next >= Wrap,
                          !.fmt_found = @ \/ h.id = "fmt ",
                          !.data_found = @ \/ h.id = "data",
                          !.data_size = IF h.id = "data" THEN h.n ELSE @,
                          !.seen = @ \cup {[pos |-> walk.pos, header |-> h]}]
  /\ UNCHANGED <<file, playing, paused, loop, pos, win, out, calls>>

\* The end of the loop: a missing chunk, another format, no channels or rate that
\* can be played, or no data fail.
ParseEnds ==
  /\ walk.at = "chunks" /\ WalkOver
  /\ \/ walk' = Ended("failed", 0)
     \/ /\ walk.fmt_found /\ walk.data_found /\ walk.data_size > 0
        /\ walk' = Ended("parsed", walk.data_size)
  /\ UNCHANGED vars

\* The stream: the announced frames are those of the data chunk, of the size of one
\* or two samples, and may not all be there.
openstream ==
  /\ walk.at = "parsed"
  /\ file' \in {f \in Openable : /\ f.type = "wav"
                                 /\ f.frames \in {walk.data_size \div 2, walk.data_size \div 4}}
  /\ walk' = Ended("open", 0)
  /\ UNCHANGED <<playing, paused, loop, pos, win, out, calls>>

Parse == Magic \/ ParseChunk \/ ParseEnds \/ openstream

OpenNext == Parse \/ (walk.at = "open" /\ Next /\ UNCHANGED walk)

OpenSpec == OpenInit /\ [][OpenNext]_<<vars, walk>>

Mix == walk.at = "open" /\ mix_stream /\ UNCHANGED walk

\* The QuickJS thread parses the file and then the mixer thread mixes grain after
\* grain; never is there something to do for both.
FairOpenSpec == OpenSpec /\ WF_<<vars, walk>>(Parse \/ Mix)

\* parse_wav() comes to an end whatever the file holds, unless the size of a chunk
\* makes the 32-bit offset of the next one wrap around and point back into the file.
WalkEnds == walk.at = "chunks" ~> walk.at # "chunks" \/ walk.wrapped

=============================================================================
