------------------------------- MODULE Files --------------------------------
(***************************************************************************)
(* The files of the System module (src/modules/system.c): copyFile and     *)
(* moveFile, which copy block by block with descriptors of their own, and  *)
(* the descriptors that openFile hands to the script.  A step is one call  *)
(* of the file system, which can fail at any of them and is external.      *)
(***************************************************************************)
EXTENDS Integers, Sequences

CONSTANTS
  Paths,      \* names of files and directories
  Bytes,      \* what files consist of
  MaxLength,  \* bound on the length of a file
  Chunk       \* the buffer of a copy, 16384 bytes

ASSUME FilesAssumption ==
  /\ MaxLength \in Nat /\ Chunk \in Nat \ {0}
  /\ Bytes # {} /\ \A p \in Paths : p # "none"

VARIABLES
  disk,  \* path -> what is there
  file,  \* the script's descriptor: [path, pos], what the script must take the
         \* position for, and whether a short write has made that wrong
  call,  \* the copyFile or moveFile in progress
  open   \* descriptors of that call

vars == <<disk, file, call, open>>

Absent    == [type |-> "absent", data |-> <<>>]
Directory == [type |-> "dir", data |-> <<>>]
Contents(data) == [type |-> "file", data |-> data]
Texts == UNION {[1 .. n -> Bytes] : n \in 0 .. MaxLength}

NoFile == [path |-> "none", pos |-> 0, expected |-> 0, short |-> FALSE]
NoCall == [at |-> "idle", move |-> FALSE, source |-> "none", destination |-> "none",
           original |-> Absent, pos |-> 0, n |-> 0, ret |-> 0]

Init ==
  /\ disk \in [Paths -> {Absent} \cup {Contents(data) : data \in Texts}]
  /\ file = NoFile /\ call = NoCall /\ open = {}

Idle == call.at = "idle"
IsFile(p) == disk[p].type = "file"
\* The system removes and renames no file that is open, and any step may fail.
Free(p) == file.path # p

-----------------------------------------------------------------------------
(* one_path(): createDir, removeDir, removeFile; and rename *)

one_path(p) ==
  /\ Idle
  /\ \/ disk[p] = Absent /\ disk' = [disk EXCEPT ![p] = Directory]
     \/ disk[p] = Directory /\ disk' = [disk EXCEPT ![p] = Absent]
     \/ IsFile(p) /\ Free(p) /\ disk' = [disk EXCEPT ![p] = Absent]
  /\ UNCHANGED <<file, call, open>>

rename(s, d) ==
  /\ Idle /\ disk[s] # Absent /\ disk[d] = Absent /\ Free(s)
  /\ disk' = [disk EXCEPT ![d] = disk[s], ![s] = Absent]
  /\ UNCHANGED <<file, call, open>>

-----------------------------------------------------------------------------
(* two_path(): copyFile and moveFile *)

Goto(at) == call' = [call EXCEPT !.at = at]
Fails == call' = [call EXCEPT !.at = "close", !.ret = -1]

two_path(s, d, move) ==
  /\ Idle
  /\ call' = [NoCall EXCEPT !.at = "source", !.move = move, !.source = s,
                            !.destination = d, !.original = disk[s]]
  /\ UNCHANGED <<disk, file, open>>

OpenSource ==
  /\ call.at = "source"
  /\ \/ IsFile(call.source) /\ open' = open \cup {"in"} /\ Goto("destination")
     \/ Fails /\ UNCHANGED open
  /\ UNCHANGED <<disk, file>>

\* O_CREAT | O_TRUNC
OpenDestination ==
  /\ call.at = "destination"
  /\ \/ /\ disk[call.destination] # Directory
        /\ disk' = [disk EXCEPT ![call.destination] = Contents(<<>>)]
        /\ open' = open \cup {"out"} /\ Goto("read")
     \/ Fails /\ UNCHANGED <<disk, open>>
  /\ UNCHANGED file

ReadChunk ==
  /\ call.at = "read"
  /\ LET left == Len(disk[call.source].data) - call.pos
     IN \/ \E n \in 1 .. Chunk :
             n <= left /\ call' = [call EXCEPT !.at = "write", !.n = n]
        \/ left <= 0 /\ Goto("close")
        \/ Fails
  /\ UNCHANGED <<disk, file, open>>

\* k of the n bytes read arrive at the destination.
Arrive(k) ==
  disk' = [disk EXCEPT ![call.destination] =
             Contents(@.data \o SubSeq(disk[call.source].data, call.pos + 1, call.pos + k))]

WriteChunk ==
  /\ call.at = "write"
  /\ \/ Arrive(call.n) /\ call' = [call EXCEPT !.at = "read", !.pos = @ + call.n]
     \/ \E k \in 0 .. call.n - 1 : Arrive(k) /\ Fails
  /\ UNCHANGED <<file, open>>

\* Mutation: the source is removed whatever happened.
CloseAndRemove ==
  /\ call.at = "close" /\ open' = {}
  /\ Goto(IF call.move THEN "remove" ELSE "return")
  /\ UNCHANGED <<disk, file>>

Close ==
  /\ call.at = "close" /\ open' = {}
  /\ Goto(IF call.move /\ call.ret = 0 THEN "remove" ELSE "return")
  /\ UNCHANGED <<disk, file>>

RemoveSource ==
  /\ call.at = "remove"
  /\ \/ /\ Free(call.source) /\ disk' = [disk EXCEPT ![call.source] = Absent]
        /\ Goto("return")
     \/ call' = [call EXCEPT !.at = "return", !.ret = -1] /\ UNCHANGED disk
  /\ UNCHANGED <<file, open>>

\* The script is told, by an exception if ret < 0.
Return ==
  /\ call.at = "return" /\ call' = NoCall
  /\ UNCHANGED <<disk, file, open>>

-----------------------------------------------------------------------------
(* The script's descriptor *)

Size == Len(disk[file.path].data)

\* After a short write the script's idea of the position means nothing.
MoveTo(pos, expected, short) ==
  file' = [file EXCEPT !.pos = pos, !.short = short,
                       !.expected = IF short THEN 0 ELSE expected]

\* open() with or without O_CREAT | O_TRUNC.
openfile(p, truncate) ==
  /\ Idle /\ file = NoFile /\ disk[p] # Directory
  /\ IsFile(p) \/ truncate
  /\ disk' = IF truncate THEN [disk EXCEPT ![p] = Contents(<<>>)] ELSE disk
  /\ file' = [NoFile EXCEPT !.path = p]
  /\ UNCHANGED <<call, open>>

\* read() gives up to size bytes of what is left.  The script gets them as a string whose
\* length is their number if they are ASCII, which is assumed here: a character of several
\* bytes counts once or twice, and bytes that are no UTF-8 cannot be told.
readfile(size) ==
  /\ Idle /\ file # NoFile
  /\ \E n \in 0 .. size :
       /\ file.pos + n <= Size \/ n = 0
       /\ MoveTo(file.pos + n, file.expected + n, file.short)
  /\ UNCHANGED <<disk, call, open>>

\* data with the bytes of written from pos on; a hole is filled.
Overwritten(data, pos, written) ==
  LET end == pos + Len(written)
  IN [i \in 1 .. IF end > Len(data) /\ written # <<>> THEN end ELSE Len(data) |->
        IF i > pos /\ i <= end THEN written[i - pos]
        ELSE IF i <= Len(data) THEN data[i] ELSE CHOOSE b \in Bytes : TRUE]

\* The size is cut down to the ArrayBuffer.  write() may write less, and only an
\* error is told to the script.
writefile(text, size) ==
  /\ Idle /\ file # NoFile
  /\ LET wanted == IF size > Len(text) THEN Len(text) ELSE size
     IN \E n \in 0 .. wanted :
          /\ file.pos + n <= MaxLength
          /\ disk' = [disk EXCEPT ![file.path] =
                        Contents(Overwritten(@.data, file.pos, SubSeq(text, 1, n)))]
          /\ MoveTo(file.pos + n, file.expected + wanted, file.short \/ n < wanted)
  /\ UNCHANGED <<call, open>>

\* A position before the beginning is refused.
seekfile(offset, whence) ==
  /\ Idle /\ file # NoFile
  /\ LET base == CASE whence = "SET" -> 0 [] whence = "CUR" -> file.pos [] whence = "END" -> Size
     IN /\ base + offset \in 0 .. MaxLength
        /\ IF whence = "CUR" THEN MoveTo(base + offset, file.expected + offset, file.short)
           ELSE MoveTo(base + offset, base + offset, FALSE)
  /\ UNCHANGED <<disk, call, open>>

\* Mutation: the position is left at the end.
sizefileAtEnd ==
  /\ Idle /\ file # NoFile
  /\ file' = [file EXCEPT !.pos = Size]
  /\ UNCHANGED <<disk, call, open>>

\* Seek to the end and back.
sizefile ==
  /\ Idle /\ file # NoFile
  /\ LET cur == file.pos
         atEnd == [file EXCEPT !.pos = Size]
     IN file' = [atEnd EXCEPT !.pos = cur]
  /\ UNCHANGED <<disk, call, open>>

closefile ==
  /\ Idle /\ file # NoFile /\ file' = NoFile
  /\ UNCHANGED <<disk, call, open>>

-----------------------------------------------------------------------------

Script ==
  \/ \E p \in Paths : one_path(p) \/ openfile(p, TRUE) \/ openfile(p, FALSE)
  \/ \E s, d \in Paths : rename(s, d) \/ two_path(s, d, TRUE) \/ two_path(s, d, FALSE)
  \/ \E size \in 0 .. MaxLength : readfile(size) \/ \E text \in Texts : writefile(text, size)
  \/ \E offset \in -1 .. 1, whence \in {"SET", "CUR", "END"} : seekfile(offset, whence)
  \/ sizefile \/ closefile

Continue ==
  OpenSource \/ OpenDestination \/ ReadChunk \/ WriteChunk \/ Close \/ RemoveSource \/ Return

Next == Script \/ Continue

Spec == Init /\ [][Next]_vars

-----------------------------------------------------------------------------
(* Properties *)

\* The call is between two different files.
TwoFiles == ~Idle /\ call.source # call.destination

\* Whatever fails, and wherever the program is stopped, a copy or a move between two
\* files loses nothing: until the destination is complete and closed the source is
\* as it was, and a call that reports success has made the destination equal to it.
\* No call leaves a descriptor of its own behind.
NothingLost ==
  /\ TwoFiles =>
       /\ ~call.move \/ call.at # "return" \/ call.ret < 0 => disk[call.source] = call.original
       /\ call.at \in {"remove", "return"} /\ call.ret = 0 =>
            disk[call.destination] = call.original /\ open = {}
  /\ Idle => open = {}

\* A script that adds up what it has read (ASCII), written and sought knows its position,
\* whatever sizeFile did in between; only a short write, which writeFile does not
\* report, makes it wrong.
PositionKnown == file.short \/ file.pos = file.expected

=============================================================================
