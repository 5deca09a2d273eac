---------------------------- MODULE FilesProofs -----------------------------
(***************************************************************************)
(* Proofs about Files, for all paths, contents of files and sizes of the   *)
(* buffer.  The lengths of files are not bounded by the proofs.            *)
(***************************************************************************)
EXTENDS Files, SequenceTheorems, TLAPS

(* The inductive invariant *)

Entry == [type : {"absent", "dir", "file"}, data : Seq(Bytes)]

CallType ==
  [at : {"idle", "source", "destination", "read", "write", "close", "remove", "return"},
   move : BOOLEAN, source : Paths \cup {"none"}, destination : Paths \cup {"none"},
   original : Entry, pos : Nat, n : Nat, ret : {0, -1}]
FileType == [path : Paths \cup {"none"}, pos : Nat, expected : Int, short : BOOLEAN]

TypeOK ==
  /\ disk \in [Paths -> Entry] /\ call \in CallType /\ file \in FileType
  /\ file = NoFile \/ file.path \in Paths
  /\ Idle \/ (call.source \in Paths /\ call.destination \in Paths)

\* The source is not touched until it is removed, which is the last step of a move.
SourceKept ==
  TwoFiles /\ (~call.move \/ call.at # "return" \/ call.ret < 0) =>
    disk[call.source] = call.original

\* While the copy goes on the destination is the part of the source before the
\* position.
Copied ==
  TwoFiles =>
    /\ call.at \in {"destination", "read", "write"} =>
         call.original.type = "file" /\ call.ret = 0
    /\ call.at = "destination" => call.pos = 0
    /\ call.at \in {"read", "write"} =>
         /\ call.pos <= Len(call.original.data)
         /\ disk[call.destination] = Contents(SubSeq(call.original.data, 1, call.pos))
    /\ call.at \in {"close", "remove", "return"} /\ call.ret = 0 =>
         disk[call.destination] = call.original

\* What was read is there, also when a file is copied onto itself.
ReadWithin == call.at = "write" => call.pos + call.n <= Len(disk[call.source].data)

\* A call has descriptors only between opening and closing them.
Descriptors ==
  /\ call.at \in {"idle", "source", "remove", "return"} => open = {}
  /\ call.at = "source" => call.pos = 0 /\ call.ret = 0
  /\ call.at = "remove" => call.move /\ call.ret = 0

IInv == TypeOK /\ SourceKept /\ Copied /\ ReadWithin /\ Descriptors /\ PositionKnown

-----------------------------------------------------------------------------
(* Contents of files *)

\* What is there is a file, a directory or nothing.
LEMMA Entries ==
  /\ Absent \in Entry /\ Directory \in Entry
  /\ \A data \in Seq(Bytes) : Contents(data) \in Entry
BY EmptySeq DEF Absent, Directory, Contents, Entry

\* A text that a script writes is a sequence.
LEMMA TextsAreSequences == \A text \in Texts : text \in Seq(Bytes)
BY FilesAssumption DEF Texts

\* Overwriting a part of a file, or its end, leaves a file.
LEMMA OverwrittenIsSequence ==
  ASSUME NEW data \in Seq(Bytes), NEW pos \in Nat, NEW written \in Seq(Bytes)
  PROVE  Overwritten(data, pos, written) \in Seq(Bytes)
<1> DEFINE end == pos + Len(written)
           size == IF end > Len(data) /\ written # <<>> THEN end ELSE Len(data)
           At(i) == IF i > pos /\ i <= end THEN written[i - pos]
                    ELSE IF i <= Len(data) THEN data[i] ELSE CHOOSE b \in Bytes : TRUE
<1>1. end \in Nat /\ Len(data) \in Nat /\ size \in Nat /\ Len(written) \in Nat
  BY LenProperties
<1>2. (CHOOSE b \in Bytes : TRUE) \in Bytes
  BY FilesAssumption
<1>3. ASSUME NEW i \in 1 .. size PROVE At(i) \in Bytes
  <2>1. CASE i > pos /\ i <= end
    <3>1. i - pos \in 1 .. Len(written)
      BY <1>1, <2>1
    <3> QED
      BY <2>1, <3>1, ElementOfSeq
  <2>2. CASE ~(i > pos /\ i <= end) /\ i <= Len(data)
    <3>1. i \in 1 .. Len(data)
      BY <1>1, <2>2
    <3> QED
      BY <2>2, <3>1, ElementOfSeq
  <2>3. CASE ~(i > pos /\ i <= end) /\ ~(i <= Len(data))
    BY <1>2, <2>3
  <2> QED
    BY <2>1, <2>2, <2>3
<1>4. Overwritten(data, pos, written) = [i \in 1 .. size |-> At(i)]
  BY DEF Overwritten
<1> HIDE DEF size, At
<1> QED
  BY <1>1, <1>3, <1>4

-----------------------------------------------------------------------------
(* The invariant holds *)

\* A step of the script outside copyFile and moveFile.
LEMMA IdleStep ==
  ASSUME IInv, Idle, UNCHANGED <<call, open>>, disk' \in [Paths -> Entry],
         file' \in FileType, file' = NoFile \/ file'.path \in Paths, PositionKnown'
  PROVE  IInv'
<1>1. TypeOK'
  BY DEF IInv, TypeOK, Idle, CallType, Entry, FileType
<1>2. SourceKept' /\ Copied' /\ ReadWithin'
  BY DEF SourceKept, Copied, ReadWithin, TwoFiles, Idle
<1>3. Descriptors'
  BY DEF IInv, Descriptors
<1> QED
  BY <1>1, <1>2, <1>3 DEF IInv

\* The script's descriptor after an operation that moves it.
LEMMA MoveToKeeps ==
  ASSUME IInv, file # NoFile, NEW pos \in Nat, NEW expected \in Int, NEW short \in BOOLEAN,
         short \/ pos = expected, MoveTo(pos, expected, short)
  PROVE  file' \in FileType /\ file'.path \in Paths /\ PositionKnown'
<1> DEFINE e == IF short THEN 0 ELSE expected
<1>1. file' = [file EXCEPT !.pos = pos, !.short = short, !.expected = e]
  BY DEF MoveTo
<1>2. e \in Int /\ (short \/ pos = e)
  OBVIOUS
<1> HIDE DEF e
<1>3. file \in FileType /\ file.path \in Paths
  BY DEF IInv, TypeOK
<1>4. file' \in FileType
  BY <1>1, <1>2, <1>3 DEF FileType
<1>5. file'.path = file.path /\ file'.pos = pos /\ file'.expected = e
  BY <1>1, <1>3 DEF FileType
<1>6. file'.short = short
  BY <1>1, <1>3 DEF FileType
<1> QED
  BY <1>2, <1>3, <1>4, <1>5, <1>6 DEF PositionKnown

\* Every call of the script preserves the invariant.
LEMMA ScriptStep == ASSUME IInv, Script PROVE IInv'
<1>0. /\ disk \in [Paths -> Entry] /\ call \in CallType /\ file \in FileType
      /\ file = NoFile \/ file.path \in Paths
      /\ PositionKnown
  BY DEF IInv, TypeOK
<1>1. ASSUME NEW p \in Paths, one_path(p) PROVE IInv'
  <2>1. Idle /\ UNCHANGED <<file, call, open>> /\ disk' \in [Paths -> Entry]
    BY <1>0, <1>1, Entries DEF one_path
  <2> QED
    BY <1>0, <2>1, IdleStep DEF PositionKnown
<1>2. ASSUME NEW p \in Paths, NEW truncate \in BOOLEAN, openfile(p, truncate) PROVE IInv'
  <2>1. Idle /\ UNCHANGED <<call, open>> /\ file' = [NoFile EXCEPT !.path = p]
    BY <1>2 DEF openfile
  <2>2. disk' \in [Paths -> Entry]
    BY <1>0, <1>2, Entries, EmptySeq DEF openfile
  <2>3. file' = [path |-> p, pos |-> 0, expected |-> 0, short |-> FALSE]
    BY <2>1 DEF NoFile
  <2>4. file' \in FileType /\ file'.path \in Paths /\ file'.pos = file'.expected
    BY <2>3 DEF FileType
  <2> QED
    BY <2>1, <2>2, <2>4, IdleStep DEF PositionKnown
<1>3. ASSUME NEW s \in Paths, NEW d \in Paths, rename(s, d) PROVE IInv'
  <2>1. Idle /\ UNCHANGED <<file, call, open>> /\ disk' \in [Paths -> Entry]
    BY <1>0, <1>3, Entries DEF rename
  <2> QED
    BY <1>0, <2>1, IdleStep DEF PositionKnown
<1>4. ASSUME NEW s \in Paths, NEW d \in Paths, NEW move \in BOOLEAN, two_path(s, d, move)
      PROVE  IInv'
  <2>1. /\ Idle /\ UNCHANGED <<disk, file, open>>
        /\ call' = [NoCall EXCEPT !.at = "source", !.move = move, !.source = s,
                                  !.destination = d, !.original = disk[s]]
    BY <1>4 DEF two_path
  <2>2. call' = [at |-> "source", move |-> move, source |-> s, destination |-> d,
                 original |-> disk[s], pos |-> 0, n |-> 0, ret |-> 0]
    BY <2>1 DEF NoCall
  <2>3. call' \in CallType
    BY <1>0, <2>2 DEF CallType
  <2>4. /\ call'.at = "source" /\ call'.source = s /\ call'.destination = d
        /\ call'.original = disk[s] /\ call'.pos = 0 /\ call'.ret = 0
    BY <2>2
  <2>5. TypeOK'
    BY <1>0, <2>1, <2>3, <2>4 DEF TypeOK, Entry, CallType, FileType
  <2>6. SourceKept' /\ Copied' /\ ReadWithin' /\ PositionKnown'
    BY <1>0, <2>1, <2>4 DEF SourceKept, Copied, ReadWithin, PositionKnown
  <2>7. Descriptors'
    BY <2>1, <2>4 DEF IInv, Descriptors, Idle
  <2> QED
    BY <2>5, <2>6, <2>7 DEF IInv
<1>5. ASSUME NEW size \in 0 .. MaxLength, readfile(size) PROVE IInv'
  <2>1. Idle /\ UNCHANGED <<disk, call, open>> /\ file # NoFile
    BY <1>5 DEF readfile
  <2>2. PICK n \in 0 .. size : MoveTo(file.pos + n, file.expected + n, file.short)
    BY <1>5 DEF readfile
  <2>3. /\ file.pos + n \in Nat /\ file.expected + n \in Int /\ file.short \in BOOLEAN
        /\ file.short \/ file.pos + n = file.expected + n
    BY <1>0, FilesAssumption DEF FileType, PositionKnown
  <2>4. file' \in FileType /\ file'.path \in Paths /\ PositionKnown'
    BY <2>1, <2>2, <2>3, MoveToKeeps
  <2> QED
    BY <1>0, <2>1, <2>4, IdleStep
<1>6. ASSUME NEW size \in 0 .. MaxLength, NEW text \in Texts, writefile(text, size) PROVE IInv'
  <2> DEFINE wanted == IF size > Len(text) THEN Len(text) ELSE size
  <2>1. Idle /\ UNCHANGED <<call, open>> /\ file # NoFile /\ file.path \in Paths
    BY <1>0, <1>6 DEF writefile
  <2>2. PICK n \in 0 .. wanted :
          /\ disk' = [disk EXCEPT ![file.path] =
                        Contents(Overwritten(disk[file.path].data, file.pos, SubSeq(text, 1, n)))]
          /\ MoveTo(file.pos + n, file.expected + wanted, file.short \/ n < wanted)
    BY <1>0, <1>6, <2>1 DEF writefile
  <2>3. text \in Seq(Bytes) /\ Len(text) \in Nat /\ wanted \in 0 .. Len(text) /\ size \in Nat
    BY TextsAreSequences, LenProperties, FilesAssumption
  <2> HIDE DEF wanted
  <2>4. SubSeq(text, 1, n) \in Seq(Bytes)
    <3>1. \A i \in 1 .. n : text[i] \in Bytes
      BY <2>3, ElementOfSeq
    <3>2. 1 \in Int /\ n \in Int
      BY <2>3
    <3> QED
      BY <3>1, <3>2, SubSeqProperties
  <2>5. disk' \in [Paths -> Entry]
    <3>1. disk[file.path].data \in Seq(Bytes) /\ file.pos \in Nat
      BY <1>0, <2>1 DEF Entry, FileType
    <3>2. Contents(Overwritten(disk[file.path].data, file.pos, SubSeq(text, 1, n))) \in Entry
      BY <2>4, <3>1, OverwrittenIsSequence, Entries
    <3> QED
      BY <1>0, <2>1, <2>2, <3>2
  <2>6. /\ file.pos + n \in Nat /\ file.expected + wanted \in Int
        /\ (file.short \/ n < wanted) \/ file.pos + n = file.expected + wanted
    BY <1>0, <2>3 DEF FileType, PositionKnown
  <2>7. (file.short \/ n < wanted) \in BOOLEAN
    OBVIOUS
  <2>8. file' \in FileType /\ file'.path \in Paths /\ PositionKnown'
    BY <2>1, <2>2, <2>6, <2>7, MoveToKeeps
  <2> QED
    BY <1>0, <2>1, <2>5, <2>8, IdleStep
<1>7. ASSUME NEW offset \in -1 .. 1, NEW whence \in {"SET", "CUR", "END"}, seekfile(offset, whence)
      PROVE  IInv'
  <2>1. Idle /\ UNCHANGED <<disk, call, open>> /\ file # NoFile
    BY <1>7 DEF seekfile
  <2>2. CASE whence = "CUR"
    <3>1. /\ MoveTo(file.pos + offset, file.expected + offset, file.short)
          /\ file.pos + offset \in 0 .. MaxLength
      BY <1>7, <2>2 DEF seekfile
    <3>2. /\ file.pos + offset \in Nat /\ file.expected + offset \in Int /\ file.short \in BOOLEAN
          /\ file.short \/ file.pos + offset = file.expected + offset
      BY <1>0, <3>1, FilesAssumption DEF FileType, PositionKnown
    <3>3. file' \in FileType /\ file'.path \in Paths /\ PositionKnown'
      BY <2>1, <3>1, <3>2, MoveToKeeps
    <3> QED
      BY <1>0, <2>1, <3>3, IdleStep
  <2>3. CASE whence # "CUR"
    <3>1. PICK pos \in 0 .. MaxLength : MoveTo(pos, pos, FALSE)
      BY <1>7, <2>3 DEF seekfile
    <3>2. pos \in Nat /\ pos \in Int
      BY FilesAssumption
    <3>3. file' \in FileType /\ file'.path \in Paths /\ PositionKnown'
      BY <2>1, <3>1, <3>2, MoveToKeeps
    <3> QED
      BY <1>0, <2>1, <3>3, IdleStep
  <2> QED
    BY <2>2, <2>3
<1>8. CASE sizefile
  <2>1. Idle /\ UNCHANGED <<disk, call, open>>
    BY <1>8 DEF sizefile
  <2>2. file' = file
    BY <1>0, <1>8 DEF sizefile, FileType
  <2> QED
    BY <1>0, <2>1, <2>2, IdleStep DEF PositionKnown
<1>9. CASE closefile
  <2>1. Idle /\ UNCHANGED <<disk, call, open>> /\ file' = NoFile
    BY <1>9 DEF closefile
  <2>2. NoFile \in FileType /\ NoFile.pos = NoFile.expected
    BY DEF NoFile, FileType
  <2> QED
    BY <1>0, <2>1, <2>2, IdleStep DEF PositionKnown
<1> QED
  BY <1>1, <1>2, <1>3, <1>4, <1>5, <1>6, <1>7, <1>8, <1>9 DEF Script

\* A copy keeps the script's descriptor.
LEMMA CopyStep ==
  ASSUME IInv, UNCHANGED file, ~Idle, call' \in CallType, disk' \in [Paths -> Entry],
         call'.source = call.source, call'.destination = call.destination
  PROVE  TypeOK' /\ PositionKnown'
BY DEF IInv, TypeOK, PositionKnown, CallType, FileType, Entry

\* A call that fails closes its descriptors, and claims nothing.
LEMMA FailsKeeps ==
  ASSUME IInv, ~Idle, call.at \notin {"return", "remove"}, Fails, UNCHANGED file,
         disk' \in [Paths -> Entry], TwoFiles => disk'[call.source] = disk[call.source]
  PROVE  IInv'
<1>0. call \in CallType
  BY DEF IInv, TypeOK
<1>1. call' \in CallType
  BY <1>0 DEF Fails, CallType
<1>2. /\ call'.at = "close" /\ call'.ret = -1 /\ call'.source = call.source
      /\ call'.destination = call.destination /\ call'.original = call.original
  BY <1>0 DEF Fails, CallType
<1>3. TypeOK' /\ PositionKnown'
  BY <1>1, <1>2, CopyStep
<1>4. SourceKept'
  BY <1>2 DEF IInv, SourceKept, TwoFiles, Idle
<1>5. Copied' /\ ReadWithin' /\ Descriptors'
  BY <1>2 DEF Copied, ReadWithin, Descriptors
<1> QED
  BY <1>3, <1>4, <1>5 DEF IInv

\* Every step of copyFile and moveFile preserves the invariant.
LEMMA ContinueStep == ASSUME IInv, Continue PROVE IInv'
<1>0. /\ disk \in [Paths -> Entry] /\ call \in CallType
      /\ ~Idle => call.source \in Paths /\ call.destination \in Paths
  BY DEF IInv, TypeOK
<1>g. ASSUME NEW a \in {"destination", "read", "close", "remove", "return"}, Goto(a)
      PROVE  /\ call' \in CallType /\ call'.at = a
             /\ call'.source = call.source /\ call'.destination = call.destination
             /\ call'.original = call.original /\ call'.pos = call.pos /\ call'.ret = call.ret
  <2>1. call' = [call EXCEPT !.at = a]
    BY <1>g DEF Goto
  <2>2. call' \in CallType
    BY <1>0, <2>1 DEF CallType
  <2> QED
    BY <1>0, <2>1, <2>2 DEF CallType
<1>m. ASSUME NEW a, Goto(a) PROVE call'.move = call.move
  BY <1>0, <1>m DEF Goto, CallType
<1>1. CASE OpenSource
  <2>1. call.at = "source" /\ ~Idle /\ UNCHANGED <<disk, file>> /\ call.pos = 0 /\ call.ret = 0
    BY <1>1 DEF OpenSource, Idle, IInv, Descriptors
  <2>2. CASE IsFile(call.source) /\ Goto("destination")
    <3>1. /\ call' \in CallType /\ call'.at = "destination"
          /\ call'.source = call.source /\ call'.destination = call.destination
          /\ call'.original = call.original /\ call'.pos = call.pos /\ call'.ret = call.ret
      BY <1>g, <2>2
    <3>2. TypeOK' /\ PositionKnown'
      BY <1>0, <2>1, <3>1, CopyStep
    <3>3. SourceKept' /\ Copied'
      BY <2>1, <2>2, <3>1 DEF IInv, SourceKept, Copied, TwoFiles, Idle, IsFile
    <3>4. ReadWithin' /\ Descriptors'
      BY <3>1 DEF ReadWithin, Descriptors
    <3> QED
      BY <3>2, <3>3, <3>4 DEF IInv
  <2>3. CASE Fails
    BY <1>0, <2>1, <2>3, FailsKeeps
  <2> QED
    BY <1>1, <2>2, <2>3 DEF OpenSource
<1>2. CASE OpenDestination
  <2>1. call.at = "destination" /\ ~Idle /\ UNCHANGED file
    BY <1>2 DEF OpenDestination, Idle
  <2>2. CASE /\ disk' = [disk EXCEPT ![call.destination] = Contents(<<>>)]
             /\ Goto("read")
    <3>1. /\ call' \in CallType /\ call'.at = "read"
          /\ call'.source = call.source /\ call'.destination = call.destination
          /\ call'.original = call.original /\ call'.pos = call.pos /\ call'.ret = call.ret
      BY <1>g, <2>2
    <3>2. /\ disk' \in [Paths -> Entry] /\ disk'[call.destination] = Contents(<<>>)
          /\ TwoFiles => disk'[call.source] = disk[call.source]
      BY <1>0, <2>1, <2>2, Entries, EmptySeq DEF TwoFiles
    <3>3. TypeOK' /\ PositionKnown'
      BY <2>1, <3>1, <3>2, CopyStep
    <3>4. SourceKept'
      BY <2>1, <3>1, <3>2 DEF IInv, SourceKept, TwoFiles, Idle
    <3>5. Copied'
      <4>1. SubSeq(call.original.data, 1, 0) = <<>>
        BY SubSeqEmpty
      <4>2. call.original.data \in Seq(Bytes)
        BY <1>0 DEF CallType, Entry
      <4>3. 0 <= Len(call.original.data)
        BY <4>2, LenProperties
      <4> QED
        BY <2>1, <3>1, <3>2, <4>1, <4>3 DEF IInv, Copied, TwoFiles, Idle
    <3>6. ReadWithin' /\ Descriptors'
      BY <3>1 DEF ReadWithin, Descriptors
    <3> QED
      BY <3>3, <3>4, <3>5, <3>6 DEF IInv
  <2>3. CASE Fails /\ UNCHANGED disk
    BY <1>0, <2>1, <2>3, FailsKeeps
  <2> QED
    BY <1>2, <2>2, <2>3 DEF OpenDestination
<1>3. CASE ReadChunk
  <2>1. call.at = "read" /\ ~Idle /\ UNCHANGED <<disk, file, open>>
    BY <1>3 DEF ReadChunk, Idle
  <2> DEFINE left == Len(disk[call.source].data) - call.pos
  <2>2. ASSUME NEW n \in 1 .. Chunk, n <= left, call' = [call EXCEPT !.at = "write", !.n = n]
        PROVE  IInv'
    <3>0. n \in Nat
      BY FilesAssumption
    <3>1. call' \in CallType
      BY <1>0, <2>2, <3>0 DEF CallType
    <3>2. /\ call'.at = "write" /\ call'.n = n
          /\ call'.source = call.source /\ call'.destination = call.destination
          /\ call'.original = call.original /\ call'.pos = call.pos /\ call'.ret = call.ret
      BY <1>0, <2>2 DEF CallType
    <3>3. TypeOK' /\ PositionKnown'
      BY <1>0, <2>1, <3>1, <3>2, CopyStep
    <3>4. SourceKept' /\ Descriptors'
      BY <2>1, <3>2 DEF IInv, SourceKept, TwoFiles, Idle, Descriptors
    <3>5. Copied'
      BY <2>1, <3>2 DEF IInv, Copied, TwoFiles, Idle
    <3>6. ReadWithin'
      <4>1. disk[call.source].data \in Seq(Bytes) /\ call.pos \in Nat
        BY <1>0, <2>1 DEF CallType, Entry
      <4>2. Len(disk[call.source].data) \in Nat
        BY <4>1, LenProperties
      <4> QED
        BY <2>1, <2>2, <3>0, <3>2, <4>1, <4>2 DEF ReadWithin
    <3> QED
      BY <3>3, <3>4, <3>5, <3>6 DEF IInv
  <2>3. CASE left <= 0 /\ Goto("close")
    <3>1. /\ call' \in CallType /\ call'.at = "close"
          /\ call'.source = call.source /\ call'.destination = call.destination
          /\ call'.original = call.original /\ call'.pos = call.pos /\ call'.ret = call.ret
      BY <1>g, <2>3
    <3>2. TypeOK' /\ PositionKnown'
      BY <1>0, <2>1, <3>1, CopyStep
    <3>3. SourceKept' /\ ReadWithin' /\ Descriptors'
      BY <2>1, <3>1 DEF IInv, SourceKept, ReadWithin, TwoFiles, Idle, Descriptors
    <3>4. Copied'
      <4>1. TwoFiles => disk[call.source] = call.original
        BY <2>1 DEF IInv, SourceKept
      <4>2. call.original \in Entry /\ call.original.data \in Seq(Bytes) /\ call.pos \in Nat
        BY <1>0 DEF CallType, Entry
      <4>3. Len(call.original.data) \in Nat
        BY <4>2, LenProperties
      <4>4. TwoFiles => call.pos = Len(call.original.data)
        BY <2>1, <2>3, <4>1, <4>2, <4>3 DEF IInv, Copied
      <4>5. SubSeq(call.original.data, 1, Len(call.original.data)) = call.original.data
        BY <4>2, SubSeqFull
      <4>6. TwoFiles => disk[call.destination] = Contents(call.original.data)
                        /\ call.original.type = "file"
        BY <2>1, <4>4, <4>5 DEF IInv, Copied
      <4>7. call.original.type = "file" => Contents(call.original.data) = call.original
        BY <4>2 DEF Entry, Contents
      <4> QED
        BY <2>1, <3>1, <4>6, <4>7 DEF Copied, TwoFiles, Idle
    <3> QED
      BY <3>2, <3>3, <3>4 DEF IInv
  <2>4. CASE Fails
    BY <1>0, <2>1, <2>4, FailsKeeps
  <2> QED
    BY <1>3, <2>2, <2>3, <2>4 DEF ReadChunk
<1>4. CASE WriteChunk
  <2>1. call.at = "write" /\ ~Idle /\ UNCHANGED <<file, open>>
    BY <1>4 DEF WriteChunk, Idle
  <2>2. call.pos \in Nat /\ call.n \in Nat /\ call.original.data \in Seq(Bytes)
    BY <1>0 DEF CallType, Entry
  <2>3. /\ call.pos + call.n <= Len(disk[call.source].data)
        /\ TwoFiles => /\ disk[call.source] = call.original
                       /\ disk[call.destination] = Contents(SubSeq(call.original.data, 1, call.pos))
    BY <2>1 DEF IInv, SourceKept, Copied, ReadWithin
  <2>4. ASSUME NEW k \in 0 .. call.n, Arrive(k)
        PROVE  /\ disk' \in [Paths -> Entry]
               /\ TwoFiles => /\ disk'[call.source] = disk[call.source]
                              /\ disk'[call.destination] =
                                   Contents(SubSeq(call.original.data, 1, call.pos + k))
    <3> DEFINE src == disk[call.source].data
               new == disk[call.destination].data \o SubSeq(src, call.pos + 1, call.pos + k)
    <3>1. disk' = [disk EXCEPT ![call.destination] = Contents(new)]
      BY <1>0, <2>1, <2>4 DEF Arrive
    <3>2. src \in Seq(Bytes) /\ disk[call.destination].data \in Seq(Bytes)
      BY <1>0, <2>1 DEF Entry
    <3>3. SubSeq(src, call.pos + 1, call.pos + k) \in Seq(Bytes)
      <4>1. Len(src) \in Nat /\ call.pos + 1 \in Int /\ call.pos + k \in Int
        BY <2>2, <3>2, LenProperties
      <4>2. \A i \in call.pos + 1 .. call.pos + k : i \in 1 .. Len(src)
        BY <2>2, <2>3, <4>1
      <4> HIDE DEF src
      <4>3. \A i \in call.pos + 1 .. call.pos + k : src[i] \in Bytes
        BY <3>2, <4>2, ElementOfSeq
      <4> QED
        BY <4>1, <4>3, SubSeqProperties
    <3>4. new \in Seq(Bytes)
      BY <3>2, <3>3, ConcatProperties
    <3>5. disk' \in [Paths -> Entry]
      <4> HIDE DEF new
      <4> QED
        BY <1>0, <2>1, <3>1, <3>4, Entries
    <3>6. ASSUME TwoFiles
          PROVE  disk'[call.destination] = Contents(SubSeq(call.original.data, 1, call.pos + k))
      <4>1. src = call.original.data /\ Len(src) \in Nat
            /\ disk[call.destination].data = SubSeq(src, 1, call.pos)
        BY <2>3, <3>2, <3>6, LenProperties DEF Contents
      <4>2. new = SubSeq(src, 1, call.pos) \o SubSeq(src, call.pos + 1, call.pos + k)
        BY <4>1
      <4>3. /\ 1 \in 1 .. Len(src) + 1 /\ call.pos \in 1 - 1 .. Len(src)
            /\ call.pos + k \in call.pos .. Len(src)
        BY <2>2, <2>3, <3>6, <4>1
      <4> HIDE DEF src, new
      <4>4. new = SubSeq(src, 1, call.pos + k)
        BY <3>2, <4>2, <4>3, ConcatAdjacentSubSeq
      <4> QED
        BY <1>0, <2>1, <3>1, <4>1, <4>4
    <3>7. TwoFiles => disk'[call.source] = disk[call.source]
      BY <1>0, <2>1, <3>1 DEF TwoFiles
    <3> QED
      BY <3>5, <3>6, <3>7
  <2>5. CASE Arrive(call.n) /\ call' = [call EXCEPT !.at = "read", !.pos = @ + call.n]
    <3>0. call.pos + call.n \in Nat
      BY <2>2
    <3>1. call' \in CallType
      BY <1>0, <2>5, <3>0 DEF CallType
    <3>2. /\ call'.at = "read" /\ call'.pos = call.pos + call.n
          /\ call'.source = call.source /\ call'.destination = call.destination
          /\ call'.original = call.original /\ call'.ret = call.ret
      BY <1>0, <2>5 DEF CallType
    <3>3. /\ disk' \in [Paths -> Entry]
          /\ TwoFiles => /\ disk'[call.source] = disk[call.source]
                         /\ disk'[call.destination] =
                              Contents(SubSeq(call.original.data, 1, call.pos + call.n))
      BY <2>2, <2>4, <2>5
    <3>4. TypeOK' /\ PositionKnown'
      BY <2>1, <3>1, <3>2, <3>3, CopyStep
    <3>5. SourceKept' /\ ReadWithin' /\ Descriptors'
      BY <2>1, <2>3, <3>2, <3>3 DEF SourceKept, ReadWithin, TwoFiles, Idle, Descriptors
    <3>6. Copied'
      BY <2>1, <2>3, <3>2, <3>3 DEF IInv, Copied, TwoFiles, Idle
    <3> QED
      BY <3>4, <3>5, <3>6 DEF IInv
  <2>6. ASSUME NEW k \in 0 .. call.n - 1, Arrive(k), Fails PROVE IInv'
    <3>1. k \in 0 .. call.n
      BY <2>2
    <3> QED
      BY <2>1, <2>4, <2>6, <3>1, FailsKeeps
  <2> QED
    BY <1>4, <2>5, <2>6 DEF WriteChunk
<1>5. CASE Close
  <2>1. /\ call.at = "close" /\ ~Idle /\ UNCHANGED <<disk, file>> /\ open' = {}
        /\ \E a \in {"remove", "return"} : Goto(a) /\ (a = "remove" => call.move /\ call.ret = 0)
                                          /\ (a = "return" => ~call.move \/ call.ret # 0)
    BY <1>5 DEF Close, Idle
  <2>2. PICK a \in {"remove", "return"} :
          Goto(a) /\ (a = "remove" => call.move /\ call.ret = 0)
                  /\ (a = "return" => ~call.move \/ call.ret # 0)
    BY <2>1
  <2>3. /\ call' \in CallType /\ call'.at = a
        /\ call'.source = call.source /\ call'.destination = call.destination
        /\ call'.original = call.original /\ call'.pos = call.pos /\ call'.ret = call.ret
    BY <1>g, <2>2
  <2>4. call'.move = call.move
    BY <1>m, <2>2
  <2>5. TypeOK' /\ PositionKnown'
    BY <1>0, <2>1, <2>3, CopyStep
  <2>6. SourceKept'
    BY <2>1, <2>3 DEF IInv, SourceKept, TwoFiles, Idle
  <2>7. Copied'
    BY <2>1, <2>3 DEF IInv, Copied, TwoFiles, Idle
  <2>8. ReadWithin' /\ Descriptors'
    BY <2>1, <2>2, <2>3, <2>4 DEF ReadWithin, Descriptors
  <2> QED
    BY <2>5, <2>6, <2>7, <2>8 DEF IInv
<1>6. CASE RemoveSource
  <2>1. /\ call.at = "remove" /\ ~Idle /\ UNCHANGED <<file, open>> /\ open = {}
        /\ call.move /\ call.ret = 0
    BY <1>6 DEF RemoveSource, Idle, IInv, Descriptors
  <2>2. CASE disk' = [disk EXCEPT ![call.source] = Absent] /\ Goto("return")
    <3>1. /\ call' \in CallType /\ call'.at = "return"
          /\ call'.source = call.source /\ call'.destination = call.destination
          /\ call'.original = call.original /\ call'.pos = call.pos /\ call'.ret = call.ret
      BY <1>g, <2>2
    <3>2. call'.move
      BY <1>m, <2>1, <2>2
    <3>3. /\ disk' \in [Paths -> Entry]
          /\ TwoFiles => disk'[call.destination] = disk[call.destination]
      BY <1>0, <2>1, <2>2, Entries DEF TwoFiles
    <3>4. TypeOK' /\ PositionKnown'
      BY <1>0, <2>1, <3>1, <3>3, CopyStep
    <3>5. SourceKept' /\ ReadWithin' /\ Descriptors'
      BY <2>1, <3>1, <3>2 DEF SourceKept, ReadWithin, Descriptors
    <3>6. Copied'
      BY <2>1, <3>1, <3>3 DEF IInv, Copied, TwoFiles, Idle
    <3> QED
      BY <3>4, <3>5, <3>6 DEF IInv
  <2>3. CASE call' = [call EXCEPT !.at = "return", !.ret = -1] /\ UNCHANGED disk
    <3>1. call' \in CallType
      BY <1>0, <2>3 DEF CallType
    <3>2. /\ call'.at = "return" /\ call'.ret = -1
          /\ call'.source = call.source /\ call'.destination = call.destination
          /\ call'.original = call.original
      BY <1>0, <2>3 DEF CallType
    <3>3. TypeOK' /\ PositionKnown'
      BY <1>0, <2>1, <2>3, <3>1, <3>2, CopyStep
    <3>4. SourceKept'
      BY <2>1, <2>3, <3>2 DEF IInv, SourceKept, TwoFiles, Idle
    <3>5. Copied' /\ ReadWithin' /\ Descriptors'
      BY <2>1, <3>2 DEF Copied, ReadWithin, Descriptors
    <3> QED
      BY <3>3, <3>4, <3>5 DEF IInv
  <2> QED
    BY <1>6, <2>2, <2>3 DEF RemoveSource
<1>7. CASE Return
  <2>1. call.at = "return" /\ call' = NoCall /\ UNCHANGED <<disk, file, open>> /\ open = {}
    BY <1>7 DEF Return, IInv, Descriptors
  <2>2. NoCall \in CallType /\ NoCall.at = "idle"
    BY Entries DEF NoCall, CallType
  <2>3. TypeOK'
    BY <2>1, <2>2 DEF IInv, TypeOK, Idle, CallType, FileType, Entry
  <2>4. SourceKept' /\ Copied' /\ ReadWithin' /\ Descriptors'
    BY <2>1, <2>2 DEF SourceKept, Copied, ReadWithin, TwoFiles, Idle, Descriptors
  <2>5. PositionKnown'
    BY <2>1 DEF IInv, PositionKnown
  <2> QED
    BY <2>3, <2>4, <2>5 DEF IInv
<1> QED
  BY <1>1, <1>2, <1>3, <1>4, <1>5, <1>6, <1>7 DEF Continue

\* The inductive invariant holds in every reachable state.
THEOREM Invariance == Spec => []IInv
<1>1. Init => IInv
  <2> SUFFICES ASSUME Init PROVE IInv
    OBVIOUS
  <2>1. disk \in [Paths -> Entry]
    <3>1. \A data \in Texts : Contents(data) \in Entry
      BY Entries, TextsAreSequences
    <3> QED
      BY <3>1, Entries DEF Init
  <2>2. NoCall \in CallType /\ NoCall.at = "idle"
    BY Entries DEF NoCall, CallType
  <2>3. NoFile \in FileType /\ NoFile.pos = NoFile.expected
    BY DEF NoFile, FileType
  <2>4. TypeOK
    BY <2>1, <2>2, <2>3 DEF Init, TypeOK, Idle
  <2>5. SourceKept /\ Copied /\ ReadWithin /\ Descriptors
    BY <2>2 DEF Init, SourceKept, Copied, ReadWithin, TwoFiles, Idle, Descriptors
  <2>6. PositionKnown
    BY <2>3 DEF Init, PositionKnown
  <2> QED
    BY <2>4, <2>5, <2>6 DEF IInv
<1>2. IInv /\ [Next]_vars => IInv'
  <2> SUFFICES ASSUME IInv, [Next]_vars PROVE IInv'
    OBVIOUS
  <2>1. CASE Next
    BY <2>1, ScriptStep, ContinueStep DEF Next
  <2>2. CASE UNCHANGED vars
    <3> USE <2>2 DEF vars, IInv
    <3>1. TypeOK'
      BY DEF TypeOK, Idle, Entry, CallType, FileType
    <3>2. SourceKept' /\ Copied' /\ ReadWithin'
      BY DEF SourceKept, Copied, ReadWithin, TwoFiles, Idle
    <3>3. Descriptors' /\ PositionKnown'
      BY DEF Descriptors, PositionKnown
    <3> QED
      BY <3>1, <3>2, <3>3
  <2> QED
    BY <2>1, <2>2
<1> QED
  BY <1>1, <1>2, PTL DEF Spec

-----------------------------------------------------------------------------
(* What follows from it *)

\* copyFile and moveFile between two files lose nothing, whatever fails and for every
\* length of the file and size of the buffer, and leave no descriptor behind.
THEOREM CopyLosesNothing == Spec => []NothingLost
<1>1. IInv => NothingLost
  <2> SUFFICES ASSUME IInv PROVE NothingLost
    OBVIOUS
  <2>1. ASSUME TwoFiles, ~call.move \/ call.at # "return" \/ call.ret < 0
        PROVE  disk[call.source] = call.original
    BY <2>1 DEF IInv, SourceKept
  <2>2. ASSUME TwoFiles, call.at \in {"remove", "return"}, call.ret = 0
        PROVE  disk[call.destination] = call.original /\ open = {}
    BY <2>2 DEF IInv, Copied, Descriptors
  <2>3. Idle => open = {}
    BY DEF IInv, Descriptors, Idle
  <2> QED
    BY <2>1, <2>2, <2>3 DEF NothingLost
<1> QED
  BY <1>1, Invariance, PTL

\* Only a short write, which writeFile does not report, makes a script lose track of
\* its position; readFile, seekFile and sizeFile never do.
THEOREM ScriptKnowsPosition == Spec => []PositionKnown
<1>1. IInv => PositionKnown
  BY DEF IInv
<1> QED
  BY <1>1, Invariance, PTL

-----------------------------------------------------------------------------
(* Every copy comes to its end *)

\* What the loop of two_path() goes by: the position is in the source, a file that is
\* copied onto itself was emptied before it is read, and a chunk has at least one byte.
Onward ==
  /\ call.at \in {"source", "destination"} => call.pos = 0
  /\ call.at \in {"read", "write"} =>
       /\ call.pos <= Len(disk[call.source].data)
       /\ call.source = call.destination => disk[call.source].data = <<>>
  /\ call.at = "write" => call.n > 0

\* A bound on the calls of the file system still ahead of a copy, from the bytes that are
\* still to be copied.
StepsLeft ==
  LET left == Len(disk[call.source].data) - call.pos
  IN CASE call.at = "source" -> 2 * left + 7
       [] call.at = "destination" -> 2 * left + 6
       [] call.at = "read" -> 2 * left + 5
       [] call.at = "write" -> 2 * left + 4
       [] call.at = "close" -> 3
       [] call.at = "remove" -> 2
       [] call.at = "return" -> 1
       [] OTHER -> 0

\* It is a number of steps, in the middle of a copy and between copies.
StepsCount == StepsLeft \in Nat

\* Every call of the file system that two_path() makes lowers it.
CopyShortens == [][Continue => StepsLeft' < StepsLeft]_vars

\* The bound is a number of steps.
LEMMA StepsAreCounted == IInv /\ Onward => StepsCount
<1> SUFFICES ASSUME IInv, Onward PROVE StepsCount
  OBVIOUS
<1>0. disk \in [Paths -> Entry] /\ call \in CallType /\ (Idle \/ call.source \in Paths)
  BY DEF IInv, TypeOK
<1>1. CASE Idle
  BY <1>1 DEF Idle, StepsCount, StepsLeft
<1>2. CASE ~Idle
  <2>1. Len(disk[call.source].data) \in Nat /\ call.pos \in Nat
    BY <1>0, <1>2, LenProperties DEF Entry, CallType
  <2> DEFINE left == Len(disk[call.source].data) - call.pos
  <2>2. call.at \in {"source", "destination", "read", "write"} => left \in Nat
    BY <2>1 DEF Onward
  <2> HIDE DEF left
  <2>3. StepsLeft \in {2 * left + k : k \in 4 .. 7} \/ StepsLeft \in 0 .. 3
    BY DEF StepsLeft, left
  <2>4. CASE call.at \in {"source", "destination", "read", "write"}
    BY <2>2, <2>3, <2>4 DEF StepsCount
  <2>5. CASE call.at \notin {"source", "destination", "read", "write"}
    BY <2>5 DEF StepsCount, StepsLeft
  <2> QED
    BY <2>4, <2>5
<1> QED
  BY <1>1, <1>2

\* Every call of the file system in a copy keeps this and takes the copy nearer to its end.
LEMMA CopyGoesOn ==
  ASSUME IInv, IInv', Onward, Continue PROVE Onward' /\ StepsLeft' < StepsLeft
<1> DEFINE size == Len(disk[call.source].data)
<1>0. ~Idle /\ disk \in [Paths -> Entry] /\ call \in CallType
      /\ call.source \in Paths /\ call.destination \in Paths
  BY DEF IInv, TypeOK, Idle, Continue, OpenSource, OpenDestination, ReadChunk, WriteChunk, Close,
         RemoveSource, Return
<1>s. size \in Nat /\ call.pos \in Nat /\ call.n \in Nat
  BY <1>0, LenProperties DEF Entry, CallType
<1>f. ASSUME Fails PROVE call'.at = "close"
  BY <1>0, <1>f DEF Fails, CallType
<1>g. ASSUME NEW a, Goto(a)
      PROVE  /\ call'.at = a /\ call'.source = call.source /\ call'.pos = call.pos
             /\ call'.destination = call.destination
  BY <1>0, <1>g DEF Goto, CallType
<1> USE DEF Onward, StepsLeft
<1>c. ASSUME call.at \in {"read", "write"}, call'.at = "close"
      PROVE  Onward' /\ StepsLeft' < StepsLeft
  <2>1. Onward' /\ StepsLeft' = 3
    BY <1>c
  <2>2. call.pos <= size
    BY <1>c
  <2>3. StepsLeft = 2 * (size - call.pos) + 5 \/ StepsLeft = 2 * (size - call.pos) + 4
    BY <1>c
  <2> HIDE DEF size, Onward, StepsLeft
  <2>4. StepsLeft' < StepsLeft
    BY <1>s, <2>1, <2>2, <2>3
  <2> QED
    BY <2>1, <2>4
<1>1. CASE OpenSource
  <2>0. call.at = "source" /\ call.pos = 0 /\ UNCHANGED disk
    BY <1>1 DEF OpenSource
  <2>1. CASE Fails
    BY <1>f, <1>s, <2>0, <2>1
  <2>2. CASE Goto("destination")
    BY <1>g, <1>s, <2>0, <2>2
  <2> QED
    BY <1>1, <2>1, <2>2 DEF OpenSource
<1>2. CASE OpenDestination
  <2>0. call.at = "destination" /\ call.pos = 0
    BY <1>2 DEF OpenDestination
  <2>1. CASE Fails
    BY <1>f, <1>s, <2>0, <2>1
  <2>2. CASE ~Fails
    <3>1. /\ call'.at = "read" /\ call'.source = call.source /\ call'.pos = 0
          /\ call'.destination = call.destination
      BY <1>2, <1>g, <2>0, <2>2 DEF OpenDestination
    <3>2. disk'[call.source].data = IF call.source = call.destination THEN <<>> ELSE disk[call.source].data
      BY <1>0, <1>2, <2>2 DEF OpenDestination, Contents
    <3>3. Len(<<>>) = 0
      OBVIOUS
    <3> HIDE DEF StepsLeft
    <3>4. Onward'
      BY <1>s, <3>1, <3>2, <3>3
    <3>5. StepsLeft' < StepsLeft
      BY <1>s, <2>0, <3>1, <3>2, <3>3 DEF StepsLeft
    <3> QED
      BY <3>4, <3>5
  <2> QED
    BY <2>1, <2>2
<1>3. CASE ReadChunk
  <2>0. call.at = "read" /\ UNCHANGED disk
    BY <1>3 DEF ReadChunk
  <2>1. CASE Fails \/ Goto("close")
    BY <1>c, <1>f, <1>g, <2>0, <2>1
  <2>2. CASE ~(Fails \/ Goto("close"))
    <3>1. PICK n \in 1 .. Chunk : call' = [call EXCEPT !.at = "write", !.n = n]
      BY <1>3, <2>2 DEF ReadChunk
    <3>2. /\ call'.at = "write" /\ call'.n = n /\ call'.source = call.source
          /\ call'.pos = call.pos /\ call'.destination = call.destination
      BY <1>0, <3>1 DEF CallType
    <3>3. Onward'
      BY <1>s, <2>0, <3>2, FilesAssumption
    <3>4. StepsLeft' = 2 * (size - call.pos) + 4 /\ StepsLeft = 2 * (size - call.pos) + 5
      BY <2>0, <3>2
    <3> HIDE DEF size, Onward, StepsLeft
    <3>5. StepsLeft' < StepsLeft
      BY <1>s, <3>4
    <3> QED
      BY <3>3, <3>5
  <2> QED
    BY <2>1, <2>2
<1>4. CASE WriteChunk
  <2>0. call.at = "write" /\ call.n > 0 /\ call.pos + call.n <= size
    BY <1>4 DEF WriteChunk, IInv, ReadWithin
  <2>1. call.source # call.destination
    BY <1>s, <2>0
  <2>2. CASE Fails
    BY <1>c, <1>f, <2>0, <2>2
  <2>3. CASE ~Fails
    <3>1. Arrive(call.n) /\ call' = [call EXCEPT !.at = "read", !.pos = @ + call.n]
      BY <1>4, <2>3 DEF WriteChunk
    <3>2. disk'[call.source] = disk[call.source]
      BY <1>0, <2>1, <3>1 DEF Arrive
    <3>3. /\ call'.at = "read" /\ call'.pos = call.pos + call.n
          /\ call'.source = call.source /\ call'.destination = call.destination
      BY <1>0, <3>1 DEF CallType
    <3>4. Onward'
      BY <1>s, <2>0, <2>1, <3>2, <3>3
    <3>5. StepsLeft' = 2 * (size - (call.pos + call.n)) + 5 /\ StepsLeft = 2 * (size - call.pos) + 4
      BY <2>0, <3>2, <3>3
    <3> HIDE DEF size, Onward, StepsLeft
    <3>6. StepsLeft' < StepsLeft
      BY <1>s, <2>0, <3>5
    <3> QED
      BY <3>4, <3>6
  <2> QED
    BY <2>2, <2>3
<1>5. CASE Close
  BY <1>5, <1>g DEF Close
<1>6. CASE RemoveSource
  <2>1. call.at = "remove" /\ call'.at = "return"
    BY <1>0, <1>6, <1>g DEF RemoveSource, CallType
  <2> QED
    BY <2>1
<1>7. CASE Return
  <2>1. call.at = "return" /\ call'.at = "idle"
    BY <1>7 DEF Return, NoCall
  <2> QED
    BY <2>1
<1> QED
  BY <1>1, <1>2, <1>3, <1>4, <1>5, <1>6, <1>7 DEF Continue

\* The position stays in the source in every reachable state.
LEMMA OnwardInvariance == Spec => [](IInv /\ Onward)
<1>1. Init => Onward
  BY DEF Init, Onward, NoCall
<1>2. ASSUME IInv, IInv', Onward, [Next]_vars PROVE Onward'
  <2>1. CASE Script
    <3>1. Idle
      BY <2>1 DEF Script, one_path, openfile, rename, two_path, readfile, writefile, seekfile,
                  sizefile, closefile
    <3>2. CASE call' = call
      BY <3>1, <3>2 DEF Onward, Idle
    <3>3. CASE call' # call
      <4>1. PICK s, d \in Paths, move \in BOOLEAN : two_path(s, d, move)
        BY <2>1, <3>3 DEF Script, one_path, openfile, rename, readfile, writefile, seekfile,
                          sizefile, closefile
      <4>2. call'.at = "source" /\ call'.pos = 0
        BY <4>1 DEF two_path, NoCall
      <4> QED
        BY <4>2 DEF Onward
    <3> QED
      BY <3>2, <3>3
  <2>2. CASE Continue
    BY <1>2, <2>2, CopyGoesOn
  <2>3. CASE UNCHANGED vars
    BY <1>2, <2>3 DEF vars, Onward
  <2> QED
    BY <1>2, <2>1, <2>2, <2>3 DEF Next
<1> QED
  BY <1>1, <1>2, Invariance, PTL DEF Spec

\* copyFile and moveFile make at most StepsLeft further calls of the file system, seven and
\* two for every byte of the file at the start: the bound is a natural number in every
\* reachable state and falls with every call they make, also for a file that is copied onto
\* itself.
THEOREM CopiesEnd == Spec => []StepsCount /\ CopyShortens
<1>1. ASSUME IInv, IInv', Onward, [Next]_vars PROVE [Continue => StepsLeft' < StepsLeft]_vars
  BY <1>1, CopyGoesOn
<1> QED
  BY <1>1, OnwardInvariance, StepsAreCounted, PTL DEF Spec, CopyShortens

=============================================================================
