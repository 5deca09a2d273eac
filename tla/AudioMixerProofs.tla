-------------------------- MODULE AudioMixerProofs --------------------------
(***************************************************************************)
(* Proofs about AudioMixer, for every number of clips, voices and streams, *)
(* every grain and every length of clip.                                   *)
(***************************************************************************)
EXTENDS AudioMixer, TLAPS

(* Facts about the operators the actions are built from *)

\* The calls recorded in call are calls, and their ids index the right table.
LEMMA CallFacts ==
  /\ NoCall \in CallType /\ TermCall \in CallType
  /\ \A c \in CallType :
       /\ c.loop \in BOOLEAN
       /\ c.op \in {"free", "play"} => c.id \in ClipIds
       /\ c.op \in {"close_stream", "play_stream", "pause_stream", "resume_stream",
                    "stop_stream"} => c.id \in StreamIds
       /\ c.op = "stop" => c.id \in VoiceIds
  BY DEF CallType, NoCall, TermCall, ClipOps, StreamOps

\* What a script may call is a call.
LEMMA CallTypeIntro ==
  ASSUME NEW op \in Ops, NEW id \in Ids(op), NEW loop \in BOOLEAN
  PROVE  [op |-> op, id |-> id, loop |-> loop] \in CallType
<1>1. /\ op \in ClipOps => id \in ClipIds
      /\ op \in StreamOps => id \in StreamIds
      /\ op = "stop" => id \in VoiceIds
      /\ id \in Nat
  BY MixerAssumption DEF Ids, ClipOps, StreamOps, ClipIds, StreamIds, VoiceIds
<1> QED
  BY <1>1 DEF CallType

\* What the actions store in a voice or a stream is a voice or a stream.
LEMMA RecordUpdates ==
  /\ \A c \in ClipIds \cup {-1} : VoiceReset(c) \in VoiceType
  /\ StreamReset \in StreamType
  /\ \A f \in Files : [StreamReset EXCEPT !.file = f] \in StreamType
  /\ \A c \in ClipIds, b \in BOOLEAN :
       [active |-> TRUE, clip |-> c, pos |-> 0, loop |-> b] \in VoiceType
  /\ \A w \in VoiceType, b \in BOOLEAN, c \in ClipIds \cup {-1}, n \in Nat :
       /\ [w EXCEPT !.active = b] \in VoiceType
       /\ [w EXCEPT !.pos = n] \in VoiceType
       /\ [w EXCEPT !.active = b, !.clip = c, !.pos = n] \in VoiceType
  /\ \A t \in StreamType, b \in BOOLEAN, d \in BOOLEAN, e \in BOOLEAN :
       /\ [t EXCEPT !.playing = b] \in StreamType
       /\ [t EXCEPT !.paused = d] \in StreamType
       /\ [t EXCEPT !.playing = b, !.paused = d] \in StreamType
       /\ [t EXCEPT !.playing = b, !.paused = d, !.loop = e] \in StreamType
  BY DEF VoiceReset, StreamReset, VoiceType, StreamType

\* One frame of a voice keeps its clip and its loop flag, never wakes it up, and
\* leaves it within the clip.
LEMMA MixVoiceFacts ==
  ASSUME TableTypes, NEW v \in VoiceIds
  PROVE  /\ MixVoice(v) \in VoiceType
         /\ MixVoice(v).clip = voices[v].clip
         /\ MixVoice(v).loop = voices[v].loop
         /\ MixVoice(v).active => voices[v].active
         /\ MixVoice(v).active =>
              \/ MixVoice(v).pos = voices[v].pos + 1
              \/ voices[v].loop /\ MixVoice(v).pos = 1
         /\ MixVoice(v).active => MixVoice(v).pos <= BufFrames[clips[voices[v].clip]]
<1> DEFINE c == voices[v].clip
           n == BufFrames[clips[c]]
<1>1. voices[v] \in VoiceType
  BY DEF TableTypes
<1>2. CASE ~voices[v].active \/ c \notin ClipIds \/ clips[c] = None
  BY <1>1, <1>2 DEF MixVoice, VoiceType
<1>3. CASE voices[v].active /\ c \in ClipIds /\ clips[c] # None
  <2>1. n \in Nat
    BY <1>3, MixerAssumption DEF TableTypes
  <2>2. CASE voices[v].pos < n
    <3>1. MixVoice(v) = [voices[v] EXCEPT !.pos = voices[v].pos + 1]
      BY <1>1, <1>3, <2>2 DEF MixVoice, VoiceType
    <3> QED
      BY <1>1, <2>1, <2>2, <3>1 DEF VoiceType
  <2>3. CASE ~(voices[v].pos < n) /\ voices[v].loop /\ n # 0
    <3>1. MixVoice(v) = [voices[v] EXCEPT !.pos = 1]
      BY <1>3, <2>3 DEF MixVoice
    <3>2. 1 <= n
      BY <2>1, <2>3
    <3>3. /\ MixVoice(v) \in VoiceType
          /\ MixVoice(v).clip = c /\ MixVoice(v).loop = voices[v].loop
          /\ MixVoice(v).active = voices[v].active /\ MixVoice(v).pos = 1
      BY <1>1, <3>1 DEF VoiceType
    <3> QED
      BY <1>3, <2>3, <3>2, <3>3
  <2>4. CASE ~(voices[v].pos < n) /\ ~(voices[v].loop /\ n # 0)
    <3>1. MixVoice(v) = [voices[v] EXCEPT !.active = FALSE]
      BY <1>3, <2>4 DEF MixVoice
    <3> QED
      BY <1>1, <3>1 DEF VoiceType
  <2> QED
    BY <2>2, <2>3, <2>4
<1> QED
  BY <1>2, <1>3

\* One frame of a stream never changes which file it reads.
LEMMA MixStreamFacts ==
  ASSUME TableTypes, NEW s \in StreamIds, NEW t \in MixStream(s)
  PROVE  t \in StreamType /\ t.file = streams[s].file
  BY DEF TableTypes, MixStream, StreamType

(* Type correctness *)

\* Flags, program counter and frame count of the mixer keep their types.
LEMMA LifeTypesStep == ASSUME LifeTypes, Next PROVE LifeTypes'
<1> USE MixerAssumption DEF LifeTypes, life, mix
<1>1. CASE Begin
  BY <1>1 DEF Begin, CallEnsuring, CallGuarded
<1>2. CASE Ensure
  BY <1>2 DEF Ensure, EnsureMutex, EnsurePort, EnsureReset, EnsureCreate, EnsurePublish
<1>3. CASE Unlocked
  BY <1>3 DEF Unlocked, LoadClip, LoadDrop, OpenFile, OpenDrop
<1>4. CASE Critical
  BY <1>4 DEF Critical, loadwav, freewav, play, stop, stopall, masterm, voicevol,
      streamvol, streamseek, StoreOnly, openstream, closestream, playstream,
      pausestream, resumestream, stopstream
<1>5. CASE TermStop \/ Term
  BY <1>5 DEF TermStop, Term, TermJoin, TermFree, TermRelease
<1>6. CASE MixFrame
  BY <1>6 DEF MixFrame
<1>7. CASE MixerCheck
  BY <1>7 DEF MixerCheck
<1>8. CASE MixerLock
  BY <1>8 DEF MixerLock
<1>9. CASE MixerUnlock \/ MixerOutput
  BY <1>9 DEF MixerUnlock, MixerOutput
<1> QED
  BY <1>1, <1>2, <1>3, <1>4, <1>5, <1>6, <1>7, <1>8, <1>9 DEF Next, Mixer

\* Clips, voices, streams and the allocation sets keep their types.
LEMMA TableTypesStep == ASSUME TableTypes, CallTypes, CallState, Next PROVE TableTypes'
<1> USE DEF TableTypes, tables, owned
<1>0. call \in CallType
  BY DEF CallTypes
<1>1. CASE UNCHANGED <<tables, owned>>
  BY <1>1
<1>2. CASE EnsureReset
  BY <1>2, RecordUpdates DEF EnsureReset
<1>3. CASE LoadClip \/ LoadDrop \/ OpenFile \/ OpenDrop
  BY <1>3 DEF LoadClip, LoadDrop, OpenFile, OpenDrop
<1>4. CASE loadwav
  BY <1>4 DEF loadwav, CallState
<1>5. CASE freewav
  <2>1. \A v \in VoiceIds : [voices[v] EXCEPT !.active = FALSE] \in VoiceType
    BY RecordUpdates
  <2> QED
    BY <1>0, <1>5, <2>1, CallFacts DEF freewav
<1>6. CASE play
  <2>1. [active |-> TRUE, clip |-> call.id, pos |-> 0, loop |-> call.loop] \in VoiceType
    BY <1>0, <1>6, CallFacts, RecordUpdates DEF play
  <2> QED
    BY <1>6, <2>1 DEF play
<1>7. CASE stop
  <2>1. [voices[call.id] EXCEPT !.active = FALSE, !.clip = -1, !.pos = 0] \in VoiceType
    BY <1>0, <1>7, CallFacts, RecordUpdates DEF stop
  <2> QED
    BY <1>7, <2>1 DEF stop
<1>8. CASE stopall
  BY <1>8, RecordUpdates DEF stopall
<1>9. CASE openstream
  <2>1. held \in Files
    BY <1>9 DEF openstream, CallState
  <2>2. [StreamReset EXCEPT !.file = held] \in StreamType
    BY <2>1, RecordUpdates
  <2> QED
    BY <1>9, <2>2 DEF openstream
<1>10. CASE closestream
  BY <1>10, RecordUpdates DEF closestream
<1>11. CASE playstream
  <2>1. [streams[call.id] EXCEPT !.playing = TRUE, !.paused = FALSE, !.loop = call.loop]
          \in StreamType
    BY <1>0, <1>11, CallFacts, RecordUpdates DEF playstream
  <2> QED
    BY <1>11, <2>1 DEF playstream
<1>12. CASE pausestream \/ resumestream \/ stopstream
  <2>1. /\ [streams[call.id] EXCEPT !.paused = TRUE] \in StreamType
        /\ [streams[call.id] EXCEPT !.paused = FALSE] \in StreamType
        /\ [streams[call.id] EXCEPT !.playing = FALSE, !.paused = FALSE] \in StreamType
    BY <1>0, <1>12, CallFacts, RecordUpdates DEF pausestream, resumestream, stopstream
  <2> QED
    BY <1>12, <2>1 DEF pausestream, resumestream, stopstream
<1>13. CASE TermFree
  <2>1. 0 \in ClipIds
    BY MixerAssumption DEF ClipIds
  <2> QED
    BY <1>13, <2>1, RecordUpdates DEF TermFree
<1>14. CASE MixFrame
  <2>1. voices' \in [VoiceIds -> VoiceType]
    BY <1>14, MixVoiceFacts DEF MixFrame
  <2>2. streams' \in [StreamIds -> StreamType]
    BY <1>14, MixStreamFacts DEF MixFrame
  <2> QED
    BY <1>14, <2>1, <2>2 DEF MixFrame
<1> QED
  BY <1>1, <1>2, <1>3, <1>4, <1>5, <1>6, <1>7, <1>8, <1>9, <1>10, <1>11, <1>12, <1>13,
     <1>14
  DEF Next, Begin, CallEnsuring, CallGuarded, TermStop, Ensure, EnsureMutex,
      EnsurePort, EnsureCreate, EnsurePublish, Unlocked, Critical, masterm, voicevol,
      streamvol, streamseek, StoreOnly, Term, TermJoin, TermRelease, Mixer,
      MixerCheck, MixerLock, MixerUnlock, MixerOutput

\* The QuickJS thread stays at a known point of a known call.
LEMMA CallTypesStep == ASSUME CallTypes, Next PROVE CallTypes'
<1> USE DEF CallTypes, JsPoints
<1>1. CASE Begin
  <2>1. PICK op \in Ops : \E id \in Ids(op), loop \in BOOLEAN :
          CallEnsuring(op, id, loop) \/ CallGuarded(op, id, loop)
    BY <1>1 DEF Begin
  <2>2. PICK id \in Ids(op), loop \in BOOLEAN :
          /\ call' = [op |-> op, id |-> id, loop |-> loop]
          /\ js' \in {"mutex", "load", "open", "critical"}
    BY <2>1 DEF CallEnsuring, CallGuarded, AfterEnsure
  <2> QED
    BY <2>2, CallTypeIntro
<1>2. CASE ~Begin
  <2>1. call' \in {call, NoCall, TermCall}
    BY <1>2 DEF Next, TermStop, Ensure, EnsureMutex, EnsurePort, EnsureReset,
        EnsureCreate, EnsurePublish, Unlocked, LoadClip, LoadDrop, OpenFile, OpenDrop,
        Critical, loadwav, freewav, play, stop, stopall, masterm, voicevol, streamvol,
        streamseek, StoreOnly, openstream, closestream, playstream, pausestream,
        resumestream, stopstream, Term, TermJoin, TermFree, TermRelease, Mixer,
        MixerCheck, MixerLock, MixFrame, MixerUnlock, MixerOutput, Return
  <2>2. js' \in JsPoints
    BY <1>2 DEF Next, TermStop, Ensure, EnsureMutex, EnsurePort, EnsureReset,
        EnsureCreate, EnsurePublish, AfterEnsure, Unlocked, LoadClip, LoadDrop,
        OpenFile, OpenDrop, Critical, loadwav, freewav, play, stop, stopall, masterm,
        voicevol, streamvol, streamseek, StoreOnly, openstream, closestream,
        playstream, pausestream, resumestream, stopstream, Term, TermJoin, TermFree,
        TermRelease, Mixer, MixerCheck, MixerLock, MixFrame, MixerUnlock, MixerOutput,
        Return
  <2> QED
    BY <2>1, <2>2, CallFacts
<1> QED
  BY <1>1, <1>2

(* The control invariants *)

\* Every step keeps port, mutex and thread in the phase that the QuickJS thread
\* and initialized stand for.
LEMMA PhasesStep == ASSUME LifeTypes, Phases, CallState, Next PROVE Phases'
<1> USE DEF LifeTypes, Phases, EnsurePoints, TermPoints, life, mix, Return
<1>1. CASE Begin
  BY <1>1 DEF Begin, CallEnsuring, CallGuarded, AfterEnsure
<1>2. CASE EnsureMutex \/ EnsurePort
  BY <1>2 DEF EnsureMutex, EnsurePort
<1>3. CASE EnsureReset \/ EnsureCreate
  BY <1>3 DEF EnsureReset, EnsureCreate
<1>4. CASE EnsurePublish
  BY <1>4 DEF EnsurePublish, AfterEnsure
<1>5. CASE Unlocked
  BY <1>5 DEF Unlocked, LoadClip, LoadDrop, OpenFile, OpenDrop
<1>6. CASE Critical
  <2>1. js = "critical" /\ js' \in {"idle", "drop"} /\ UNCHANGED <<life, mix>>
    BY <1>6 DEF Critical, loadwav, freewav, play, stop, stopall, masterm, voicevol,
        streamvol, streamseek, StoreOnly, openstream, closestream, playstream,
        pausestream, resumestream, stopstream
  <2> QED
    BY <2>1
<1>7. CASE TermStop \/ TermJoin
  BY <1>7 DEF TermStop, TermJoin
<1>8. CASE TermFree \/ TermRelease
  BY <1>8 DEF TermFree, TermRelease
<1>9. CASE Mixer
  <2>1. /\ mixer # "none" /\ mixer' # "none"
        /\ UNCHANGED <<initialized, port, mutex_init, js>>
    BY <1>9 DEF Mixer, MixerCheck, MixerLock, MixFrame, MixerUnlock, MixerOutput
  <2> QED
    BY <2>1
<1> QED
  BY <1>1, <1>2, <1>3, <1>4, <1>5, <1>6, <1>7, <1>8, <1>9 DEF Next, Ensure, Term

\* Every step keeps the call in progress and what it holds in agreement.
LEMMA CallStateStep == ASSUME CallState, TableTypes, Next PROVE CallState'
<1> USE MixerAssumption DEF CallState, EnsurePoints, NoCall, Return, owned
<1>1. CASE Begin
  BY <1>1 DEF Begin, CallEnsuring, CallGuarded, AfterEnsure, Ops, EnsureOps
<1>2. CASE Ensure
  BY <1>2 DEF Ensure, EnsureMutex, EnsurePort, EnsureReset, EnsureCreate, EnsurePublish,
              AfterEnsure, EnsureOps, Ops
<1>3. CASE Unlocked
  BY <1>3 DEF Unlocked, LoadClip, LoadDrop, OpenFile, OpenDrop, Ops, EnsureOps
<1>4. CASE Critical
  BY <1>4 DEF Critical, loadwav, freewav, play, stop, stopall, masterm, voicevol,
      streamvol, streamseek, StoreOnly, openstream, closestream, playstream,
      pausestream, resumestream, stopstream
<1>5. CASE TermStop \/ Term
  BY <1>5 DEF TermStop, TermCall, Term, TermJoin, TermFree, TermRelease
<1>6. CASE Mixer
  BY <1>6 DEF Mixer, MixerCheck, MixerLock, MixFrame, MixerUnlock, MixerOutput
<1> QED
  BY <1>1, <1>2, <1>3, <1>4, <1>5, <1>6 DEF Next

\* The tables are empty whenever audio is not initialized.
LEMMA EmptyTablesStep ==
  ASSUME TableTypes, Phases, EmptyTables, Next PROVE EmptyTables'
<1> USE DEF EmptyTables, tables
<1>1. CASE EnsureReset
  BY <1>1 DEF EnsureReset, VoiceReset, StreamReset
<1>2. CASE TermFree
  BY <1>2 DEF TermFree, VoiceReset, StreamReset
<1>3. CASE MixFrame
  <2>1. \A v \in VoiceIds : voices'[v].active => voices[v].active
    BY <1>3, MixVoiceFacts DEF MixFrame
  <2>2. \A s \in StreamIds : streams'[s].file = streams[s].file
    BY <1>3, MixStreamFacts DEF MixFrame
  <2> QED
    BY <1>3, <2>1, <2>2 DEF MixFrame, life
<1>4. CASE Critical
  <2>1. initialized' /\ js' # "release"
    BY <1>4 DEF Critical, loadwav, freewav, play, stop, stopall, masterm, voicevol,
        streamvol, streamseek, StoreOnly, openstream, closestream, playstream,
        pausestream, resumestream, stopstream, Phases, life, Return
  <2> QED
    BY <2>1
<1>5. CASE UNCHANGED tables /\ ~TermFree /\ ~Critical
  <2>1. (~initialized' \/ js' = "release") => (~initialized \/ js = "release")
    BY <1>5 DEF Next, Begin, CallEnsuring, CallGuarded, AfterEnsure, TermStop, Ensure,
         EnsureMutex, EnsurePort, EnsureReset, EnsureCreate, EnsurePublish, Unlocked,
         LoadClip, LoadDrop, OpenFile, OpenDrop, Term, TermJoin, TermRelease, Mixer,
         MixerCheck, MixerLock, MixFrame, MixerUnlock, MixerOutput, Return, life
  <2> QED
    BY <1>5, <2>1
<1> QED
  BY <1>1, <1>2, <1>3, <1>4, <1>5
  DEF Next, Begin, CallEnsuring, CallGuarded, TermStop, Ensure, EnsureMutex,
      EnsurePort, EnsureCreate, EnsurePublish, Unlocked, LoadClip, LoadDrop, OpenFile,
      OpenDrop, Term, TermJoin, TermRelease, Mixer, MixerCheck, MixerLock,
      MixerUnlock, MixerOutput

(* Ownership of buffers and files *)

\* What a held pointer is, and that every allocated one is owned.
LEMMA HeldFacts ==
  ASSUME TableTypes, CallState
  PROVE  /\ js \in {"critical", "drop"} /\ call.op = "load_wav" =>
              held \in Buffers /\ held \notin Files
         /\ js \in {"critical", "drop"} /\ call.op = "open_stream" =>
              held \in Files /\ held \notin Buffers
         /\ js \notin {"critical", "drop"} \/ call.op \notin {"load_wav", "open_stream"} =>
              held = None
  BY MixerAssumption DEF TableTypes, CallState

\* Every step keeps a single owner for each sample buffer.
LEMMA BufferOwnershipStep ==
  ASSUME TableTypes, CallTypes, CallState, Phases, EmptyTables, BufferOwnership, Next
  PROVE  BufferOwnership'
<1> USE MixerAssumption DEF BufferOwnership, TableTypes
<1>1. CASE UNCHANGED <<clips, heap, held>>
  BY <1>1
<1>2. CASE EnsureReset
  <2>1. \A i \in ClipIds : clips[i] = None
    BY <1>2 DEF EnsureReset, EmptyTables, Phases, EnsurePoints
  <2>2. clips' = clips
    BY <1>2, <2>1 DEF EnsureReset
  <2> QED
    BY <1>2, <2>2 DEF EnsureReset, owned
<1>3. CASE LoadClip
  <2>1. held = None
    BY <1>3, HeldFacts DEF LoadClip
  <2>2. CASE UNCHANGED <<heap, held>>
    BY <1>3, <2>2 DEF LoadClip, tables
  <2>3. ASSUME NEW b \in Buffers \ heap, heap' = heap \cup {b}, held' = b
        PROVE  BufferOwnership'
    <3>1. \A i \in ClipIds : clips[i] # b
      BY <2>3
    <3> QED
      BY <1>3, <2>1, <2>3, <3>1 DEF LoadClip, tables
  <2> QED
    BY <1>3, <2>2, <2>3 DEF LoadClip
<1>4. CASE loadwav
  <2>1. held \in Buffers
    BY <1>4, HeldFacts DEF loadwav
  <2>2. ASSUME NEW i \in ClipIds, Lowest(i, freeclip), clips' = [clips EXCEPT ![i] = held],
               held' = None
        PROVE  BufferOwnership'
    <3>1. clips[i] = None
      BY <2>2 DEF Lowest, freeclip
    <3>2. {clips'[j] : j \in ClipIds} \cap Buffers
            = ({clips[j] : j \in ClipIds} \cup {held}) \cap Buffers
      BY <2>1, <2>2, <3>1
    <3>3. heap' = heap
      BY <1>4 DEF loadwav
    <3> QED
      BY <2>1, <2>2, <3>1, <3>2, <3>3
  <2> QED
    BY <1>4, <2>2 DEF loadwav
<1>5. CASE LoadDrop
  <2>1. held \in Buffers
    BY <1>5, HeldFacts DEF LoadDrop
  <2> QED
    BY <1>5, <2>1 DEF LoadDrop, tables
<1>6. CASE freewav
  <2>1. call.id \in ClipIds
    BY <1>6, CallFacts DEF freewav, CallTypes
  <2>2. held = None
    BY <1>6, HeldFacts DEF freewav
  <2> QED
    BY <1>6, <2>1, <2>2 DEF freewav
<1>7. CASE OpenFile \/ OpenDrop
  <2>1. held \notin Buffers /\ held' \notin Buffers /\ clips' = clips /\ heap' = heap
    BY <1>7, HeldFacts DEF OpenFile, OpenDrop, tables
  <2>2. \A i \in ClipIds : clips[i] # None => clips[i] # held'
    BY <2>1
  <2> QED
    BY <2>1, <2>2
<1>8. CASE openstream
  <2>1. held \notin Buffers /\ held' \in {held, None} /\ clips' = clips /\ heap' = heap
    BY <1>8, HeldFacts DEF openstream
  <2> QED
    BY <2>1
<1>9. CASE TermFree
  <2>1. held = None
    BY <1>9, HeldFacts DEF TermFree
  <2>2. heap' = {}
    BY <1>9, <2>1 DEF TermFree
  <2> QED
    BY <1>9, <2>1, <2>2 DEF TermFree
<1> QED
  BY <1>1, <1>2, <1>3, <1>4, <1>5, <1>6, <1>7, <1>8, <1>9
  DEF Next, Begin, CallEnsuring, CallGuarded, TermStop, Ensure, EnsureMutex,
      EnsurePort, EnsureCreate, EnsurePublish, Unlocked, Critical, play, stop,
      stopall, masterm, voicevol, streamvol, streamseek, StoreOnly, closestream,
      playstream, pausestream, resumestream, stopstream, Term, TermJoin, TermRelease,
      Mixer, MixerCheck, MixerLock, MixFrame, MixerUnlock, MixerOutput, tables, owned

\* The steps that change a stream without changing which file it reads.
LEMMA StreamFileKept ==
  ASSUME TableTypes, CallTypes,
         stopall \/ playstream \/ pausestream \/ resumestream \/ stopstream \/ MixFrame
  PROVE  /\ \A s \in StreamIds : streams'[s].file = streams[s].file
         /\ UNCHANGED <<files, held>>
<1>1. streams \in [StreamIds -> StreamType]
  BY DEF TableTypes
<1>2. CASE stopall
  BY <1>1, <1>2 DEF stopall, StreamType, owned
<1>3. CASE playstream
  BY <1>1, <1>3 DEF playstream, StreamType, owned
<1>4. CASE pausestream
  BY <1>1, <1>4 DEF pausestream, StreamType, owned
<1>5. CASE resumestream
  BY <1>1, <1>5 DEF resumestream, StreamType, owned
<1>6. CASE stopstream
  BY <1>1, <1>6 DEF stopstream, StreamType, owned
<1>7. CASE MixFrame
  BY <1>7, MixStreamFacts DEF MixFrame, owned
<1> QED
  BY <1>2, <1>3, <1>4, <1>5, <1>6, <1>7

\* Every step keeps a single owner for each open file.
LEMMA FileOwnershipStep ==
  ASSUME TableTypes, CallTypes, CallState, Phases, EmptyTables, FileOwnership, Next
  PROVE  FileOwnership'
<1> USE MixerAssumption DEF FileOwnership
<1>0. /\ \A s \in StreamIds : streams[s].file \in Files \cup {None}
      /\ DOMAIN streams = StreamIds /\ files \subseteq Files
  BY DEF TableTypes, StreamType
<1>1. CASE UNCHANGED <<streams, files, held>>
  BY <1>1
<1>2. CASE EnsureReset
  <2>1. \A s \in StreamIds : streams[s].file = None
    BY <1>2 DEF EnsureReset, EmptyTables, Phases, EnsurePoints
  <2>2. \A s \in StreamIds : streams'[s].file = None
    BY <1>2 DEF EnsureReset, StreamReset
  <2>3. {streams'[s].file : s \in StreamIds} = {streams[s].file : s \in StreamIds}
    BY <2>1, <2>2
  <2> QED
    BY <1>2, <2>2, <2>3 DEF EnsureReset, owned
<1>3. CASE OpenFile
  <2>1. held = None
    BY <1>3, HeldFacts DEF OpenFile
  <2>2. CASE UNCHANGED <<files, held>>
    BY <1>3, <2>2 DEF OpenFile, tables
  <2>3. ASSUME NEW f \in Files \ files, files' = files \cup {f}, held' = f
        PROVE  FileOwnership'
    <3>1. \A s \in StreamIds : streams[s].file # f
      BY <2>3
    <3> QED
      BY <1>3, <2>1, <2>3, <3>1 DEF OpenFile, tables
  <2> QED
    BY <1>3, <2>2, <2>3 DEF OpenFile
<1>4. CASE openstream
  <2>1. held \in Files
    BY <1>4, HeldFacts DEF openstream
  <2>2. CASE UNCHANGED <<streams, held>>
    BY <1>4, <2>2 DEF openstream
  <2>3. ASSUME NEW s \in StreamIds, Lowest(s, freestream), held' = None,
               streams' = [streams EXCEPT ![s] = [StreamReset EXCEPT !.file = held]]
        PROVE  FileOwnership'
    <3>1. streams[s].file = None
      BY <2>3 DEF Lowest, freestream
    <3>2. \A t \in StreamIds : streams'[t].file = IF t = s THEN held ELSE streams[t].file
      BY <1>0, <2>3 DEF StreamReset
    <3>3. {streams'[t].file : t \in StreamIds} \cap Files
            = ({streams[t].file : t \in StreamIds} \cup {held}) \cap Files
      BY <2>1, <3>1, <3>2
    <3>4. files' = files
      BY <1>4 DEF openstream
    <3> QED
      BY <2>1, <2>3, <3>1, <3>2, <3>3, <3>4
  <2> QED
    BY <1>4, <2>2, <2>3 DEF openstream
<1>5. CASE OpenDrop
  <2>1. held \in Files
    BY <1>5, HeldFacts DEF OpenDrop
  <2> QED
    BY <1>5, <2>1 DEF OpenDrop, tables
<1>6. CASE closestream
  <2>1. call.id \in StreamIds
    BY <1>6, CallFacts DEF closestream, CallTypes
  <2>2. held = None
    BY <1>6, HeldFacts DEF closestream
  <2>3. \A t \in StreamIds :
          streams'[t].file = IF t = call.id THEN None ELSE streams[t].file
    BY <1>0, <1>6 DEF closestream, StreamReset
  <2>4. files' = files \ {streams[call.id].file} /\ held' = held
    BY <1>6 DEF closestream
  <2> QED
    BY <1>0, <2>1, <2>2, <2>3, <2>4
<1>7. CASE LoadClip \/ LoadDrop \/ loadwav
  <2>1. held \notin Files /\ held' \notin Files /\ UNCHANGED <<streams, files>>
    BY <1>7, HeldFacts DEF LoadClip, LoadDrop, loadwav, tables
  <2>2. \A s \in StreamIds : streams[s].file # None => streams[s].file # held'
    BY <1>0, <2>1
  <2> QED
    BY <2>1, <2>2
<1>8. CASE TermFree
  <2>1. held = None
    BY <1>8, HeldFacts DEF TermFree
  <2>2. files' = {}
    BY <1>8, <2>1 DEF TermFree
  <2>3. \A s \in StreamIds : streams'[s].file = None
    BY <1>8 DEF TermFree, StreamReset
  <2> QED
    BY <1>8, <2>1, <2>2, <2>3 DEF TermFree
<1>9. CASE stopall \/ playstream \/ pausestream \/ resumestream \/ stopstream \/ MixFrame
  <2>1. /\ \A s \in StreamIds : streams'[s].file = streams[s].file
        /\ UNCHANGED <<files, held>>
    BY <1>9, StreamFileKept
  <2>2. {streams'[s].file : s \in StreamIds} = {streams[s].file : s \in StreamIds}
    BY <2>1
  <2> QED
    BY <2>1, <2>2
<1> QED
  BY <1>1, <1>2, <1>3, <1>4, <1>5, <1>6, <1>7, <1>8, <1>9
  DEF Next, Begin, CallEnsuring, CallGuarded, TermStop, Ensure, EnsureMutex,
      EnsurePort, EnsureCreate, EnsurePublish, Unlocked, Critical, freewav, play,
      stop, masterm, voicevol, streamvol, streamseek, StoreOnly, Term, TermJoin,
      TermRelease, Mixer, MixerCheck, MixerLock, MixerUnlock, MixerOutput, tables,
      owned

(* Voices *)

\* Every step leaves the active voices on loaded clips, within their length.
LEMMA ActiveVoiceStep ==
  ASSUME TableTypes, CallTypes, CallState, BufferOwnership, ActiveVoiceHasSamples, Next
  PROVE  ActiveVoiceHasSamples'
<1> USE DEF ActiveVoiceHasSamples
<1>0. /\ clips \in [ClipIds -> Buffers \cup {None}]
      /\ voices \in [VoiceIds -> VoiceType]
      /\ call \in CallType
  BY DEF TableTypes, CallTypes
<1>1. CASE UNCHANGED <<voices, clips, heap>>
  BY <1>1
<1>2. CASE EnsureReset
  BY <1>2 DEF EnsureReset, VoiceReset
<1>3. CASE TermFree
  BY <1>3 DEF TermFree, VoiceReset
<1>4. CASE LoadClip
  BY <1>4 DEF LoadClip, tables
<1>5. CASE loadwav
  <2>1. CASE UNCHANGED clips
    BY <1>5, <2>1 DEF loadwav
  <2>2. ASSUME NEW i \in ClipIds, Lowest(i, freeclip), clips' = [clips EXCEPT ![i] = held]
        PROVE  ActiveVoiceHasSamples'
    <3>1. clips[i] = None
      BY <2>2 DEF Lowest, freeclip
    <3>2. \A v \in VoiceIds : voices[v].active => voices[v].clip # i
      BY <3>1, MixerAssumption DEF TableTypes
    <3> QED
      BY <1>0, <1>5, <2>2, <3>2 DEF loadwav
  <2> QED
    BY <1>5, <2>1, <2>2 DEF loadwav
<1>6. CASE LoadDrop
  <2>1. \A i \in ClipIds : clips[i] \in heap => clips[i] # held
    BY MixerAssumption DEF BufferOwnership, TableTypes
  <2> QED
    BY <1>6, <2>1 DEF LoadDrop, tables
<1>7. CASE freewav
  <2>1. call.id \in ClipIds
    BY <1>0, <1>7, CallFacts DEF freewav
  <2>2. \A v \in VoiceIds : voices'[v].active =>
          voices'[v] = voices[v] /\ voices[v].clip # call.id
    BY <1>0, <1>7 DEF freewav, VoiceType
  <2>3. \A j \in ClipIds : j # call.id /\ clips[j] \in heap =>
          clips'[j] = clips[j] /\ clips'[j] \in heap'
    BY <1>0, <1>7, <2>1, MixerAssumption DEF freewav, BufferOwnership, TableTypes
  <2> QED
    BY <2>2, <2>3
<1>8. CASE play
  <2>1. clips[call.id] # None => clips[call.id] \in heap
    BY <1>0, <1>8, CallFacts DEF play, BufferOwnership
  <2>2. call.id \in ClipIds /\ \A i \in ClipIds : clips[i] # None => BufFrames[clips[i]] \in Nat
    BY <1>0, <1>8, CallFacts, MixerAssumption DEF play
  <2> QED
    BY <1>0, <1>8, <2>1, <2>2 DEF play, owned
<1>9. CASE stop
  <2>1. call.id \in VoiceIds
    BY <1>0, <1>9, CallFacts DEF stop
  <2>2. \A v \in VoiceIds : voices'[v].active => voices'[v] = voices[v]
    BY <1>0, <1>9, <2>1 DEF stop, VoiceType
  <2> QED
    BY <1>9, <2>2 DEF stop, owned
<1>10. CASE stopall
  <2>1. \A v \in VoiceIds : ~voices'[v].active
    BY <1>0, <1>10 DEF stopall, VoiceType
  <2> QED
    BY <2>1
<1>11. CASE MixFrame
  <2>1. \A v \in VoiceIds : voices'[v].active =>
          /\ voices[v].active /\ voices'[v].clip = voices[v].clip
          /\ voices'[v].pos <= BufFrames[clips[voices[v].clip]]
    BY <1>11, MixVoiceFacts DEF MixFrame
  <2> QED
    BY <1>11, <2>1 DEF MixFrame, owned
<1> QED
  BY <1>1, <1>2, <1>3, <1>4, <1>5, <1>6, <1>7, <1>8, <1>9, <1>10, <1>11
  DEF Next, Begin, CallEnsuring, CallGuarded, TermStop, Ensure, EnsureMutex,
      EnsurePort, EnsureCreate, EnsurePublish, Unlocked, OpenFile, OpenDrop, Critical,
      masterm, voicevol, streamvol, streamseek, StoreOnly, openstream, closestream,
      playstream, pausestream, resumestream, stopstream, Term, TermJoin, TermRelease,
      Mixer, MixerCheck, MixerLock, MixerUnlock, MixerOutput, tables, owned

(* The theorems *)

\* The inductive invariant holds before the first Audio call.
LEMMA InitIInv == Init => IInv
<1> SUFFICES ASSUME Init PROVE IInv
  OBVIOUS
<1> USE MixerAssumption DEF Init
<1>1. LifeTypes
  <2>1. 0 \in 0 .. Grain
    OBVIOUS
  <2> QED
    BY <2>1 DEF LifeTypes
<1>2. TableTypes
  <2>1. 0 \in ClipIds
    BY DEF ClipIds
  <2> QED
    BY <2>1, RecordUpdates DEF TableTypes
<1>3. CallTypes
  BY CallFacts DEF CallTypes, JsPoints
<1>4. Phases
  BY DEF Phases, EnsurePoints, TermPoints
<1>5. CallState
  BY DEF CallState, EnsurePoints, NoCall
<1>6. EmptyTables
  BY DEF EmptyTables, VoiceReset, StreamReset
<1>7. BufferOwnership
  BY DEF BufferOwnership
<1>8. FileOwnership
  BY DEF FileOwnership, StreamReset
<1>9. ActiveVoiceHasSamples
  BY DEF ActiveVoiceHasSamples, VoiceReset
<1> QED
  BY <1>1, <1>2, <1>3, <1>4, <1>5, <1>6, <1>7, <1>8, <1>9 DEF IInv, TypeOK, Ownership

\* The inductive invariant is inductive.
LEMMA NextIInv == IInv /\ [Next]_vars => IInv'
<1>1. ASSUME IInv, Next PROVE IInv'
  BY <1>1, LifeTypesStep, TableTypesStep, CallTypesStep, PhasesStep, CallStateStep,
     EmptyTablesStep, BufferOwnershipStep, FileOwnershipStep, ActiveVoiceStep
  DEF IInv, TypeOK, Ownership
<1>2. ASSUME IInv, UNCHANGED vars PROVE IInv'
  BY <1>2 DEF vars, life, mix, tables, owned, IInv, TypeOK, LifeTypes, TableTypes,
      CallTypes, Phases, CallState, EmptyTables, Ownership, BufferOwnership,
      FileOwnership, ActiveVoiceHasSamples
<1> QED
  BY <1>1, <1>2

\* The inductive invariant of the two threads of audio.c.
THEOREM Invariance == Spec => []IInv
  BY InitIInv, NextIInv, PTL DEF Spec

\* Every variable of audio.c keeps its type, for tables of every size.
THEOREM TypeCorrect == Spec => []TypeOK
<1>1. IInv => TypeOK
  BY DEF IInv
<1> QED
  BY <1>1, Invariance, PTL

\* No voice is ever mixed from a freed clip or from beyond a clip's end: the
\* mixer's reads of clip->samples are safe without its own check of used.
THEOREM SamplesSafe == Spec => []ActiveVoiceHasSamples
<1>1. IInv => ActiveVoiceHasSamples
  BY DEF IInv
<1> QED
  BY <1>1, Invariance, PTL

\* No sample buffer and no stream file is leaked, freed twice or shared.
THEOREM SingleOwner == Spec => []Ownership
<1>1. IInv => Ownership
  BY DEF IInv
<1> QED
  BY <1>1, Invariance, PTL

\* Mutex, port and mixer thread are used only while they exist, and there is
\* never more than one mixer.
THEOREM LifetimesRespected == Spec => []Lifetimes
<1>1. IInv => Lifetimes
  BY DEF IInv, TypeOK, LifeTypes, Phases, Lifetimes, MixerAlive, EnsurePoints,
      TermPoints
<1> QED
  BY <1>1, Invariance, PTL

\* After term() nothing is left behind.
THEOREM TermReleasesAll == Spec => []NothingLeftAfterTerm
<1>1. ASSUME IInv PROVE NothingLeftAfterTerm
  <2> SUFFICES ASSUME js = "idle", ~initialized
               PROVE  heap = {} /\ files = {} /\ ~port /\ mixer = "none"
    BY DEF NothingLeftAfterTerm
  <2>1. held = None
    BY <1>1, HeldFacts DEF IInv, TypeOK
  <2>2. ~port /\ mixer = "none"
    BY <1>1 DEF IInv, Phases, TermPoints
  <2>3. heap = {}
    BY <1>1, <2>1, MixerAssumption DEF IInv, EmptyTables, Ownership, BufferOwnership
  <2>4. files = {}
    BY <1>1, <2>1, MixerAssumption DEF IInv, EmptyTables, Ownership, FileOwnership
  <2> QED
    BY <2>2, <2>3, <2>4
<1> QED
  BY <1>1, Invariance, PTL

\* The QuickJS thread never changes a table in the middle of a grain.
THEOREM GrainAtomicity == Spec => GrainIsAtomic
<1>1. ASSUME IInv, [Next]_vars, mixer = "mixing"
      PROVE  UNCHANGED clips /\ (UNCHANGED mix => UNCHANGED tables)
  <2>1. CASE UNCHANGED vars
    BY <2>1 DEF vars, tables
  <2>2. CASE Begin \/ TermStop \/ Unlocked \/ Mixer
    BY <2>2, <1>1 DEF Begin, CallEnsuring, CallGuarded, TermStop, Unlocked, LoadClip,
        LoadDrop, OpenFile, OpenDrop, Mixer, MixerCheck, MixerLock, MixFrame,
        MixerUnlock, MixerOutput, tables, mix, IInv, TypeOK, LifeTypes
  <2>3. CASE Ensure \/ Term
    BY <2>3, <1>1 DEF Ensure, EnsureMutex, EnsurePort, EnsureReset, EnsureCreate,
        EnsurePublish, Term, TermJoin, TermFree, TermRelease, tables, IInv, Phases,
        EnsurePoints, TermPoints, MutexFree
  <2>4. CASE Critical
    BY <2>4, <1>1 DEF Critical, loadwav, freewav, play, stop, stopall, masterm,
        voicevol, streamvol, streamseek, StoreOnly, openstream, closestream,
        playstream, pausestream, resumestream, stopstream, MutexFree
  <2> QED
    BY <1>1, <2>1, <2>2, <2>3, <2>4 DEF Next
<1> QED
  BY <1>1, Invariance, PTL DEF Spec, GrainIsAtomic

\* play() never takes over a voice that is still sounding.
THEOREM VoicesNotStolen == Spec => NoVoiceStolen
<1> DEFINE Kept(v) ==
      /\ voices'[v].clip = voices[v].clip /\ voices'[v].loop = voices[v].loop
      /\ \/ voices'[v].pos >= voices[v].pos
         \/ voices[v].loop /\ voices'[v].pos = 1
<1>1. ASSUME IInv, [Next]_vars, NEW v \in VoiceIds, voices[v].active, voices'[v].active
      PROVE  Kept(v)
  <2>0. voices \in [VoiceIds -> VoiceType] /\ call \in CallType
    BY <1>1 DEF IInv, TypeOK, TableTypes, CallTypes
  <2>1. CASE voices'[v] = voices[v]
    BY <2>0, <2>1 DEF VoiceType
  <2>2. CASE EnsureReset \/ TermFree \/ stopall
    <3>1. ~voices'[v].active
      BY <2>0, <2>2 DEF EnsureReset, TermFree, stopall, VoiceReset, VoiceType
    <3> QED
      BY <1>1, <3>1
  <2>3. CASE freewav \/ stop
    <3>1. freewav => ~voices'[v].active \/ voices'[v] = voices[v]
      BY <2>0 DEF freewav, VoiceType
    <3>2. stop => ~voices'[v].active \/ voices'[v] = voices[v]
      BY <2>0, CallFacts DEF stop, VoiceType
    <3> QED
      BY <1>1, <2>1, <2>3, <3>1, <3>2
  <2>4. CASE play
    <3>1. voices'[v] = voices[v]
      BY <1>1, <2>0, <2>4 DEF play, Lowest, freevoice
    <3> QED
      BY <2>1, <3>1
  <2>5. CASE MixFrame
    <3>1. voices'[v] = MixVoice(v) /\ TableTypes
      BY <1>1, <2>5 DEF MixFrame, IInv, TypeOK
    <3>2. voices[v].pos \in Nat
      BY <2>0 DEF VoiceType
    <3> QED
      BY <1>1, <3>1, <3>2, MixVoiceFacts
  <2>6. CASE UNCHANGED voices
    BY <2>1, <2>6
  <2> QED
    BY <1>1, <2>2, <2>3, <2>4, <2>5, <2>6
    DEF Next, Begin, CallEnsuring, CallGuarded, TermStop, Ensure, EnsureMutex,
        EnsurePort, EnsureCreate, EnsurePublish, Unlocked, LoadClip, LoadDrop,
        OpenFile, OpenDrop, Critical, loadwav, masterm, voicevol, streamvol,
        streamseek, StoreOnly, openstream, closestream, playstream, pausestream,
        resumestream, stopstream, Term, TermJoin, TermRelease, Mixer, MixerCheck,
        MixerLock, MixerUnlock, MixerOutput, vars, tables
<1>2. IInv /\ [Next]_vars =>
        [\A v \in VoiceIds : voices[v].active /\ voices'[v].active => Kept(v)]_vars
  BY <1>1
<1> QED
  BY <1>2, Invariance, PTL DEF Spec, NoVoiceStolen

=============================================================================
