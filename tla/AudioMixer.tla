----------------------------- MODULE AudioMixer -----------------------------
(***************************************************************************)
(* The Audio module (src/modules/audio.c): the QuickJS thread, which runs  *)
(* the Audio.* functions, and the mixer thread (mixthread), which share    *)
(* the clip, voice and stream tables under one pthread mutex.              *)
(*                                                                         *)
(* The tables, the two threads' program counters, the lifetime of the      *)
(* mutex, the output port and the mixer thread, and the ownership of every *)
(* sample buffer and open file are modelled.  Sample values and volumes    *)
(* are not: no control depends on them.  How far into a stream the mixer   *)
(* is (position, cache, decoder) is modelled by AudioStream; here a        *)
(* playing stream may reach its end, or fail to be read, at any frame.     *)
(*                                                                         *)
(* The mixer holds the mutex exactly while mixer = "mixing", one frame per *)
(* step.  A critical section of the QuickJS thread is one step, enabled    *)
(* when the mixer does not hold the mutex.                                 *)
(***************************************************************************)
EXTENDS Integers

CONSTANTS
  MaxClips,    \* MAX_CLIPS
  MaxVoices,   \* MAX_VOICES
  MaxStreams,  \* MAX_STREAMS
  Grain,       \* GRAIN: frames mixed under one hold of the mutex
  Buffers,     \* addresses malloc can return for the samples of a clip
  BufFrames,   \* the length in frames of the clip a buffer holds
  Files,       \* handles fopen / ov_open can return for a stream
  None         \* a NULL pointer

ASSUME MixerAssumption ==
  /\ MaxClips \in Nat \ {0}
  /\ MaxVoices \in Nat \ {0}
  /\ MaxStreams \in Nat \ {0}
  /\ Grain \in Nat \ {0}
  /\ BufFrames \in [Buffers -> Nat]
  /\ None \notin Buffers /\ None \notin Files
  /\ Buffers \cap Files = {}

VARIABLES
  initialized,  \* the flag ensure() sets last and shutdown_audio() clears
  running,      \* the volatile flag the mixer polls
  port,         \* TRUE iff the output port is open (port >= 0)
  mutex_init,   \* TRUE iff the mutex exists
  mixer,        \* where the mixer thread is; "none" when there is no thread
  frame,        \* frames of the current grain already mixed
  clips,        \* clip id -> its sample buffer, None when the slot is unused
  voices,       \* voice id -> [active, clip, pos, loop]
  streams,      \* stream id -> [file, playing, paused, loop]; unused iff file = None
  heap,         \* sample buffers malloc'ed and not yet freed
  files,        \* stream files opened and not yet closed
  js,           \* where the QuickJS thread is; "idle" when it runs no Audio call
  call,         \* the Audio call in progress
  held          \* the buffer or file only the current call refers to

life   == <<initialized, running, port, mutex_init>>
mix    == <<mixer, frame>>
tables == <<clips, voices, streams>>
owned  == <<heap, files, held>>
vars   == <<life, mix, tables, owned, js, call>>

ClipIds   == 0 .. MaxClips - 1
VoiceIds  == 0 .. MaxVoices - 1
StreamIds == 0 .. MaxStreams - 1

EnsureOps == {"load_wav", "play", "open_stream", "set_master_volume"}
ClipOps   == {"free", "play"}
StreamOps == {"close_stream", "play_stream", "pause_stream", "resume_stream",
              "stop_stream"}
Ops       == EnsureOps \cup ClipOps \cup StreamOps \cup
             {"stop", "stop_all", "set_voice_volume", "set_stream_volume", "seek_stream"}

NoCall   == [op |-> "none", id |-> 0, loop |-> FALSE]
TermCall == [op |-> "term", id |-> 0, loop |-> FALSE]

\* memset(voices, 0) and then clip = -1; memset alone leaves clip = 0.
VoiceReset(c) == [active |-> FALSE, clip |-> c, pos |-> 0, loop |-> FALSE]
StreamReset   == [file |-> None, playing |-> FALSE, paused |-> FALSE, loop |-> FALSE]

\* The ids a script may pass; getid() throws on any other before any effect (in
\* play() after ensure(), with the effect that set_master_volume has).
Ids(op) ==
  IF op \in ClipOps THEN ClipIds
  ELSE IF op \in StreamOps THEN StreamIds
  ELSE IF op = "stop" THEN VoiceIds ELSE {0}

Lowest(i, S) == i \in S /\ \A j \in S : i <= j

\* Mutation: the active test is missing.
freevoiceAny == VoiceIds

freeclip   == {i \in ClipIds : clips[i] = None}
freevoice  == {v \in VoiceIds : ~voices[v].active}
freestream == {s \in StreamIds : streams[s].file = None}

MutexFree  == mixer # "mixing"
MixerAlive == mixer \in {"check", "lock", "mixing", "output"}

Init ==
  /\ initialized = FALSE /\ running = FALSE /\ port = FALSE /\ mutex_init = FALSE
  /\ mixer = "none" /\ frame = 0
  /\ clips = [i \in ClipIds |-> None]
  /\ voices = [v \in VoiceIds |-> VoiceReset(0)]
  /\ streams = [s \in StreamIds |-> StreamReset]
  /\ heap = {} /\ files = {} /\ held = None
  /\ js = "idle" /\ call = NoCall

-----------------------------------------------------------------------------
(* Entering and leaving a call *)

\* Where a call continues once ensure() has succeeded.
AfterEnsure(op) ==
  CASE op = "load_wav" -> "load"
    [] op = "open_stream" -> "open"
    [] OTHER -> "critical"

Return == js' = "idle" /\ call' = NoCall

\* Functions that call ensure() first.
CallEnsuring(op, id, loop) ==
  /\ js = "idle"
  /\ call' = [op |-> op, id |-> id, loop |-> loop]
  /\ js' = IF initialized THEN AfterEnsure(op) ELSE "mutex"
  /\ UNCHANGED <<life, mix, tables, owned>>

\* Functions that do nothing, or throw, when audio is not initialized.
CallGuarded(op, id, loop) ==
  /\ js = "idle" /\ initialized
  /\ call' = [op |-> op, id |-> id, loop |-> loop]
  /\ js' = "critical"
  /\ UNCHANGED <<life, mix, tables, owned>>

-----------------------------------------------------------------------------
(* ensure(), step by step: the mixer may already run before initialized is set *)

EnsureMutex ==
  /\ js = "mutex"
  /\ \/ mutex_init' = TRUE /\ js' = "port" /\ UNCHANGED call
     \/ ~mutex_init /\ Return /\ UNCHANGED mutex_init
  /\ UNCHANGED <<initialized, running, port, mix, tables, owned>>

EnsurePort ==
  /\ js = "port"
  /\ \/ port' = TRUE /\ js' = "reset" /\ UNCHANGED call
     \/ Return /\ UNCHANGED port
  /\ UNCHANGED <<initialized, running, mutex_init, mix, tables, owned>>

\* The tables are cleared without taking the mutex.
EnsureReset ==
  /\ js = "reset"
  /\ clips' = [i \in ClipIds |-> None]
  /\ voices' = [v \in VoiceIds |-> VoiceReset(-1)]
  /\ streams' = [s \in StreamIds |-> StreamReset]
  /\ running' = TRUE
  /\ js' = "create"
  /\ UNCHANGED <<initialized, port, mutex_init, mix, owned, call>>

\* Mutation: the port is not released when pthread_create fails.
EnsureCreateLeak ==
  /\ js = "create"
  /\ \/ mixer' = "check" /\ js' = "publish" /\ UNCHANGED <<running, call>>
     \/ running' = FALSE /\ Return /\ UNCHANGED mixer
  /\ UNCHANGED <<initialized, port, mutex_init, frame, tables, owned>>

EnsureCreate ==
  /\ js = "create"
  /\ \/ mixer' = "check" /\ js' = "publish" /\ UNCHANGED <<running, port, call>>
     \/ port' = FALSE /\ running' = FALSE /\ Return /\ UNCHANGED mixer
  /\ UNCHANGED <<initialized, mutex_init, frame, tables, owned>>

EnsurePublish ==
  /\ js = "publish"
  /\ initialized' = TRUE
  /\ js' = AfterEnsure(call.op)
  /\ UNCHANGED <<running, port, mutex_init, mix, tables, owned, call>>

-----------------------------------------------------------------------------
(* Clips and voices *)

\* load_clip() runs without the mutex; on failure it releases all it took.
LoadClip ==
  /\ js = "load"
  /\ \/ \E b \in Buffers \ heap :
          heap' = heap \cup {b} /\ held' = b /\ js' = "critical" /\ UNCHANGED call
     \/ Return /\ UNCHANGED <<heap, held>>
  /\ UNCHANGED <<life, mix, tables, files>>

loadwav ==
  /\ js = "critical" /\ call.op = "load_wav" /\ MutexFree
  /\ \/ \E i \in ClipIds :
          /\ Lowest(i, freeclip)
          /\ clips' = [clips EXCEPT ![i] = held]
          /\ held' = None /\ Return
     \/ freeclip = {} /\ js' = "drop" /\ UNCHANGED <<clips, held, call>>
  /\ UNCHANGED <<life, mix, voices, streams, heap, files>>

\* Mutation: the samples are not freed.
LoadDropLeak ==
  /\ js = "drop" /\ call.op = "load_wav"
  /\ held' = None /\ Return
  /\ UNCHANGED <<life, mix, tables, heap, files>>

\* "Audio clip limit reached": free(samples), after the unlock.
LoadDrop ==
  /\ js = "drop" /\ call.op = "load_wav"
  /\ heap' = heap \ {held} /\ held' = None /\ Return
  /\ UNCHANGED <<life, mix, tables, files>>

\* Mutation: the voices that play the clip are left active.
freewavKeepVoices ==
  /\ js = "critical" /\ call.op = "free" /\ MutexFree
  /\ heap' = heap \ {clips[call.id]}
  /\ clips' = [clips EXCEPT ![call.id] = None]
  /\ Return
  /\ UNCHANGED <<life, mix, voices, streams, files, held>>

\* Mutation: the mutex is not taken.
freewavUnlocked ==
  /\ js = "critical" /\ call.op = "free"
  /\ voices' = [v \in VoiceIds |->
       IF voices[v].active /\ voices[v].clip = call.id
       THEN [voices[v] EXCEPT !.active = FALSE] ELSE voices[v]]
  /\ heap' = heap \ {clips[call.id]}
  /\ clips' = [clips EXCEPT ![call.id] = None]
  /\ Return
  /\ UNCHANGED <<life, mix, streams, files, held>>

freewav ==
  /\ js = "critical" /\ call.op = "free" /\ MutexFree
  /\ voices' = [v \in VoiceIds |->
       IF voices[v].active /\ voices[v].clip = call.id
       THEN [voices[v] EXCEPT !.active = FALSE] ELSE voices[v]]
  /\ heap' = heap \ {clips[call.id]}
  /\ clips' = [clips EXCEPT ![call.id] = None]
  /\ Return
  /\ UNCHANGED <<life, mix, streams, files, held>>

\* Throws on an unused clip; returns -1 when every voice is active.
play ==
  /\ js = "critical" /\ call.op = "play" /\ MutexFree
  /\ \/ \E v \in VoiceIds :
          /\ clips[call.id] # None /\ Lowest(v, freevoice)
          /\ voices' = [voices EXCEPT ![v] =
               [active |-> TRUE, clip |-> call.id, pos |-> 0, loop |-> call.loop]]
     \/ (clips[call.id] = None \/ freevoice = {}) /\ UNCHANGED voices
  /\ Return
  /\ UNCHANGED <<life, mix, clips, streams, owned>>

stop ==
  /\ js = "critical" /\ call.op = "stop" /\ MutexFree
  /\ voices' = [voices EXCEPT ![call.id] =
       [@ EXCEPT !.active = FALSE, !.clip = -1, !.pos = 0]]
  /\ Return
  /\ UNCHANGED <<life, mix, clips, streams, owned>>

stopall ==
  /\ js = "critical" /\ call.op = "stop_all" /\ MutexFree
  /\ voices' = [v \in VoiceIds |-> [voices[v] EXCEPT !.active = FALSE]]
  /\ streams' = [s \in StreamIds |-> [streams[s] EXCEPT !.playing = FALSE]]
  /\ Return
  /\ UNCHANGED <<life, mix, clips, owned>>

\* Calls that store a volume or a position, which this module leaves out, under the
\* mutex.  set_master_volume calls ensure() first.
StoreOnly(op) ==
  /\ js = "critical" /\ call.op = op /\ MutexFree
  /\ Return
  /\ UNCHANGED <<life, mix, tables, owned>>

voicevol   == StoreOnly("set_voice_volume")
masterm    == StoreOnly("set_master_volume")
streamvol  == StoreOnly("set_stream_volume")
streamseek == StoreOnly("seek_stream")

-----------------------------------------------------------------------------
(* Streams *)

\* fopen, the format probe and ov_open / parse_wav, all without the mutex;
\* every failure closes the file.
OpenFile ==
  /\ js = "open"
  /\ \/ \E f \in Files \ files :
          files' = files \cup {f} /\ held' = f /\ js' = "critical" /\ UNCHANGED call
     \/ Return /\ UNCHANGED <<files, held>>
  /\ UNCHANGED <<life, mix, tables, heap>>

openstream ==
  /\ js = "critical" /\ call.op = "open_stream" /\ MutexFree
  /\ \/ \E s \in StreamIds :
          /\ Lowest(s, freestream)
          /\ streams' = [streams EXCEPT ![s] = [StreamReset EXCEPT !.file = held]]
          /\ held' = None /\ Return
     \/ freestream = {} /\ js' = "drop" /\ UNCHANGED <<streams, held, call>>
  /\ UNCHANGED <<life, mix, clips, voices, heap, files>>

\* "Audio stream limit reached": stream_close_native(&candidate).
OpenDrop ==
  /\ js = "drop" /\ call.op = "open_stream"
  /\ files' = files \ {held} /\ held' = None /\ Return
  /\ UNCHANGED <<life, mix, tables, heap>>

closestream ==
  /\ js = "critical" /\ call.op = "close_stream" /\ MutexFree
  /\ files' = files \ {streams[call.id].file}
  /\ streams' = [streams EXCEPT ![call.id] = StreamReset]
  /\ Return
  /\ UNCHANGED <<life, mix, clips, voices, heap, held>>

playstream ==
  /\ js = "critical" /\ call.op = "play_stream" /\ MutexFree
  /\ streams' =
       IF streams[call.id].file = None THEN streams
       ELSE [streams EXCEPT ![call.id] =
               [@ EXCEPT !.playing = TRUE, !.paused = FALSE, !.loop = call.loop]]
  /\ Return
  /\ UNCHANGED <<life, mix, clips, voices, owned>>

\* streamcmd 0, 1 and 2 act on the slot whether or not it is used.
pausestream ==
  /\ js = "critical" /\ call.op = "pause_stream" /\ MutexFree
  /\ streams' = [streams EXCEPT ![call.id] = [@ EXCEPT !.paused = TRUE]]
  /\ Return
  /\ UNCHANGED <<life, mix, clips, voices, owned>>

resumestream ==
  /\ js = "critical" /\ call.op = "resume_stream" /\ MutexFree
  /\ streams' = [streams EXCEPT ![call.id] = [@ EXCEPT !.paused = FALSE]]
  /\ Return
  /\ UNCHANGED <<life, mix, clips, voices, owned>>

stopstream ==
  /\ js = "critical" /\ call.op = "stop_stream" /\ MutexFree
  /\ streams' = [streams EXCEPT ![call.id] = [@ EXCEPT !.playing = FALSE, !.paused = FALSE]]
  /\ Return
  /\ UNCHANGED <<life, mix, clips, voices, owned>>

-----------------------------------------------------------------------------
(* term() *)

\* shutdown_audio() up to pthread_join.
TermStop ==
  /\ js = "idle" /\ initialized
  /\ running' = FALSE
  /\ js' = "join" /\ call' = TermCall
  /\ UNCHANGED <<initialized, port, mutex_init, mix, tables, owned>>

\* Mutation: no pthread_join.
TermNoJoin ==
  /\ js = "join" /\ js' = "teardown"
  /\ UNCHANGED <<life, mix, tables, owned, call>>

TermJoin ==
  /\ js = "join" /\ mixer = "exited"
  /\ mixer' = "none" /\ js' = "teardown"
  /\ UNCHANGED <<life, frame, tables, owned, call>>

\* Free every clip and stream and clear the tables, under the mutex.
TermFree ==
  /\ js = "teardown" /\ MutexFree
  /\ heap' = heap \ {clips[i] : i \in ClipIds}
  /\ files' = files \ {streams[s].file : s \in StreamIds}
  /\ clips' = [i \in ClipIds |-> None]
  /\ voices' = [v \in VoiceIds |-> VoiceReset(0)]
  /\ streams' = [s \in StreamIds |-> StreamReset]
  /\ js' = "release"
  /\ UNCHANGED <<life, mix, held, call>>

\* Release the port, clear initialized, destroy the mutex.
TermRelease ==
  /\ js = "release"
  /\ port' = FALSE /\ initialized' = FALSE /\ mutex_init' = FALSE
  /\ Return
  /\ UNCHANGED <<running, mix, tables, owned>>

-----------------------------------------------------------------------------
(* mixthread *)

\* Mutation: the thread does not look at running.
MixerCheckForever ==
  /\ mixer = "check" /\ mixer' = "lock"
  /\ UNCHANGED <<life, frame, tables, owned, js, call>>

MixerCheck ==
  /\ mixer = "check"
  /\ mixer' = IF running THEN "lock" ELSE "exited"
  /\ UNCHANGED <<life, frame, tables, owned, js, call>>

MixerLock ==
  /\ mixer = "lock"
  /\ mixer' = "mixing" /\ frame' = 0
  /\ UNCHANGED <<life, tables, owned, js, call>>

\* Mutation: every voice restarts at its end.
MixVoiceLoops(v) ==
  LET n == BufFrames[clips[voices[v].clip]]
  IN IF ~voices[v].active THEN voices[v]
     ELSE IF n = 0 THEN [voices[v] EXCEPT !.active = FALSE]
     ELSE [voices[v] EXCEPT !.pos = IF @ < n THEN @ + 1 ELSE 1]

\* One frame of one voice.  An active voice without a clip is switched off; at
\* the end of the clip the voice restarts or ends; else one sample is read.
MixVoice(v) ==
  LET c == voices[v].clip
      n == BufFrames[clips[c]]
  IN IF ~voices[v].active THEN voices[v]
     ELSE IF c \notin ClipIds \/ clips[c] = None THEN [voices[v] EXCEPT !.active = FALSE]
     ELSE IF voices[v].pos < n THEN [voices[v] EXCEPT !.pos = @ + 1]
     ELSE IF voices[v].loop /\ n # 0 THEN [voices[v] EXCEPT !.pos = 1]
     ELSE [voices[v] EXCEPT !.active = FALSE]

\* One frame of one stream: a playing, unpaused stream goes on, or stops
\* because it ended or could not be read.
MixStream(s) ==
  IF streams[s].file = None \/ ~streams[s].playing \/ streams[s].paused
  THEN {streams[s]}
  ELSE {streams[s], [streams[s] EXCEPT !.playing = FALSE]}

\* Mutation: frame <= GRAIN.
MixFrameTooMany ==
  /\ mixer = "mixing" /\ frame <= Grain
  /\ frame' = frame + 1
  /\ UNCHANGED <<life, mixer, tables, owned, js, call>>

MixFrame ==
  /\ mixer = "mixing" /\ frame < Grain
  /\ voices' = [v \in VoiceIds |-> MixVoice(v)]
  /\ streams' \in [StreamIds -> UNION {MixStream(s) : s \in StreamIds}]
  /\ \A s \in StreamIds : streams'[s] \in MixStream(s)
  /\ frame' = frame + 1
  /\ UNCHANGED <<life, mixer, clips, owned, js, call>>

MixerUnlock ==
  /\ mixer = "mixing" /\ frame = Grain
  /\ mixer' = "output"
  /\ UNCHANGED <<life, frame, tables, owned, js, call>>

\* sceAudioOutOutput on the port; an error stops the thread for good.
MixerOutput ==
  /\ mixer = "output"
  /\ \/ mixer' = "check" /\ UNCHANGED running
     \/ mixer' = "exited" /\ running' = FALSE
  /\ UNCHANGED <<initialized, port, mutex_init, frame, tables, owned, js, call>>

-----------------------------------------------------------------------------

Begin ==
  \E op \in Ops : \E id \in Ids(op), loop \in BOOLEAN :
    /\ loop => op \in {"play", "play_stream"}
    /\ IF op \in EnsureOps THEN CallEnsuring(op, id, loop) ELSE CallGuarded(op, id, loop)

Ensure   == EnsureMutex \/ EnsurePort \/ EnsureReset \/ EnsureCreate \/ EnsurePublish
Unlocked == LoadClip \/ LoadDrop \/ OpenFile \/ OpenDrop
Critical ==
  \/ loadwav \/ freewav \/ play \/ stop \/ stopall
  \/ voicevol \/ masterm \/ streamvol \/ streamseek
  \/ openstream \/ closestream \/ playstream
  \/ pausestream \/ resumestream \/ stopstream
Term     == TermJoin \/ TermFree \/ TermRelease
Mixer    == MixerCheck \/ MixerLock \/ MixFrame \/ MixerUnlock \/ MixerOutput

Next == Begin \/ TermStop \/ Ensure \/ Unlocked \/ Critical \/ Term \/ Mixer

Spec == Init /\ [][Next]_vars

\* Both threads are scheduled by the kernel.  The mixer sleeps in
\* sceAudioOutOutput without the mutex once per grain, so a QuickJS thread that
\* waits for the mutex finds it free again and again, and gets it.
Fairness ==
  /\ WF_vars(Mixer)
  /\ WF_vars(Ensure) /\ WF_vars(Unlocked) /\ WF_vars(Term)
  /\ SF_vars(Critical)

FairSpec == Spec /\ Fairness

-----------------------------------------------------------------------------
(* Properties *)

JsPoints == {"idle", "mutex", "port", "reset", "create", "publish", "load", "open",
             "critical", "drop", "join", "teardown", "release"}

LifeTypes ==
  /\ initialized \in BOOLEAN /\ running \in BOOLEAN
  /\ port \in BOOLEAN /\ mutex_init \in BOOLEAN
  /\ mixer \in {"none", "check", "lock", "mixing", "output", "exited"}
  /\ frame \in 0 .. Grain

VoiceType  == [active : BOOLEAN, clip : ClipIds \cup {-1}, pos : Nat, loop : BOOLEAN]
StreamType == [file : Files \cup {None}, playing : BOOLEAN, paused : BOOLEAN, loop : BOOLEAN]

TableTypes ==
  /\ clips \in [ClipIds -> Buffers \cup {None}]
  /\ voices \in [VoiceIds -> VoiceType]
  /\ streams \in [StreamIds -> StreamType]
  /\ heap \in SUBSET Buffers /\ files \in SUBSET Files
  /\ held \in Buffers \cup Files \cup {None}

CallType ==
  {c \in [op : Ops \cup {"none", "term"}, id : Nat, loop : BOOLEAN] :
     /\ c.op \in ClipOps => c.id \in ClipIds
     /\ c.op \in StreamOps => c.id \in StreamIds
     /\ c.op = "stop" => c.id \in VoiceIds}

CallTypes == js \in JsPoints /\ call \in CallType

\* Every variable keeps its C type: ids index their tables, a voice's clip is -1
\* or a clip id, a slot's pointer is NULL or something malloc / fopen returned,
\* and a grain never has more than GRAIN frames.
TypeOK == LifeTypes /\ TableTypes /\ CallTypes

\* An active voice plays a clip that is still loaded, from a buffer that has not
\* been freed, and never from beyond its end: freeing a clip stops its voices,
\* and a clip loaded into a reused slot is never played from an old position.
\* So the mixer never needs its check for an unused clip.
ActiveVoiceHasSamples ==
  \A v \in VoiceIds : voices[v].active =>
    /\ voices[v].clip \in ClipIds
    /\ clips[voices[v].clip] \in heap
    /\ voices[v].pos <= BufFrames[clips[voices[v].clip]]

BufferOwnership ==
  /\ heap = ({clips[i] : i \in ClipIds} \cup {held}) \cap Buffers
  /\ \A i \in ClipIds : clips[i] # None =>
       clips[i] # held /\ \A j \in ClipIds : clips[j] = clips[i] => j = i

FileOwnership ==
  /\ files = ({streams[s].file : s \in StreamIds} \cup {held}) \cap Files
  /\ \A s \in StreamIds : streams[s].file # None =>
       /\ streams[s].file # held
       /\ \A t \in StreamIds : streams[t].file = streams[s].file => t = s

\* Every live sample buffer and every open file has exactly one owner, a table
\* slot or the call in progress: nothing leaks when a table is full or memset,
\* and nothing can be freed or closed twice.
Ownership == BufferOwnership /\ FileOwnership

\* No thread touches the mutex or the port outside its lifetime, pthread_join
\* is given a thread that exists, and pthread_create never makes a second mixer.
Lifetimes ==
  /\ MixerAlive => port /\ mutex_init
  /\ js \in {"critical", "teardown"} => initialized /\ mutex_init
  /\ js = "join" => mixer # "none"
  /\ js \in {"mutex", "port", "reset", "create"} => mixer = "none"

\* Once term() has returned (and until a call has initialized audio again) no
\* clip, stream or port is left, whichever step of ensure() failed in between.
NothingLeftAfterTerm ==
  js = "idle" /\ ~initialized =>
    heap = {} /\ files = {} /\ ~port /\ mixer = "none"

\* While the mixer is inside its critical section the QuickJS thread changes no
\* table: a grain is mixed from one consistent state of clips and streams.
GrainIsAtomic ==
  [][mixer = "mixing" => UNCHANGED clips /\ (UNCHANGED mix => UNCHANGED tables)]_vars

\* A sounding voice is never handed to another play(): it keeps its clip until
\* it has stopped, and only moves on, or back to the start when it loops.
NoVoiceStolen ==
  [][\A v \in VoiceIds : voices[v].active /\ voices'[v].active =>
       /\ voices'[v].clip = voices[v].clip /\ voices'[v].loop = voices[v].loop
       /\ \/ voices'[v].pos >= voices[v].pos
          \/ voices[v].loop /\ voices'[v].pos = 1]_vars

\* Every Audio call returns; in particular term() is never stuck in pthread_join,
\* whether the mixer runs, waits for the mutex or has died of an output error.
CallReturns == js # "idle" ~> js = "idle"

\* A voice that does not loop ends, unless the mixer has died.
VoiceEnds ==
  \A v \in VoiceIds :
    voices[v].active /\ ~voices[v].loop ~> ~voices[v].active \/ mixer = "exited"

-----------------------------------------------------------------------------
(* The inductive invariant: what holds at each point of the QuickJS thread. *)

EnsurePoints == {"mutex", "port", "reset", "create"}
TermPoints   == {"teardown", "release"}

\* The lifetime of thread, port and mutex at each point.
Phases ==
  /\ js \in EnsurePoints \cup {"publish"} => ~initialized
  /\ js \in {"load", "open", "critical", "drop", "join"} \cup TermPoints => initialized
  /\ mixer = "none" <=> (~initialized /\ js # "publish") \/ js \in TermPoints
  /\ port <=> initialized \/ js \in {"reset", "create", "publish"}
  /\ initialized \/ js \in {"port", "reset", "create", "publish"} => mutex_init

\* What the call in progress is, and what it holds.
CallState ==
  /\ js = "load" => call.op = "load_wav"
  /\ js = "open" => call.op = "open_stream"
  /\ js = "drop" => call.op \in {"load_wav", "open_stream"}
  /\ js \in EnsurePoints \cup {"publish"} => call.op \in EnsureOps
  /\ js = "critical" => call.op \in Ops
  /\ held # None <=> js \in {"critical", "drop"} /\ call.op \in {"load_wav", "open_stream"}
  /\ held # None => (held \in Buffers <=> call.op = "load_wav")

\* Outside initialized..teardown the tables are empty and no voice is active.
EmptyTables ==
  ~initialized \/ js = "release" =>
    /\ \A i \in ClipIds : clips[i] = None
    /\ \A s \in StreamIds : streams[s].file = None
    /\ \A v \in VoiceIds : ~voices[v].active

IInv == TypeOK /\ Phases /\ CallState /\ EmptyTables /\ Ownership /\ ActiveVoiceHasSamples

=============================================================================
