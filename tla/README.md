# VitaJS: a TLA+ verification project

VitaJS runs JavaScript games on the PlayStation Vita: a QuickJS engine, a patched
QuickJS library with timers and an event loop, and native modules written in C. The
modules here model the parts of it that keep state, TLC checks them on small
instances, and TLAPS proves what they say about safety for every value of the constants.

Source paths are relative to `src/`, the root of the repository.

## The system

| Part | Source | State | Operations | Talks to |
|---|---|---|---|---|
| Script runner | `src/main.c`, `src/env.c` | runtime, context, `error_buf` | `runScript`, repeated while it returns a message | event loop, all modules |
| Event loop | `quickjs/quickjs-libc.c` | `os_timers`, `os_rw_handlers`, ports; the engine's job queue | `setTimeout`, `setInterval`, `setImmediate`, `clear*`, read/write handlers, `js_std_loop`, `js_os_poll` | scripts through callbacks, the garbage collector through finalizer and mark |
| Audio mixer | `src/modules/audio.c` | `clips`, `voices`, `streams`, mutex, port, mixer thread | `load_wav` ... `term`, `mixthread` | scripts; the output port |
| Audio streams | `src/modules/audio.c` | position, cache, decoder | play, pause, resume, stop, seek; `mix_stream` | the mixer; the file or Vorbis decoder |
| Net (async) | `src/modules/net_async.c`, not in the build yet | one `request` record and its mutex; staged initialisation | `fetch`, `__pump`, a worker thread per request | promises; HTTP library |
| Net (sync) | `src/modules/net.c` | staged initialisation, objects and response buffer of a request | `request`, `get`, `post`, `is_connected`, `get_ip`, `term` | network and HTTP libraries |
| Dialog | `src/modules/dialog.c` | `current_dialog`, buffers of the keyboard | `message`, `keyboard`, `update`, `result`, `abort` | native common dialogs, which have a state of their own |
| Screen | `src/modules/screen.c` | texture table, number of ids given out | load, create, free, draw, getters | vita2d |
| Font | `src/modules/font.c` | per-size cache of a font | load, free, draw, measure; a finalizer | vita2d |
| System | `src/modules/system.c` | none of its own (files, descriptors) | list, copy, move, rename, file descriptors, language | file system |
| Power | `src/modules/power.c` | none (clocks) | `set_clocks`, getters | system |
| App, Pads, Touch, graphics, debug screen | `src/modules/{app,pads,touch}.c`, `src/graphics.c`, `src/common/` | none | thin wrappers | system |
| Engine | `quickjs/quickjs.c` | vendored | | |
| Task manager, memory, old system module | `src/taskman.c`, `src/memory.c`, `src/system.c` | not built | | |

What is hard in it, and what makes each part correct:

* **Two threads over one set of tables** (audio). The QuickJS thread frees clips,
  closes streams and tears everything down while the mixer walks the same tables.
  Correct means: no sample is read from a freed buffer or from beyond its end, every
  buffer and file has one owner, the mutex and the port outlive their users, and
  every call returns.
* **Initialisation in stages, each of which can fail** (audio, net). A later call
  tries again from the first stage that is not done.
* **A cache between a position and a decoder** (streams): what is heard must be what
  was asked for, whatever seeks, loops, holes and short reads came before.
* **An object with two owners** (timers): the list of the loop and the handle of the
  script; the last one frees it.
* **A worker that answers when it likes** (async net): one request record passes
  from the script to the worker and back, and a promise is settled once.
* **A single-threaded loop that must come round to everybody** (event loop).
* **Memory with owners in two modules** (textures and fonts): ids, caches, explicit
  frees and finalizers, and script code that runs in the middle of a native function.
* **Copies that may stop half-way** (files): a failure at any step must not lose data.

`PROJECT.json` lists the hazards line by line, each with the properties about it.

## Modules

| Module | Models | Composed of |
|---|---|---|
| `AudioMixer` | the Audio module: both threads, all tables | |
| `AudioMixerProofs` | theorems about `AudioMixer` | extends `AudioMixer` |
| `MCAudioMixer` | TLC instance: clips of different lengths, one of them empty | extends `AudioMixer` |
| `AudioStream` | one open stream, sample by sample | details what `AudioMixer` leaves open about a stream (no formal refinement) |
| `WavOpen` | opening a file: `parse_wav`, then the stream | extends `AudioStream` |
| `AudioStreamProofs` | theorems about `WavOpen` and the stream it opens | extends `WavOpen` |
| `MCAudioStream` | TLC instance: files slower and faster than the output | extends `WavOpen` |
| `EventLoop` | `main`, `runScript`, event loop, timers | |
| `EventLoopProofs` | theorems about `EventLoop` | extends `EventLoop` |
| `MCEventLoop` | TLC instance: delays below and above 0 | extends `EventLoop` |
| `FetchSpec` | what `Net.fetch` promises, abstractly | |
| `NetAsync` | `net_async.c`; implements `FetchSpec` | instantiates `FetchSpec` |
| `NetAsyncProofs` | theorems about `NetAsync`, the refinement among them | extends `NetAsync` |
| `Net` | `net.c` | |
| `NetProofs` | theorems about `Net` | extends `Net` |
| `DialogSpec` | what the Dialog module promises a script, abstractly | |
| `DialogText` | UTF-8 to UTF-16 and back, as operators | |
| `Dialog` | `dialog.c` with its start-up and shutdown in `main`; implements `DialogSpec` | extends `DialogText`, instantiates `DialogSpec` |
| `DialogProofs` | theorems about `Dialog`, the refinement among them | extends `Dialog` |
| `Textures` | the texture table of `screen.c` | |
| `Fonts` | `font.c` | |
| `Graphics` | textures and fonts of one script in one graphics memory | extends `Textures`, instantiates `Fonts` |
| `GraphicsProofs` | theorems about `Graphics` | extends `Graphics` |
| `Files` | `system.c`: copy, move, descriptors | |
| `FilesProofs` | theorems about `Files` | extends `Files` |

Definitions carry the names of the C functions where one definition stands for one
function. Operators that the comment calls a *mutation* are plausible bugs: they are
used by no specification, and each is listed in `PROJECT.json` with the property that
notices it when it takes the place of the correct definition.

### AudioMixer

`js` is where the QuickJS thread is inside an Audio call, `call` the call with its
arguments, `held` the buffer or file that only this call knows. A call that is
already initialized goes straight to its critical section (`js = "critical"`); one
that is not walks through `ensure()` (`"mutex"`, `"port"`, `"reset"`, `"create"`,
`"publish"`), each stage of which may fail. Work outside the mutex (`load_clip`,
opening a stream, releasing what did not fit into a table) is a step of its own.
`term()` is `TermStop`, `TermJoin`, `TermFree`, `TermRelease`.

`mixer` is where `mixthread` is. It holds the mutex exactly while `mixer = "mixing"`,
one frame per step; a critical section of the QuickJS thread is one step, enabled only
when the mixer does not hold the mutex. `EnsureReset` clears the tables without the
mutex, as the code does.

`heap` and `files` are what has been allocated or opened and not released; a buffer
or file may be handed out again after its release. Sample values and volumes are left
out, since nothing depends on them. A playing stream may end at any frame here;
`AudioStream` says when. It is assumed that converting an argument to a number runs no
script code, and that Audio is used from one QuickJS thread (no `os.Worker`).

### AudioStream

Each frame's content is its number, so that what comes out shows where it was read.
The position, a `double` in frames, is an integer in `OutRate`-ths of a frame; one
output sample advances it by the file's rate. `stream_fill_wav` and `stream_fill_ogg`
yield the set of their possible outcomes: a WAV may be shorter than it announces, a
seek or read may fail, an OGG may have holes whose frames are lost and not counted in
`ogg_decode_frame` (`win.decode`) although the decoder (`win.decoder`) passes them.

`seek_stream(NaN)` passes both comparisons of `streamseek`, so the position may be
`NaN`. It then never is at the end, and converting it to a frame number is undefined:
`FrameAt` is frame 0 or one that is not there. Such a stream neither ends nor loops until
the next seek or stop, which `StreamEnds` and `LoopGoesOn` say.

### WavOpen

One round of `parse_wav`'s loop is a step; what a header says is chosen when it is
first read, and remembered, since the bytes of the file do not change. Offsets are
32-bit and wrap at `Wrap`. A chunk so large that the offset of the next one wraps
around may point back into the file, and the walk may then go round for ever:
`WalkEnds` promises an end only for walks that did not wrap. When the walk has
found both chunks the stream of `AudioStream` is open, with as many frames as the data
chunk announced.

### EventLoop

`at` is the control point of the one thread. A script at top level, in a job or in a
callback may take any number of the script steps before it returns. Timers are
numbered in the order of creation, which is their order in `os_timers`. Of the clock
only the time left of each timer is kept: `left` as `get_time_ms()` sees it, which
moves only once a second, and `due` in true milliseconds, which only the property
`CalledWhenDue` reads. Timers in `Captures` have callbacks that refer to their own
handle; the collector may then destroy callback and handle together. Calling a
destroyed function is undefined: it may look like any callback or crash the program.
Signals, which the Vita does not deliver, are left out, and so are workers: `os.Worker`
cannot be created, because `js_new_message_pipe` returns `NULL` in this build.
`setImmediate` creates a timer with interval 0, which `js_os_poll` repeats on every
turn until it is cleared, and so is an interval below 0, except that -1 is the mark of a
one-shot timer and makes `setInterval` a `setTimeout`.

A poll calls only the first expired timer of the list. Time passes wherever the thread
is, also in callbacks, so an interval whose callback takes as long as the interval has
expired again at the next poll, as an immediate always has, and the timers behind it are
never called. The model has this starvation. `TimersServed` therefore states its
condition: a timer is called or cleared if polls look past the repeating timers ahead of
it again and again (`PollsPast`). What it shows is that nothing else, one-shot timers ahead,
timers behind, jobs, failures, keeps a timer waiting. `main` runs a script again only when it could not be loaded or
compiled, that is before any of its code ran.

### NetAsync and FetchSpec

A fetch, its promise, its URL, its worker and its response body all have the number
of the fetch. `request` is the shared record; critical sections are steps. `low` says
that QuickJS may run out of memory, in which case an error object or string may not be
made, or the call of `resolve` or `reject` itself fails: the promise is then rejected
instead of resolved or stays pending, as in the code. A worker's buffer grows as in the code, one
doubling of the capacity at a time, until the piece fits, and is then cut off at the
largest response. `FetchSpec` has only the promises and the
request in flight; `InFlight` maps `request` or, while `__pump()` settles, the record
it took.

### Dialog and DialogSpec

`current_dialog` and the static buffers belong to the module; `native` is the system's
own record of each kind of dialog, which the module only sees through status, result,
abort and term. The native dialog becomes visible when `update()` has drawn it, is
answered by the user or obeys `abort()`, whichever comes first, and is there until it
is terminated. It is external: it is modelled by what `dialog.c` expects of it. Opening
fails in every way the code handles, with the stores to the buffers that precede the
failure. `stranded` are the kinds of which the system keeps a dialog that the module has
forgotten, and there are three ways into it: `result()` resets `current_dialog` although
`sceMsgDialogTerm` or `sceImeDialogTerm` failed, and throws away the result;
`vitajs_dialog_system_shutdown` ignores their failure; and `message()` gives up a box that
`sceMsgDialogInit` opened but that is not running when it looks, which may be gone or
may have finished. Nothing in the module terminates such a dialog later, so no other of
its kind can be opened. `NoOrphan` says that these failures are the only way to an
orphan. `Preloads` are the system modules that may be loaded before the program starts;
unloading one that the program has loaded is assumed to succeed.
Options objects are plain: reading a property runs no script code. Texts are sequences
of characters, which `DialogText` converts to UTF-16 units and back as the code does:
with room for the final 0, a pair never split by the conversion but possibly by the cut
to `maxLength`, a lone surrogate as three replacement characters. The two loops are given
by what every position of their output holds (`Offset`, `Decoded`; `Starts`, `Encoded`)
rather than by recursion, which is what lets the provers reason about them. A U+0000
inside a text, at which `strlen` would cut it off, is left out. `DialogSpec` knows only
`status()`, the number of dialogs, their outcomes, the results collected and whether the
program has ended, after which nothing happens; its `Lose` is a result lost with a failing
termination.

### Net

`at` is where the one call in progress is; a step is one call of a library. `started`
are the module's flags, `up` counts what the system really has, so that a stage started
twice or lost shows. `term()` may come after any failed initialisation. `handles` are
the objects of the HTTP library. The server may send forever in pieces of any size; the
largest response bounds what is kept, and the buffer grows for it one doubling at a time.
`post(url, body, null)` takes the literal
`"application/json"` as content type and frees it like a script's string, since it only
counts its arguments: the model lets the program die there (`ReturnCrashes`), and
`CallReturns` excludes this call.

### Textures, Fonts and Graphics

A texture or a font of one size is the block of graphics memory it occupies, and blocks
are handed out again after their release. `handles` is what the script was told about
each texture. The getters and the rotated or scaled drawing functions store through a
null pointer (they pass `textureId`, which is 0, for `&textureId`): calling one ends the
program, `crashed`. Of a font only its caches are state. A text function looks up the
font, converts numbers, looks up the atlas, converts the text and draws; between these
steps `Script` may run, which is how a `toString` method can call the module again.
`free_font` of the very font that is being drawn is possible there and leaves a dangling
atlas; `DrawsLiveFont` excludes exactly this. `Graphics` puts both modules into one
memory.

### Files

The file system is external: any call may fail, a write may be short, an open file is
neither removed nor renamed. `two_path` is a step per system call, so that every state
in which the program can be stopped is a state of the model. A copy of a file onto
itself truncates it before it is read, and a move onto itself then removes it; the
property is about two different files. `file` is a descriptor of the script, with
the position the script must believe in from what the functions returned. It counts what
it read by the length of the string, which is right for ASCII; `readFile` decodes UTF-8, so
for other texts a script cannot count on it.

## Runs

All bounds are in the `.cfg` files.

| Run | Instance | Checks |
|---|---|---|
| `audio_threads` | 1 voice, 1 clip and 1 stream slot, 2 buffers (one empty), 2 files, grain of 2 | types; `ActiveVoiceHasSamples`; `Ownership`; `Lifetimes`; `NothingLeftAfterTerm`; `GrainIsAtomic`; `NoVoiceStolen`; `CallReturns`; `VoiceEnds` |
| `stream_play` | file headers of up to 7 bytes with offsets modulo 16; cache of 2, files of up to 5 frames, slower and faster than the output, sound, cut off or damaged (failing reads, holes of a frame), 4 calls | types and ranges; `HeardFrames`; `HeardNeverBehind`; `LoopGoesOn`; `StreamEnds`; `WalkEnds` |
| `loop_timers` | 2 timers, delays of -2, -1, 1 and 3 ms, a second of 2 ms, 1 pending job | types; `FreedByLastOwner`; `EndsWhenDone`; `ClearedForGood`; `TimersServed` |
| `net_fetch` | 3 fetches, chunk 3, largest response 7 | types and sizes of the buffer; `KeepsPromises` (refinement of `FetchSpec`); `BodyOwned`; `FetchSettles` |
| `net_request` | chunk 3, largest response 13 | `NetOrder`; `NothingHeld`; `ResponseWhole`; `CallReturns` |
| `dialog_script` | 2 dialogs, texts of up to 2 characters, system modules preloaded or not | types; `NoOrphan`; `ResultsTruthful`; `ModulesRestored`; `OneAtATime` (refinement of `DialogSpec`); `DialogCloses` |
| `graphics_memory` | 4 blocks, 2 ids, 2 fonts of 2 sizes | types; `OneOwner`; `DrawsLiveFont`; `IdsNeverReused` |
| `files_copy` | 2 paths, files of up to 3 bytes, copied in chunks of 2 | `NothingLost`; `PositionKnown` |

Why the bounds are enough to be interesting: there are always more buffers and files
than slots, so that tables fill up and slots are reused; a grain has several frames, so
that a voice starts, ends and loops within one; an empty clip and one that spans
grains and ends inside one occur; a file is longer than two caches, so that a
refill happens in the middle and the pair of frames to interpolate straddles it, and
one rate steps over the end; two timers suffice for one to stand in front of the
other; the second is longer than one delay and shorter than another, and the delays of 0 or
less are the mark of a one-shot, an immediate and one that has always expired; three fetches
allow one refused between two accepted; two dialogs are the one that is open and the one
that must not be, or comes after, be it one that a stranded dialog blocks; the largest response is no multiple of the chunk, so that
the doubled buffer is cut off; the two ids run out while memory is left, and there are as
many blocks as two fonts of two sizes need, so that memory is reused and runs out; a file
takes two chunks to copy, the second of them short; and offsets modulo 16 let a chunk of
a 7-byte file wrap around, the other half of the range being the negative offsets that
`fseek` refuses. What the safety properties say does not depend on any of these bounds:
the theorems below hold for all of them.

No symmetry is used: several runs check liveness, where it would not be sound.

Four runs end in a violation: they state what a document says and the code does not do.

| Run | Stated by | What the counterexample shows |
|---|---|---|
| `loop_rate` | `docs/timers.md:20`, a 16 ms interval suits a 60 Hz loop | `get_time_ms()` divides microseconds by 1000000: no timer moves within a second |
| `loop_rejected` | `src/env.c:112`, timers and jobs run only after successful evaluation | an exception at top level is a rejected promise, which counts as success; the error is lost |
| `loop_captured` | `quickjs/doc/quickjs.texi:749`, the function is called after the delay | the collector destroys the callback of a pending timer if only that callback refers to the handle |
| `texture_ids` | `docs/screen.md:99`, JPG and BMP loaders can be used like the PNG loader | `textureId = new_texture(texture) < 0` stores the comparison: every such texture gets the id 0, and so do empty textures |

### Fairness

* `AudioMixer`: the kernel schedules both threads. Strong fairness for the critical
  sections: the mixer blocks in `sceAudioOutOutput` without the mutex once per grain, so
  a waiting QuickJS thread finds the mutex free again and again. No call is ever forced
  to be made.
* `WavOpen`: the QuickJS thread parses the file to its end, then the mixer goes on mixing.
* `EventLoop`: the thread of the runtime runs and time passes, independently of each
  other. That scripts return to the loop, and that repeating timers leave room for those
  behind them, is not assumed of the specification: it is the condition in `TimersServed`.
* `NetAsync`: threads are scheduled, HTTP calls return, and the script keeps calling
  `__pump()`, which is how the module is meant to be used.
* `Net`: the thread runs and the functions of the libraries return, be it with an error.
* `Dialog`: the script calls `update()` and asks for the result frame after frame, as
  `docs/dialog.md` demands, and the user answers a dialog that has a button. Memory is
  not exhausted for ever.

Deadlock is checked in `AudioMixer`, `Net` and `Files`. In the other models behaviours
end: a stream ends and calls run out, the script ends, the fetches run out, the program
exits or crashes.

## Proofs

Every invariant, action property and refinement of the passing runs is a theorem, for
every value of the constants that satisfies the assumptions below. In each proof module
`IInv` is the inductive invariant and `Invariance` the theorem that it holds; TLC has
checked each `IInv` on the instance of the run. The others follow from it. Besides, there
are theorems that no run checks: what the text conversions compute, and that the loops of
the code make a measure smaller with every step.

| Module | Theorem | Says |
|---|---|---|
| `AudioMixerProofs` | `TypeCorrect` | `Spec => []TypeOK` |
| | `SamplesSafe` | `Spec => []ActiveVoiceHasSamples` |
| | `SingleOwner` | `Spec => []Ownership` |
| | `LifetimesRespected` | `Spec => []Lifetimes` |
| | `TermReleasesAll` | `Spec => []NothingLeftAfterTerm` |
| | `GrainAtomicity` | `Spec => GrainIsAtomic` |
| | `VoicesNotStolen` | `Spec => NoVoiceStolen` |
| `AudioStreamProofs` | `TypeCorrect` | `OpenSpec => []TypeOK` |
| | `FramesHeard` | `OpenSpec => []HeardFrames` |
| | `NeverBehind` | `OpenSpec => []HeardNeverBehind` |
| | `LoopsGoOn` | `OpenSpec => LoopGoesOn` |
| | `RoundsMoveOn` | `OpenSpec => RoundMovesOn`: without a wrap-around every round of `parse_wav` moves forward and reads a new header |
| | `RoundsAreBounded` | `OpenSpec => []RoundsBounded`: at most one round per byte of the file |
| `EventLoopProofs` | `TypeCorrect` | `Spec => []TypeOK` |
| | `LastOwnerFrees` | `Spec => []FreedByLastOwner` |
| | `LoopEndsWhenDone` | `Spec => []EndsWhenDone` |
| | `NeverCalledAgain` | `Spec => ClearedForGood` |
| `NetAsyncProofs` | `TypeCorrect` | `Spec => []TypeOK` |
| | `BodiesOwned` | `Spec => []BodyOwned` |
| | `Implements` | `Spec => KeepsPromises`, the refinement of `FetchSpec` |
| | `WorkersEnd` | `Spec => []Measured /\ WorkersShorten`: every step brings a worker nearer to its exit |
| `NetProofs` | `StagesInOrder` | `Spec => []NetOrder` |
| | `NothingLeftHeld` | `Spec => []NothingHeld` |
| | `ResponsesWhole` | `Spec => []ResponseWhole` |
| | `CallsShorten` | `Spec => Shortens`: every step of a call goes down in the order `Shorter` |
| | `NothingDescendsForEver` | `Shorter` is well-founded |
| `DialogProofs` | `PairsKept` | `utf8_to_utf16` never splits a pair |
| | `RoundTrip` | `utf16_to_utf8(UnitsOf(text)) = text` for every text without lone surrogates |
| | `TypeCorrect` | `Spec => []TypeOK` |
| | `NoneOrphaned` | `Spec => []NoOrphan` |
| | `ResultsAreTruthful` | `Spec => []ResultsTruthful` |
| | `ModulesAreRestored` | `Spec => []ModulesRestored` |
| | `Implements` | `Spec => OneAtATime`, the refinement of `DialogSpec` |
| `GraphicsProofs` | `TypeCorrect` | `GraphicsSpec => []TypeOK` |
| | `SingleOwner` | `GraphicsSpec => []OneOwner` |
| | `AtlasLive` | `GraphicsSpec => []DrawsLiveFont` |
| | `IdsNotReused` | `GraphicsSpec => IdsNeverReused` |
| `FilesProofs` | `CopyLosesNothing` | `Spec => []NothingLost` |
| | `ScriptKnowsPosition` | `Spec => []PositionKnown` |
| | `CopiesEnd` | `Spec => []StepsCount /\ CopyShortens`: the calls ahead of a copy are bounded by the bytes left |

What is assumed of the constants is in the `ASSUME` of the module that declares them:
tables, bounds and sizes are natural numbers; a grain, a chunk, a cache, a rate, a second
and the keyboard's longest text are not 0, and the delays are any integers
(`MixerAssumption`, `StreamAssumption`,
`NetAssumption`, `LoopAssumption`, `FilesAssumption`, `DialogAssumption`); `NULL` is no
block and no font (`TextureAssumption`, `FontAssumption`); there is a byte, and no file is
called what stands for none (`FilesAssumption`). The code's own constants satisfy all of
them.

The invariants, and why the properties alone are not inductive:

* `AudioMixer`: what holds at each control point of the QuickJS thread. `Phases` says
  when thread, port and mutex exist; `CallState`, which call is in progress and whether it
  holds a buffer or a file; `EmptyTables`, that the tables are empty while audio is not
  initialized. The last is why `EnsureReset` may overwrite the tables without losing a
  pointer, and `Phases` why it may do so without the mutex: no mixer exists at that
  point. `Ownership` is needed by `SamplesSafe`, since freeing one clip must not free
  the samples of another.
* `AudioStream`: what a frame sounds like follows from what the cache holds. `Within`
  keeps cache and decoder in the file; `NotBehind`, for all files, says that a cached
  frame is at least as late as its place and that the decoder is at least where
  `ogg_decode_frame` believes it to be; `Exact`, for undamaged files, that both agree and
  the cached frames are there. Lemma `Sampled` derives what `stream_sample()` returns, and
  that it finds every frame there is, which is why a loop cannot stop (`LoopsGoOn`); that
  a position before the end is in the file (`FrameInFile`) is the arithmetic behind it.
  For `parse_wav`, `WInv` says that without a wrap-around the headers read so far lie
  behind the offset and are no more than the bytes passed over.
* `EventLoop`: `RootsExist`, that a script's reference is to a handle object that is there,
  and `LoopEnds`, that the loop polls only when jobs have run out or one has failed, and
  that the list of timers is empty from the release of the handlers on.
* `NetAsync`: `WorkersApart` says that at most one worker has not published yet, and that
  it is the one `request` waits for; with `RequestWhole` (what `request` and `taken` hold
  at each point) and `UnbornLater` (fetches are numbered in order) every step maps to one
  of `FetchSpec`. `BufferOK` relates capacity, length and the piece being read while the
  buffer is doubled, so that the cut-off at the largest response still leaves room for
  the terminating NUL. `Growing` adds what the measure of a worker needs: a piece that is
  not in the buffer exists only while it grows, from a capacity that is not 0.
* `Net`: `StagesOrdered`, that the stages that are up form an initial part of their order,
  and `FlagsTrue`, that the flags say so; `ObjectsOrdered` for the HTTP objects;
  `CallState` for what may be held where; `BufferFits` and `Received` for the response.
  `Variant` orders the steps of a call: the kind of step, then how many stages, objects or
  bytes are left for it, then how far a growing buffer is from the largest. The doubling
  ends because a capacity that is doubled is not 0, which `BufferFits` says too.
* `Dialog`: `OpenDialog`, that the dialog the module remembers is the last one opened, has
  an outcome exactly when it has finished, and was laid out as the module believes, while
  every other native dialog is closed or was left behind, finished and without an owner
  (`Unowned`); `Filled`, that the keyboard's buffer holds the units
  of the text it should stand for, unless that was cut off; `ModulesKnown` and
  `AppUtilKnown` for the modules at each stage of the program. The lemmas about texts need
  induction. It comes from `LeastElement`, the least-number principle, which follows from
  the library's theorems on well-founded relations: the first position at which a claim
  fails is compared with the one before it.
* `Graphics`: `PointersLive`, `PointersApart` and `NothingLost` are `OneOwner` taken apart
  by the kinds of holders, textures and atlases; each step takes blocks from the common
  memory or gives them back. `CallHoldsAtlas` follows the text function in progress, which
  knows the atlas of its font and size unless that font was freed.
* `Files`: `SourceKept` and `Copied`, that the destination is the part of the source copied
  so far, `ReadWithin`, that the chunk being written is the next part, and `Descriptors`,
  which files the call has open at each step. `Onward` is what the loop's end depends on: a
  chunk is not empty, and a file copied onto itself is empty before it is read, so that
  the copy does not feed itself.

Only model-checked:

* Liveness: `CallReturns` (twice), `VoiceEnds`, `StreamEnds`, `WalkEnds`, `TimersServed`,
  `FetchSettles`, `DialogCloses`. The prover knows no fairness. For `CallReturns` of `Net`,
  `WalkEnds` and the workers of `FetchSettles` the theorems on measures prove the part that
  is not temporal: there are no infinitely many steps.

## Plan

Done, in this order: `AudioMixer` and its proofs, `AudioStream`, `EventLoop`,
`NetAsync` with `FetchSpec`, `Dialog` with `DialogSpec`; then `Net`, `Textures`, `Fonts`
and their composition `Graphics`, `Files`, `DialogText`, `WavOpen` and NaN positions; then
the proofs about all of them, those about the text conversions and the ends of the loops
last.

What may be added to the proofs: measures for the other liveness properties (`VoiceEnds`,
`StreamEnds`), and a formal refinement between the streams of `AudioMixer` and
`AudioStream`.

## Not modelled

* The engine (`quickjs/quickjs.c`, its Unicode, regular expression and number
  libraries, test runner and generators): vendored, and nine tenths of the lines of the
  repository. What the modules depend on (job queue, finalizers, cycle collector,
  conversions that call script code) appears where it matters.
* The rest of `quickjs-libc.c` (`std` and `os` files, processes, module loading,
  printing): vendored wrappers of the C library.
* App, Pads and Touch: wrappers that keep no state. Power: likewise; `setClocks` applies
  four settings and stops at the first that fails, without taking back the others.
* Drawing, text output, the error screen, graphics start-up.
* `System`'s `listDir`, `doesFileExist`, `loadELF`, `delay`, and the language queries:
  they change nothing. `read_language` starts AppUtil for itself only when start-up failed
  to, in which case `main` has already ended (`ModulesRestored`).
* The linear resampling of `load_clip`, volumes and interpolation: arithmetic on samples,
  and with it the size of its buffer, whose computation at `audio.c:252` overflows a 32-bit
  `size_t` when a header with a very low rate asks for 2^30 frames or more.
* Sources that are not part of the build (`src/taskman.c`, `src/memory.c`, `src/system.c`).
* Script code run by conversions of arguments other than in the text functions of fonts.

Out of the prover's reach and left to TLC: liveness under fairness.
