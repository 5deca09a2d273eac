CONSTANTS
  MaxClips = 1
  MaxVoices = 1
  MaxStreams = 1
  Grain = 2
  b0 = b0
  b1 = b1
  b2 = b2
  Buffers = {b0, b2}
  BufFrames <- MCBufFrames
  Files = {f0, f1}
  None = None
SPECIFICATION FairSpec
INVARIANTS
  TypeOK
  ActiveVoiceHasSamples
  Ownership
  Lifetimes
  NothingLeftAfterTerm
PROPERTIES
  GrainIsAtomic
  NoVoiceStolen
  CallReturns
  VoiceEnds
