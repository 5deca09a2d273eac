CONSTANTS
  MaxDialogs = 2
  MaxText = 2
  Preloads = {{}, {"APPUTIL", "IME"}}
SPECIFICATION FairSpec
CHECK_DEADLOCK FALSE
INVARIANTS
  TypeOK
  NoOrphan
  ResultsTruthful
  ModulesRestored
PROPERTIES
  OneAtATime
  DialogCloses
