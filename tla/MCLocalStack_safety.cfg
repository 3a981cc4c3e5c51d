SPECIFICATION Spec
CONSTANTS
  first = first
  second = second
  shared = shared
  Runs = {first, second}
  Directories = {shared}
  Directory <- OneDirectory
  Source <- OneOfEach
  NoOne = NoOne
  MaxFrames = 1
INVARIANTS
  TypeOK
  OneWriter
  PassedMeansOwnLoader
\* Runs end, and loaders may be left without a broker.
CHECK_DEADLOCK FALSE
