CONSTANTS
  Capacity = 3
  WriteSizes = {1, 2, 4}
  ReadSizes = {2, 4}
  Formats = {pcm44, pcm48}
  Volumes = {full, half}
  FullVolume = full
  NoFormat = NoFormat
  MaxBytes = 6
  MaxOpens = 2
SPECIFICATION FairSpec
INVARIANTS
  TypeOK
  VolumeFollows
  CallbackSafe
PROPERTIES
  NoStaleAudio
  FifoSafety
  OperationsEnd
CHECK_DEADLOCK FALSE
