CONSTANTS
  MaxSize = 3
  IoLimit = 2
  StartOffsets <- MCOffsets
  Kinds <- MCKinds

SPECIFICATION FairSpec

INVARIANTS
  CountsTrue
  AllMeansAll
  StoppedOnlyByToken
  NoFalseDescriptor
  WouldBlockStaysInside

PROPERTIES
  StopDelivers

CHECK_DEADLOCK FALSE
