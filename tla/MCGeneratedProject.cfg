SPECIFICATION FairSpec
CONSTANTS
  Walk <- ProjectWalk
  Outputs <- ProjectOutputs
  Projects <- ThreeProjects
  Absent = Absent
  NoStruct = NoStruct
  MaxEdits = 1
  MaxDeaths = 1
  StateFields <- Account
  StructFields <- FourStructs
  EventStates <- SomeEvents
  Width = 2
  Null = Null
  NoObject = NoObject
  SnapshotFrequency = 2
  MaxSequence = 3
INVARIANTS TypeOK OutputsAgree StoredEventsDecode LoadsGiveWhatWasSaved
PROPERTY Regenerates
