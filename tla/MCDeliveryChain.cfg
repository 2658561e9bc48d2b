CONSTANTS
  SampleCapacity = 1
  GapCapacity = 1
  ContinuityCapacity = 1
  MaxSequence = 2
  SampleRecords <- MCSampleRecords
  NoSample = NoSample
  MaxChunkSamples = 1
  TokenModulus = 3
  MaxSamples = 1
  MaxEpoch = 2
  MaxCrashes = 1
  RecordsFirst = {FALSE, TRUE}
  MaxOnLine = 2
SPECIFICATION FairSpec
INVARIANTS
  CaptureExact
  ProtocolAgrees
PROPERTY EventuallyCaptured
