CONSTANTS
  SampleCapacity = 2
  GapCapacity = 1
  ContinuityCapacity = 1
  MaxSequence = 4
  SampleRecords <- MCSampleRecords
  NoSample = NoSample
  MaxChunkSamples = 2
  TokenModulus = 3
  BootEpoch = 1
  OtherEpoch = 2
  MaxGapCount = 2
  GapInputs = {"SourceLoss", "IngressOverflow"}
  BreakInputs = {"Unknown"}
  Capacity = 4
  CursorModulus = 16
  Values = {a, b}
  NoValue = NoValue
  Torn = Torn
SPECIFICATION MCSpec
INVARIANTS
  JournalConsistent
  AppendAccepts
  DeliveryExact
PROPERTIES CursorsAdvance ImplementsFifo
