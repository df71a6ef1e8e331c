SPECIFICATION FairSpec
CONSTANTS
  Unit = 10
  Timeout = 6
  Samples = 6
  Track <- MCTrack
INVARIANTS TypeOK KeepsNavigating VotesOnFreshSamples OneCorruptLane NoReadAfterClose NoSilentLoss
PROPERTIES EmergencyStopsTime FlightEnds VotesAreRight
