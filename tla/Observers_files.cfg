SPECIFICATION FairSpec
CONSTANTS
  g1 = g1 g2 = g2
  Games <- Two
  FileNames <- Files
  MaxEvents = 5
  MaxFaults = 1
  Scrap = Scrap
  Configurations <- Few
INVARIANTS RecordsFaithful ListRecovers PlaylistSound
PROPERTIES ObserversReturn
CHECK_DEADLOCK FALSE
