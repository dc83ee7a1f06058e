SPECIFICATION FairSpec
CONSTANTS
  Subscribers = {s1, s2}
  SubscriberBuffer = 2
  MaxPackets = 5
  Nobody = Nobody
INVARIANTS StreamsFaithful NoPanic
PROPERTIES NeverBlocks SeesEnd
CHECK_DEADLOCK FALSE
