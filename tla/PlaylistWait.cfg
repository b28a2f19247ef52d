\* Readers are released by parts, by uploads and by deadlines while the Mac publishes.
SPECIFICATION FairSpec
CONSTANTS
  g1 = g1
  g2 = g2
  h1 = h1
  Readers <- TwoReaders
  Handlers <- OneUpload
  MaxMSN = 1
  MaxPart = 1
INVARIANTS NoLostPublish
PROPERTIES PublishesReleaseTheLate
CHECK_DEADLOCK FALSE
