SPECIFICATION FairSpec
CONSTANTS
  BufLen = 8
  Slack = 4
  Push = 3
  Chunk = 2
  Lead = 2
  AmpFrames = 3
INVARIANTS TypeOK AmpOutlastsSound
PROPERTIES NoOverwrite EverySamplePlayed PushDone
