SPECIFICATION ReadingSpec
CONSTANTS
    OutboxCapacity = 1
    MaxFrames = 2
    MaxPublications = 1
PROPERTY KickTearsDown
