SPECIFICATION FairSpec
CONSTANTS
    OutboxCapacity = 1
    MaxFrames = 3
    MaxPublications = 2
INVARIANTS RepliesFollowRequests
PROPERTIES WaitingTaskHearsKick LostClientIsReleased WriterEndEndsConnection
