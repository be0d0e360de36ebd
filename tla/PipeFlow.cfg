SPECIFICATION Spec
CONSTANTS
    Lidar = {"l"}
    MaxRun = 2
    MaxCaptures = 4
    EdgeDepth = 2
    RenderDepth = 1
    Codec <- MCCodec
    ReplayLeft = 3
    PublishResult = TRUE
    Serve = TRUE
    PageFails = FALSE
    Rejoins = FALSE
INVARIANT PipeTypeOK
INVARIANT StreamLive
INVARIANT IdleHoldsNothing
INVARIANT NoGapNoLoss
INVARIANT FramesAccounted
PROPERTY ImplementsFrameFlow
CHECK_DEADLOCK FALSE
