\* A GPU readback into an mShmData that is NULL or smaller than the frame.
CONSTANTS
    Widths <- MCCompWidths
    Heights <- MCCompHeights
    InitWidth = 4
    InitHeight = 4
    Framerates <- MCCompFramerates
    Bitrates <- MCCompBitrates
    DefaultFramerate = 30
    DefaultBitrate = 192
    MinOutputBufferSize = 32
    MinCompressionRatio = 2
    MetaSize = 24
    WordBits = 12
    Platform = "powervr"
    IntOverflowTraps = FALSE
    StridePads <- MCStridePads
    MaxLockLeaks = 1
SPECIFICATION ComponentSpec
INVARIANT ReadbackFitsScratch
VIEW ComponentView
