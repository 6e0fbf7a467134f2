\* The whole component on a powervr build: negotiation, EGL and extraction.
CONSTANTS
    Widths <- MCPassWidths
    Heights <- MCCompHeights
    InitWidth = 4
    InitHeight = 4
    Framerates <- MCCompFramerates
    Bitrates <- MCCompBitrates
    DefaultFramerate = 30
    DefaultBitrate = 192
    MinOutputBufferSize = 32
    MinCompressionRatio = 2
    MetaSize = 24
    WordBits = 12
    Platform = "powervr"
    IntOverflowTraps = FALSE
    StridePads <- MCPassPads
    MaxLockLeaks = 1
SPECIFICATION ComponentSpec
INVARIANT NoDoubleRelease
INVARIANT NothingWithoutDisplay
PROPERTY EglSessionRefined
VIEW ComponentView
