\* AndroidOpaque without metadata mode.
CONSTANTS
    Widths <- MCWidths
    Heights <- MCHeights
    InitWidth = 4
    InitHeight = 4
    Framerates <- MCFramerates
    Bitrates <- MCBitrates
    DefaultFramerate = 30
    DefaultBitrate = 192
    MinOutputBufferSize = 32
    MinCompressionRatio = 2
    MetaSize = 24
    WordBits = 8
    Platform = "powervr"
    IntOverflowTraps = FALSE
SPECIFICATION Spec
INVARIANT OpaqueOnlyInMetaMode
