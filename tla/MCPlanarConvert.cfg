CONSTANTS
    Widths <- MCConvWidths
    Heights <- MCConvHeights
    Pads <- MCConvPads
    Channel <- MCChannel
    SizeBits = 16
    SurfaceIsBgr32 = FALSE
SPECIFICATION ConvertSpec
INVARIANT ConversionInBounds
INVARIANT ConvertedMatchesPlanar
\* Odd RGB geometry fails the CHECK in ConvertRGB32ToPlanar: the process stops.
CHECK_DEADLOCK FALSE
