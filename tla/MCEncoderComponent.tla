------------------------- MODULE MCEncoderComponent -------------------------
(***************************************************************************)
(* EncoderComponent on a small instance.  Widths 4 and 8 let the frame     *)
(* grow after mShmData was sized for the first one; a stride pad of 4      *)
(* pixels is the smallest gralloc padding that moves ConvertRGB32ToPlanar's *)
(* rows.  The 12-bit word keeps these frames clear of overflow, which      *)
(* MCEncoderPorts explores on its own.                                     *)
(***************************************************************************)
EXTENDS EncoderComponent

MCCompWidths == {4, 8}
MCCompHeights == {4}
MCCompFramerates == {30}
MCCompBitrates == {192}
MCStridePads == {0, 4}
\* The passing run: one geometry, so that the state space stays small.
MCPassWidths == {4}
MCPassPads == {0}
====
